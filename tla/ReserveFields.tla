---------------------------- MODULE ReserveFields ----------------------------
(***************************************************************************)
(* What the configuration of a reserve means: independent parameters, each *)
(* changed on its own.  Every other module sees a reserve like this;       *)
(* ReserveConfigurationMap shows that the packed word implements it.       *)
(* A number is the set of the positions of its one bits.                   *)
(***************************************************************************)
EXTENDS Integers

CONSTANTS
    Width    \* per parameter, how many bits its largest valid value has

Fields == DOMAIN Width

VARIABLE fields

Valid(f, value) == value \subseteq 0..(Width[f] - 1)

Init == fields = [f \in Fields |-> {}]

Set(f, value) ==
    /\ Valid(f, value)
    /\ fields' = [fields EXCEPT ![f] = value]

(* Some parameter takes a value, whichever (it is not enumerated).         *)
Next == \E f \in Fields : Set(f, fields'[f])

Spec == Init /\ [][Next]_fields
=============================================================================
