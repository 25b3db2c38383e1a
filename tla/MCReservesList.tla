---------------------------- MODULE MCReservesList ----------------------------
(* More assets than the list has room for.                                 *)
EXTENDS ReservesList

CONSTANTS a1, a2, a3, a4, zero

=============================================================================
