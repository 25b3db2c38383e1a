------------------------------ MODULE MCRegistry ------------------------------
(* An instance of the registry for TLC.                                    *)
EXTENDS PoolAddressesProviderRegistry

CONSTANTS p1, p2, p3, p4, zero
=============================================================================
