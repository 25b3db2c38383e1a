------------------------------- MODULE MCTokens -------------------------------
(* An instance of TokenizationEvents for TLC.                              *)
EXTENDS TokenizationEvents, TLC

CONSTANTS u1, u2

TwoUsers == Permutations({u1, u2})

(* The receipt only reports the step before: no step depends on it.        *)
WithoutReceipt == <<indexes, ledgers, allowance, borrowAllowance>>

Untouched(ledger) == \A u \in Users : ledger[u].balance = 0

(* The two tokens share no state, so a behaviour of both is an interleaving*)
(* of one of each: TLC takes them one at a time, and one allowance at a    *)
(* time, which is all a call reads.                                        *)
OneToken ==
    /\ Cardinality({p \in Pairs : allowance[p] + borrowAllowance[p] # 0}) <= 1
    /\ \/ income = RAY /\ Untouched(aUser) /\ \A p \in Pairs : allowance[p] = 0
       \/ debtIndex = RAY /\ Untouched(vUser) /\ \A p \in Pairs : borrowAllowance[p] = 0
=============================================================================
