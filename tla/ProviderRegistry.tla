--------------------------- MODULE ProviderRegistry ---------------------------
(***************************************************************************)
(* What the registry of addresses providers promises: a set of providers,  *)
(* each with an id that is not zero and, unless the zero address was once  *)
(* registered under it, is nobody else's.  An owner who registers          *)
(* contracts only never sees an id twice.                                  *)
(***************************************************************************)
EXTENDS Functions, Naturals

CONSTANTS Providers, Ids, ZeroAddress

VARIABLES
    idOf,      \* the ids of the registered providers: provider -> id
    zeroIds    \* the ids the zero address was ever given

registry == <<idOf, zeroIds>>

Init == idOf = [p \in {} |-> 0] /\ zeroIds = {}

Register(p, id) ==
    /\ p \notin DOMAIN idOf
    /\ id # 0
    /\ id \in Range(idOf) => id \in zeroIds
    /\ idOf' = [q \in DOMAIN idOf \cup {p} |-> IF q = p THEN id ELSE idOf[q]]
    /\ zeroIds' = IF p = ZeroAddress THEN zeroIds \cup {id} ELSE zeroIds

Unregister(p) ==
    /\ p \in DOMAIN idOf
    /\ idOf' = Restrict(idOf, DOMAIN idOf \ {p})
    /\ UNCHANGED zeroIds

Next ==
    \/ \E p \in Providers, id \in Ids : Register(p, id)
    \/ \E p \in Providers : Unregister(p)

Spec == Init /\ [][Next]_registry
=============================================================================
