-------------------- MODULE PoolAddressesProviderRegistry --------------------
(***************************************************************************)
(* PoolAddressesProviderRegistry: the markets of the protocol, kept by the *)
(* owner in two mappings that are each other's inverse and in a list that  *)
(* a third mapping indexes.  A provider is removed from the list by moving *)
(* the last one into its place.  Indexes are zero based, as in the code;   *)
(* list[i + 1] is element i of the Solidity array.                         *)
(***************************************************************************)
EXTENDS Integers, Sequences, FiniteSets

CONSTANTS
    Providers,     \* addresses the owner registers, the zero address perhaps
    Ids,           \* market ids the owner may ask for
    ZeroAddress    \* what an absent entry of idToProvider reads

ASSUME IdsAssumption == Ids \subseteq Nat

VARIABLES
    providerToId,  \* _addressesProviderToId, zero when not registered
    idToProvider,  \* _idToAddressesProvider
    list,          \* _addressesProvidersList
    indexes,       \* _addressesProvidersIndexes
    zeroIds        \* history: the ids the zero address was ever given

registryVars == <<providerToId, idToProvider, list, indexes>>
vars         == <<registryVars, zeroIds>>

-----------------------------------------------------------------------------
Init ==
    /\ providerToId = [p \in Providers |-> 0]
    /\ idToProvider = [id \in Ids |-> ZeroAddress]
    /\ list = << >>
    /\ indexes = [p \in Providers |-> 0]
    /\ zeroIds = {}

(* _addToAddressesProvidersList *)
AddToList(p) ==
    /\ indexes' = [indexes EXCEPT ![p] = Len(list)]
    /\ list' = Append(list, p)

(* Mutant: an id is given a second time.                                   *)
RegisterMutant(p, id) ==
    /\ id # 0
    /\ providerToId[p] = 0
    /\ providerToId' = [providerToId EXCEPT ![p] = id]
    /\ idToProvider' = [idToProvider EXCEPT ![id] = p]
    /\ AddToList(p)

(* registerAddressesProvider: no test keeps the zero address out, and an   *)
(* id given to it still reads as free.                                     *)
Register(p, id) ==
    /\ id # 0
    /\ idToProvider[id] = ZeroAddress
    /\ providerToId[p] = 0
    /\ providerToId' = [providerToId EXCEPT ![p] = id]
    /\ idToProvider' = [idToProvider EXCEPT ![id] = p]
    /\ AddToList(p)

Last      == list[Len(list)]
Popped(l) == SubSeq(l, 1, Len(l) - 1)

(* Mutant: the moved provider keeps its old index.                         *)
RemoveFromListMutant(p) ==
    LET index == indexes[p]
        lastIndex == Len(list) - 1
    IN  /\ indexes' = [indexes EXCEPT ![p] = 0]
        /\ list' = Popped(IF index < lastIndex
                           THEN [list EXCEPT ![index + 1] = Last] ELSE list)

(* _removeFromAddressesProvidersList: unless p is the last provider, the   *)
(* last one is moved to the place of p and remembers it.                   *)
RemoveFromList(p) ==
    LET index == indexes[p]
        lastIndex == Len(list) - 1
    IN  IF index < lastIndex
          THEN /\ indexes' = [indexes EXCEPT ![p] = 0, ![Last] = index]
               /\ list' = Popped([list EXCEPT ![index + 1] = Last])
          ELSE /\ indexes' = [indexes EXCEPT ![p] = 0]
               /\ list' = Popped(list)

(* unregisterAddressesProvider *)
Unregister(p) ==
    /\ providerToId[p] # 0
    /\ idToProvider' = [idToProvider EXCEPT ![providerToId[p]] = ZeroAddress]
    /\ providerToId' = [providerToId EXCEPT ![p] = 0]
    /\ RemoveFromList(p)

(* Of the history, read by the refinement only.                            *)
Remember(p, id) ==
    zeroIds' = IF p = ZeroAddress THEN zeroIds \cup {id} ELSE zeroIds

Next ==
    \/ \E p \in Providers, id \in Ids : Register(p, id) /\ Remember(p, id)
    \/ \E p \in Providers : Unregister(p) /\ UNCHANGED zeroIds

Spec == Init /\ [][Next]_vars

-----------------------------------------------------------------------------
Registered == {p \in Providers : providerToId[p] # 0}

(* However providers came and went, the list holds exactly the registered  *)
(* ones, each at the index remembered for it and hence only once.          *)
ListIsIndexed ==
    /\ Len(list) = Cardinality(Registered)
    /\ \A p \in Registered :
          indexes[p] < Len(list) /\ list[indexes[p] + 1] = p

(* The four variables implement a set of providers with ids of their own;  *)
(* only an id that the zero address was given may come to be shared, and   *)
(* for good: no other id ever is, zero address or not.                     *)
Abstract == INSTANCE ProviderRegistry
                WITH idOf <- [p \in Registered |-> providerToId[p]]
ImplementsRegistry == Abstract!Spec
=============================================================================
