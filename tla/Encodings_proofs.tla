---------------------------- MODULE Encodings_proofs ----------------------------
(***************************************************************************)
(* Two encodings of sets.  The registry of addresses providers, for every  *)
(* set of providers and of ids, the zero address among them or not: its    *)
(* list is indexed, and its two mappings implement a set of providers with *)
(* ids that are their own, but for those the zero address had.  And the    *)
(* bitmap of a user, for every number of reserves: the word implements two sets of   *)
(* reserves, and its getters answer for them.                              *)
(***************************************************************************)
EXTENDS PoolAddressesProviderRegistry, UserConfiguration, FiniteSetTheorems,
        WellFoundedInduction, TLAPS

TypesOK ==
    /\ providerToId \in [Providers -> Ids \cup {0}]
    /\ idToProvider \in [Ids -> Providers \cup {ZeroAddress}]
    /\ list \in Seq(Providers)
    /\ indexes \in [Providers -> Nat]
    /\ zeroIds \subseteq Ids

(* The two mappings are inverses of each other, except at an id that the   *)
(* zero address was given: it reads as free, whoever holds it.             *)
MappingsAreInverse ==
    /\ ZeroAddress \in Registered => providerToId[ZeroAddress] \in zeroIds
    /\ \A p \in Registered :
          providerToId[p] \notin zeroIds => idToProvider[providerToId[p]] = p
    /\ \A id \in Ids :
          idToProvider[id] # ZeroAddress =>
              id # 0 /\ providerToId[idToProvider[id]] = id

(* So are the list and its indexes, between the registered providers and   *)
(* the places of the list.                                                 *)
PlacesAreInverse ==
    /\ \A p \in Registered : indexes[p] < Len(list) /\ list[indexes[p] + 1] = p
    /\ \A i \in 1..Len(list) : list[i] \in Registered /\ indexes[list[i]] = i - 1

RegistryInv == TypesOK /\ MappingsAreInverse /\ PlacesAreInverse

(* Popping a sequence leaves its front.                                    *)
LEMMA PoppedFront ==
    ASSUME NEW S, NEW l \in Seq(S), Len(l) # 0
    PROVE  /\ Popped(l) \in Seq(S)
           /\ Len(Popped(l)) = Len(l) - 1
           /\ \A i \in 1..(Len(l) - 1) : Popped(l)[i] = l[i]
<1> DEFINE m == Len(l) - 1
<1>1. m \in Nat /\ m < Len(l)
  OBVIOUS
<1> HIDE DEF m
<1>2. SubSeq(l, 1, m) \in Seq(S)
  BY <1>1
<1>3. Len(SubSeq(l, 1, m)) = m
  BY <1>1
<1>4. \A i \in 1..m : SubSeq(l, 1, m)[i] = l[i]
  BY <1>1
<1> QED BY <1>2, <1>3, <1>4 DEF Popped, m

(* The list is a bijection from its places to the registered providers.    *)
LEMMA PlacesCount == RegistryInv => ListIsIndexed
<1> SUFFICES ASSUME RegistryInv PROVE ListIsIndexed
  OBVIOUS
<1> USE DEF RegistryInv, TypesOK, PlacesAreInverse
<1>1. Len(list) \in Nat /\ DOMAIN list = 1..Len(list)
  OBVIOUS
<1> DEFINE f == [i \in 1..Len(list) |-> list[i]]
<1>2. f \in Bijection(1..Len(list), Registered)
  <2>1. f \in [1..Len(list) -> Registered]
    BY <1>1
  <2>2. ASSUME NEW i \in 1..Len(list), NEW j \in 1..Len(list), f[i] = f[j]
        PROVE  i = j
    BY <1>1, <2>2
  <2>3. ASSUME NEW p \in Registered
        PROVE  \E i \in 1..Len(list) : f[i] = p
    <3>1. p \in Providers /\ indexes[p] \in Nat
      BY DEF Registered
    <3>2. indexes[p] + 1 \in 1..Len(list)
      BY <1>1, <3>1
    <3> QED BY <3>2
  <2> QED BY <2>1, <2>2, <2>3 DEF Bijection, Injection, Surjection, IsInjective
<1>3. Cardinality(Registered) = Len(list)
  BY <1>1, <1>2, FS_CountingElements DEF ExistsBijection
<1> QED BY <1>3 DEF ListIsIndexed

-----------------------------------------------------------------------------
(* Nobody is registered at first.                                          *)
LEMMA InitRegistry == Init => RegistryInv
BY DEF Init, RegistryInv, TypesOK, MappingsAreInverse, PlacesAreInverse, Registered

(* A registration appends a provider that is not in the list, under an id  *)
(* that reads as free.                                                     *)
LEMMA RegisterKeeps ==
    ASSUME RegistryInv, NEW p \in Providers, NEW id \in Ids,
           Register(p, id), Remember(p, id)
    PROVE  RegistryInv' /\ Registered' = Registered \cup {p} /\ p \notin Registered
<1> USE IdsAssumption DEF RegistryInv, TypesOK
<1>1. /\ id # 0 /\ id \in Nat
      /\ idToProvider[id] = ZeroAddress
      /\ providerToId[p] = 0
      /\ providerToId' = [providerToId EXCEPT ![p] = id]
      /\ idToProvider' = [idToProvider EXCEPT ![id] = p]
      /\ indexes' = [indexes EXCEPT ![p] = Len(list)]
      /\ list' = Append(list, p)
      /\ zeroIds' = IF p = ZeroAddress THEN zeroIds \cup {id} ELSE zeroIds
  BY DEF Register, AddToList, Remember
<1>2. p \notin Registered /\ Registered' = Registered \cup {p}
  BY <1>1 DEF Registered
<1>3. TypesOK'
  BY <1>1
<1>4. MappingsAreInverse'
  <2>0. ZeroAddress \in Registered' => providerToId'[ZeroAddress] \in zeroIds'
    BY <1>1, <1>2 DEF Registered, MappingsAreInverse
  <2>1. ASSUME NEW q \in Registered', providerToId'[q] \notin zeroIds'
        PROVE  idToProvider'[providerToId'[q]] = q
    <3>1. CASE q = p
      BY <3>1, <1>1
    <3>2. CASE q # p
      <4>1. /\ q \in Registered /\ providerToId'[q] = providerToId[q]
            /\ providerToId[q] \in Ids
        BY <3>2, <1>1, <1>2 DEF Registered
      <4>2. idToProvider[providerToId[q]] = q
        BY <4>1, <2>1, <1>1 DEF MappingsAreInverse
      <4>3. providerToId[q] # id
        BY <4>1, <4>2, <2>0, <2>1, <1>1, <1>2
      <4> QED BY <4>1, <4>2, <4>3, <1>1
    <3> QED BY <3>1, <3>2
  <2>2. ASSUME NEW i \in Ids, idToProvider'[i] # ZeroAddress
        PROVE  i # 0 /\ providerToId'[idToProvider'[i]] = i
    <3>1. CASE i = id
      BY <3>1, <1>1
    <3>2. CASE i # id
      <4>1. /\ idToProvider'[i] = idToProvider[i] /\ idToProvider[i] \in Providers
            /\ i # 0 /\ providerToId[idToProvider[i]] = i
        BY <2>2, <3>2, <1>1 DEF MappingsAreInverse
      <4>2. idToProvider[i] # p
        BY <4>1, <1>1
      <4> QED BY <4>1, <4>2, <1>1
    <3> QED BY <3>1, <3>2
  <2> QED BY <2>0, <2>1, <2>2 DEF MappingsAreInverse
<1>5. PlacesAreInverse'
  <2>1. /\ Len(list) \in Nat /\ Len(list') = Len(list) + 1
        /\ list'[Len(list) + 1] = p
        /\ \A i \in 1..Len(list) : list'[i] = list[i]
    BY <1>1
  <2>2. ASSUME NEW q \in Registered'
        PROVE  indexes'[q] < Len(list') /\ list'[indexes'[q] + 1] = q
    <3>1. CASE q = p
      BY <3>1, <2>1, <1>1
    <3>2. CASE q # p
      <4>1. /\ q \in Providers /\ indexes'[q] = indexes[q] /\ indexes[q] \in Nat
            /\ indexes[q] < Len(list) /\ list[indexes[q] + 1] = q
        BY <3>2, <1>1, <1>2 DEF PlacesAreInverse, Registered
      <4>2. indexes[q] + 1 \in 1..Len(list) /\ indexes[q] < Len(list')
        BY <4>1, <2>1
      <4>3. list'[indexes[q] + 1] = q
        BY <4>1, <4>2, <2>1, Zenon
      <4> QED BY <4>1, <4>2, <4>3, Zenon
    <3> QED BY <3>1, <3>2
  <2>3. ASSUME NEW i \in 1..Len(list')
        PROVE  list'[i] \in Registered' /\ indexes'[list'[i]] = i - 1
    <3>1. CASE i = Len(list) + 1
      BY <3>1, <2>1, <1>1, <1>2
    <3>2. CASE i \in 1..Len(list)
      BY <3>2, <2>1, <1>1, <1>2 DEF PlacesAreInverse, Registered
    <3> QED BY <3>1, <3>2, <2>1
  <2> QED BY <2>2, <2>3 DEF PlacesAreInverse
<1> QED BY <1>2, <1>3, <1>4, <1>5

(* Removing a provider frees its id, and the last provider, if another,    *)
(* takes its place and remembers it.                                       *)
LEMMA UnregisterKeeps ==
    ASSUME RegistryInv, NEW p \in Providers, Unregister(p), zeroIds' = zeroIds
    PROVE  RegistryInv' /\ Registered' = Registered \ {p} /\ p \in Registered
<1> USE IdsAssumption DEF RegistryInv, TypesOK
<1>1. /\ p \in Registered /\ providerToId[p] \in Ids
      /\ providerToId' = [providerToId EXCEPT ![p] = 0]
      /\ idToProvider' = [idToProvider EXCEPT ![providerToId[p]] = ZeroAddress]
  BY DEF Unregister, Registered
<1>2. Registered' = Registered \ {p}
  BY <1>1 DEF Registered
<1> DEFINE n == Len(list)
           k == indexes[p]
<1>3. /\ n \in Nat /\ k \in Nat /\ k < n /\ list[k + 1] = p
      /\ Last \in Registered /\ Last \in Providers /\ indexes[Last] = n - 1
      /\ \A i \in 1..n : list[i] \in Providers
  BY <1>1 DEF PlacesAreInverse, Registered, Last
(* What the swap leaves, whether or not p was the last one.                *)
<1>4. /\ Len(list') = n - 1
      /\ list' \in Seq(Providers)
      /\ \A i \in 1..(n - 1) : list'[i] = IF i = k + 1 THEN Last ELSE list[i]
  <2>1. CASE k < n - 1
    <3> DEFINE l == [list EXCEPT ![k + 1] = Last]
    <3>1. l \in Seq(Providers) /\ Len(l) = n
          /\ \A i \in 1..n : l[i] = IF i = k + 1 THEN Last ELSE list[i]
      BY <1>3
    <3>2. list' = Popped(l)
      BY <2>1, <3>1 DEF Unregister, RemoveFromList
    <3> HIDE DEF l
    <3>3. /\ list' \in Seq(Providers) /\ Len(list') = n - 1
          /\ \A i \in 1..(n - 1) : list'[i] = l[i]
      <4>1. Len(l) # 0
        BY <3>1, <1>3
      <4>2. /\ Popped(l) \in Seq(Providers) /\ Len(Popped(l)) = Len(l) - 1
            /\ \A i \in 1..(Len(l) - 1) : Popped(l)[i] = l[i]
        BY <4>1, <3>1, PoppedFront, Zenon
      <4> QED BY <4>2, <3>1, <3>2
    <3> QED BY <3>1, <3>3, <1>3
  <2>2. CASE k = n - 1
    <3>1. list' = Popped(list)
      BY <2>2, <1>3 DEF Unregister, RemoveFromList
    <3>2. Len(list) # 0
      BY <1>3
    <3>3. /\ Popped(list) \in Seq(Providers) /\ Len(Popped(list)) = Len(list) - 1
          /\ \A i \in 1..(Len(list) - 1) : Popped(list)[i] = list[i]
      BY <3>2, PoppedFront, Zenon
    <3> QED BY <3>1, <3>3, <2>2, <1>3
  <2> QED BY <1>3, <2>1, <2>2
<1>5. /\ indexes' \in [Providers -> Nat]
      /\ \A q \in Providers \ {p} : indexes'[q] = IF q = Last THEN k ELSE indexes[q]
  <2>1. CASE k < n - 1
    <3>1. indexes' = [indexes EXCEPT ![p] = 0, ![Last] = k]
      BY <2>1 DEF Unregister, RemoveFromList
    <3> QED BY <3>1, <1>3
  <2>2. CASE k = n - 1
    <3>1. Last = p
      BY <2>2, <1>3 DEF Last
    <3>2. indexes' = [indexes EXCEPT ![p] = 0]
      BY <2>2, <1>3 DEF Unregister, RemoveFromList
    <3> QED BY <3>1, <3>2, <1>3
  <2> QED BY <1>3, <2>1, <2>2
<1>6. TypesOK'
  BY <1>1, <1>4, <1>5
<1>7. MappingsAreInverse'
  <2>0. ZeroAddress \in Registered' => providerToId'[ZeroAddress] \in zeroIds'
    BY <1>1, <1>2 DEF Registered, MappingsAreInverse
  <2>1. ASSUME NEW q \in Registered', providerToId'[q] \notin zeroIds'
        PROVE  idToProvider'[providerToId'[q]] = q
    <3>1. /\ q \in Registered /\ q \in Providers /\ q # p
          /\ providerToId'[q] = providerToId[q]
          /\ providerToId[q] \in Ids /\ idToProvider[providerToId[q]] = q
      BY <2>1, <1>1, <1>2 DEF Registered, MappingsAreInverse
    <3>2. providerToId[q] # providerToId[p]
      BY <2>1, <3>1, <1>1 DEF MappingsAreInverse
    <3> QED BY <3>1, <3>2, <1>1
  <2>2. ASSUME NEW i \in Ids, idToProvider'[i] # ZeroAddress
        PROVE  i # 0 /\ providerToId'[idToProvider'[i]] = i
    <3>1. i # providerToId[p] /\ idToProvider'[i] = idToProvider[i]
      BY <2>2, <1>1
    <3>2. /\ idToProvider[i] \in Providers /\ i # 0
          /\ providerToId[idToProvider[i]] = i
      BY <2>2, <3>1 DEF MappingsAreInverse
    <3> QED BY <3>1, <3>2, <1>1
  <2> QED BY <2>0, <2>1, <2>2 DEF MappingsAreInverse
<1> HIDE IdsAssumption DEF RegistryInv, TypesOK, n, k
<1>8. PlacesAreInverse'
  <2>1. ASSUME NEW q \in Registered'
        PROVE  indexes'[q] < Len(list') /\ list'[indexes'[q] + 1] = q
    <3>1. /\ q \in Registered /\ q \in Providers /\ q # p
          /\ indexes[q] \in Nat /\ indexes[q] < n /\ list[indexes[q] + 1] = q
      BY <1>2 DEF Registered, RegistryInv, TypesOK, PlacesAreInverse, n
    <3>2. CASE q = Last
      <4>1. k # n - 1
        BY <1>3, <3>1, <3>2 DEF Last, n
      <4>2. indexes'[q] = k /\ k + 1 \in 1..(n - 1)
        BY <4>1, <3>1, <3>2, <1>3, <1>5
      <4> QED BY <4>2, <3>2, <1>3, <1>4
    <3>3. CASE q # Last
      <4>1. indexes[q] # n - 1 /\ indexes[q] # k
        BY <1>3, <3>1, <3>3 DEF Last, n
      <4>2. indexes'[q] = indexes[q] /\ indexes[q] + 1 \in 1..(n - 1)
        <5>1. indexes'[q] = indexes[q]
          BY <3>1, <3>3, <1>5, Zenon
        <5> QED BY <5>1, <4>1, <3>1, <1>3
      <4>3. list'[indexes[q] + 1] = list[indexes[q] + 1]
        BY <4>1, <4>2, <3>1, <1>3, <1>4
      <4> QED BY <4>2, <4>3, <3>1, <1>3, <1>4
    <3> QED BY <3>2, <3>3
  <2>2. ASSUME NEW i \in 1..Len(list')
        PROVE  list'[i] \in Registered' /\ indexes'[list'[i]] = i - 1
    <3>1. i \in 1..(n - 1) /\ i \in Nat
      BY <1>3, <1>4
    <3>2. CASE i = k + 1
      <4>1. list'[i] = Last /\ Last # p
        BY <3>1, <3>2, <1>3, <1>4 DEF k
      <4> QED BY <4>1, <3>2, <1>2, <1>3, <1>5
    <3>3. CASE i # k + 1
      <4>1. list'[i] = list[i] /\ list[i] \in Registered /\ indexes[list[i]] = i - 1
        BY <3>1, <3>3, <1>3, <1>4 DEF RegistryInv, PlacesAreInverse, n
      <4>2. i - 1 # k /\ i - 1 # n - 1 /\ i \in 1..n
        BY <3>1, <3>3, <1>3
      <4>3. list[i] # p /\ list[i] # Last
        BY <4>1, <4>2, <1>3, Zenon DEF k
      <4>4. list[i] \in Providers
        BY <4>2, <1>3, Zenon
      <4>5. indexes'[list[i]] = indexes[list[i]]
        BY <4>3, <4>4, <1>5, Zenon
      <4>6. list[i] \in Registered'
        BY <4>1, <4>3, <1>2, Zenon
      <4> QED BY <4>1, <4>5, <4>6, Zenon
    <3> QED BY <3>2, <3>3
  <2> QED BY <2>1, <2>2 DEF PlacesAreInverse
<1> QED BY <1>1, <1>2, <1>6, <1>7, <1>8 DEF RegistryInv

(* No call breaks the invariant.                                           *)
LEMMA RegistryStep == RegistryInv /\ [Next]_vars => RegistryInv'
<1> SUFFICES ASSUME RegistryInv, [Next]_vars PROVE RegistryInv'
  OBVIOUS
<1>1. ASSUME NEW p \in Providers, NEW id \in Ids, Register(p, id), Remember(p, id)
      PROVE  RegistryInv'
  BY <1>1, RegisterKeeps
<1>2. ASSUME NEW p \in Providers, Unregister(p), zeroIds' = zeroIds
      PROVE  RegistryInv'
  BY <1>2, UnregisterKeeps
<1>3. CASE UNCHANGED vars
  BY <1>3 DEF vars, registryVars, RegistryInv, TypesOK, MappingsAreInverse, PlacesAreInverse, Registered
<1> QED BY <1>1, <1>2, <1>3 DEF Next

THEOREM RegistryInvariant == Spec => []RegistryInv
<1> QED BY InitRegistry, RegistryStep, PTL DEF Spec

(* Whatever the order of registrations and removals, the list holds every  *)
(* registered provider once, at the index remembered for it.               *)
THEOREM ListStaysIndexed == Spec => []ListIsIndexed
<1> QED BY RegistryInvariant, PlacesCount, PTL

-----------------------------------------------------------------------------
(* The refinement.                                                         *)
idOf == [p \in Registered |-> providerToId[p]]

(* Nobody has an id at first.                                              *)
LEMMA InitImplements == Init => Abstract!Init
<1> SUFFICES ASSUME Init PROVE Abstract!Init
  OBVIOUS
<1>1. Registered = {}
  BY DEF Init, Registered
<1> QED BY <1>1 DEF Init, Abstract!Init

(* A registration gives an id that no other provider has, unless the zero  *)
(* address had it.                                                         *)
LEMMA RegisterImplements ==
    ASSUME RegistryInv, NEW p \in Providers, NEW id \in Ids,
           Register(p, id), Remember(p, id)
    PROVE  Abstract!Register(p, id)
<1>1. Registered' = Registered \cup {p} /\ p \notin Registered
  BY RegisterKeeps
<1>2. /\ id # 0 /\ idToProvider[id] = ZeroAddress
      /\ providerToId \in [Providers -> Ids \cup {0}]
      /\ providerToId' = [providerToId EXCEPT ![p] = id]
  BY DEF Register, RegistryInv, TypesOK
<1>3. ASSUME NEW q \in Registered, providerToId[q] = id
      PROVE  id \in zeroIds
  <2>1. id \notin zeroIds => q = ZeroAddress
    BY <1>2, <1>3 DEF RegistryInv, MappingsAreInverse
  <2> QED BY <2>1, <1>3 DEF RegistryInv, MappingsAreInverse
<1>4. DOMAIN idOf = Registered /\ \A q \in Registered : idOf[q] = providerToId[q]
  BY DEF idOf
<1>5. id \in Abstract!Range(idOf) => id \in zeroIds
  BY <1>3, <1>4 DEF Abstract!Range
<1>6. idOf' = [q \in DOMAIN idOf \cup {p} |-> IF q = p THEN id ELSE idOf[q]]
  <2>1. \A q \in Registered' : providerToId'[q] = IF q = p THEN id ELSE idOf[q]
    BY <1>1, <1>2, <1>4 DEF Registered
  <2> QED BY <2>1, <1>1, <1>4 DEF idOf
<1> QED BY <1>1, <1>2, <1>4, <1>5, <1>6 DEF Abstract!Register, Remember, idOf

(* A removal takes away one provider and leaves the others their ids.      *)
LEMMA UnregisterImplements ==
    ASSUME RegistryInv, NEW p \in Providers, Unregister(p), zeroIds' = zeroIds
    PROVE  Abstract!Unregister(p)
<1>1. Registered' = Registered \ {p} /\ p \in Registered
  BY UnregisterKeeps
<1>2. \A q \in Registered \ {p} : providerToId'[q] = providerToId[q]
  BY DEF Unregister, RegistryInv, TypesOK, Registered
<1>3. idOf' = [q \in DOMAIN idOf \ {p} |-> idOf[q]]
  BY <1>1, <1>2 DEF idOf
<1> QED BY <1>1, <1>3 DEF Abstract!Unregister, Abstract!Restrict, idOf

(* Every step of the registry is a step of the set of providers, or none.  *)
LEMMA StepImplements == RegistryInv /\ [Next]_vars => [Abstract!Next]_<<idOf, zeroIds>>
<1> SUFFICES ASSUME RegistryInv, [Next]_vars PROVE [Abstract!Next]_<<idOf, zeroIds>>
  OBVIOUS
<1>1. ASSUME NEW p \in Providers, NEW id \in Ids, Register(p, id), Remember(p, id)
      PROVE  Abstract!Next
  BY <1>1, RegisterImplements DEF Abstract!Next
<1>2. ASSUME NEW p \in Providers, Unregister(p), zeroIds' = zeroIds
      PROVE  Abstract!Next
  BY <1>2, UnregisterImplements DEF Abstract!Next
<1>3. CASE UNCHANGED vars
  BY <1>3 DEF vars, registryVars, idOf, Registered
<1> QED BY <1>1, <1>2, <1>3 DEF Next

(* The mappings and the list implement a set of providers, for any         *)
(* providers and ids: each has an id of its own, whatever is registered,   *)
(* except that ids which the zero address was given may be shared.         *)
THEOREM RegistryImplements == Spec => ImplementsRegistry
<1>1. Init => Abstract!Init
  BY InitImplements
<1>2. RegistryInv /\ [Next]_vars => [Abstract!Next]_Abstract!registry
  BY StepImplements DEF idOf, Abstract!registry
<1> QED BY <1>1, <1>2, RegistryInvariant, PTL DEF Spec, ImplementsRegistry, Abstract!Spec

-----------------------------------------------------------------------------
(* The bits of a word, seen from the reserves: bit 2i and bit 2i + 1 of     *)
(* reserve i, and nothing else.                                            *)
LEMMA BitsOfReserves ==
    /\ \A p \in Word : \E i \in Reserves : p = 2 * i \/ p = 2 * i + 1
    /\ \A i \in Reserves : i \in Nat /\ 2 * i \in Word /\ 2 * i + 1 \in Word
    /\ \A i, j \in Reserves : 2 * i # 2 * j + 1
<1> USE CountAssumption
<1>1. ASSUME NEW p \in Word
      PROVE  \E i \in Reserves : p = 2 * i \/ p = 2 * i + 1
  <2>1. /\ p \div 2 \in Reserves
        /\ p = 2 * (p \div 2) \/ p = 2 * (p \div 2) + 1
    BY DEF Word, Reserves
  <2> QED BY <2>1
<1>2. \A i \in Reserves : i \in Nat /\ 2 * i \in Word /\ 2 * i + 1 \in Word
  BY DEF Word, Reserves
<1>3. \A i, j \in Reserves : 2 * i # 2 * j + 1
  BY DEF Reserves
<1> QED BY <1>1, <1>2, <1>3

(* A shift by k brings bit k to the bottom, and bit k + 1 next to it.      *)
LEMMA ShiftedBits ==
    ASSUME NEW n \in SUBSET Word, NEW k \in Nat
    PROVE  /\ 0 \in ShiftRight(n, k) <=> k \in n
           /\ 1 \in ShiftRight(n, k) <=> k + 1 \in n
           /\ ShiftRight(n, k) # {} <=> \E b \in n : b >= k
<1>1. \A b \in n : b \in Int
  BY CountAssumption DEF Word
<1>2. \A c \in Int : c \in ShiftRight(n, k) <=> c >= 0 /\ c + k \in n
  BY <1>1 DEF ShiftRight
<1>3. 0 + k = k /\ 1 + k = k + 1
  OBVIOUS
<1>4. ShiftRight(n, k) # {} <=> \E b \in n : b >= k
  BY <1>1 DEF ShiftRight
<1> QED BY <1>2, <1>3, <1>4

(* A word is in range, and the two sets are its even and its odd bits.     *)
UserConfigTypeOK == data \in SUBSET Word

SetsMatch ==
    /\ borrowingSet = {i \in Reserves : 2 * i \in data}
    /\ collateralSet = {i \in Reserves : 2 * i + 1 \in data}

LEMMA SetsAreBits == UserConfigTypeOK => SetsMatch
<1> SUFFICES ASSUME UserConfigTypeOK PROVE SetsMatch
  OBVIOUS
<1>1. \A i \in Reserves : 2 * i \in Nat /\ 2 * i + 1 \in Nat
  BY CountAssumption DEF Reserves
<1>2. \A i \in Reserves : isBorrowing(i) <=> 2 * i \in data
  BY <1>1, ShiftedBits DEF isBorrowing, UserConfigTypeOK
<1>3. \A i \in Reserves : isUsingAsCollateral(i) <=> 2 * i + 1 \in data
  BY <1>1, ShiftedBits DEF isUsingAsCollateral, UserConfigTypeOK
<1> QED BY <1>2, <1>3 DEF SetsMatch, borrowingSet, collateralSet

(* No setter leaves the word.                                              *)
THEOREM UserConfigTypeCorrect == UserConfigSpec => []UserConfigTypeOK
<1>1. UserConfigInit => UserConfigTypeOK
  BY DEF UserConfigInit, UserConfigTypeOK
<1>2. UserConfigTypeOK /\ [UserConfigNext]_data => UserConfigTypeOK'
  <2> SUFFICES ASSUME UserConfigTypeOK, [UserConfigNext]_data PROVE UserConfigTypeOK'
    OBVIOUS
  <2>1. ASSUME NEW i \in Reserves, NEW on \in BOOLEAN, setBorrowing(i, on)
        PROVE  UserConfigTypeOK'
    BY <2>1, BitsOfReserves DEF setBorrowing, UserConfigTypeOK, BorrowingBit, Complement
  <2>2. ASSUME NEW i \in Reserves, NEW on \in BOOLEAN, setUsingAsCollateral(i, on)
        PROVE  UserConfigTypeOK'
    BY <2>2, BitsOfReserves
       DEF setUsingAsCollateral, UserConfigTypeOK, CollateralBit, Complement
  <2>3. CASE UNCHANGED data
    BY <2>3 DEF UserConfigTypeOK
  <2> QED BY <2>1, <2>2, <2>3 DEF UserConfigNext
<1> QED BY <1>1, <1>2, PTL DEF UserConfigSpec

-----------------------------------------------------------------------------
(* Setting and clearing a borrowing bit is setting and clearing a member.  *)
LEMMA BorrowingStep ==
    ASSUME SetsMatch, SetsMatch', UserConfigTypeOK,
           NEW i \in Reserves, NEW on \in BOOLEAN, setBorrowing(i, on)
    PROVE  Sets!SetBorrowing(i, on)
<1>1. data' = IF on THEN data \cup {2 * i} ELSE data \ {2 * i}
  BY DEF setBorrowing, BorrowingBit, Complement, UserConfigTypeOK
<1>2. \A j \in Reserves : 2 * j = 2 * i => j = i
  BY CountAssumption DEF Reserves
<1>3. \A j \in Reserves : 2 * j + 1 # 2 * i
  BY BitsOfReserves
<1>4. borrowingSet' = IF on THEN borrowingSet \cup {i} ELSE borrowingSet \ {i}
  BY <1>1, <1>2 DEF SetsMatch
<1>5. collateralSet' = collateralSet
  BY <1>1, <1>3 DEF SetsMatch
<1> QED BY <1>4, <1>5 DEF Sets!SetBorrowing

(* So is setting and clearing a collateral bit.                            *)
LEMMA CollateralStep ==
    ASSUME SetsMatch, SetsMatch', UserConfigTypeOK,
           NEW i \in Reserves, NEW on \in BOOLEAN, setUsingAsCollateral(i, on)
    PROVE  Sets!SetUsingAsCollateral(i, on)
<1>1. data' = IF on THEN data \cup {2 * i + 1} ELSE data \ {2 * i + 1}
  BY DEF setUsingAsCollateral, CollateralBit, Complement, UserConfigTypeOK
<1>2. \A j \in Reserves : 2 * j + 1 = 2 * i + 1 => j = i
  BY CountAssumption DEF Reserves
<1>3. \A j \in Reserves : 2 * j # 2 * i + 1
  BY BitsOfReserves
<1>4. collateralSet' = IF on THEN collateralSet \cup {i} ELSE collateralSet \ {i}
  BY <1>1, <1>2 DEF SetsMatch
<1>5. borrowingSet' = borrowingSet
  BY <1>1, <1>3 DEF SetsMatch
<1> QED BY <1>4, <1>5 DEF Sets!SetUsingAsCollateral

(* The word of the code implements two independent sets of reserves, for   *)
(* any number of reserves.                                                 *)
THEOREM WordImplementsSets == UserConfigSpec => ImplementsSets
<1>1. UserConfigInit => Sets!Init
  <2> SUFFICES ASSUME UserConfigInit PROVE Sets!Init
    OBVIOUS
  <2>1. UserConfigTypeOK /\ data = {}
    BY DEF UserConfigInit, UserConfigTypeOK
  <2> QED BY <2>1, SetsAreBits DEF SetsMatch, Sets!Init
<1>2. UserConfigTypeOK => SetsMatch
  BY SetsAreBits
<1>3. SetsMatch /\ SetsMatch' /\ UserConfigTypeOK /\ [UserConfigNext]_data
        => [Sets!Next]_<<borrowingSet, collateralSet>>
  <2> SUFFICES ASSUME SetsMatch, SetsMatch', UserConfigTypeOK, [UserConfigNext]_data
               PROVE  [Sets!Next]_<<borrowingSet, collateralSet>>
    OBVIOUS
  <2>1. ASSUME NEW i \in Reserves, NEW on \in BOOLEAN, setBorrowing(i, on)
        PROVE  Sets!Next
    BY <2>1, BorrowingStep DEF Sets!Next, Sets!Reserves, Reserves
  <2>2. ASSUME NEW i \in Reserves, NEW on \in BOOLEAN, setUsingAsCollateral(i, on)
        PROVE  Sets!Next
    BY <2>2, CollateralStep DEF Sets!Next, Sets!Reserves, Reserves
  <2>3. CASE UNCHANGED data
    BY <2>3 DEF SetsMatch
  <2> QED BY <2>1, <2>2, <2>3 DEF UserConfigNext
<1>4. SetsMatch /\ SetsMatch' /\ UserConfigTypeOK => CallsDoAsAsked
  BY BorrowingStep, CollateralStep DEF CallsDoAsAsked
<1> QED BY <1>1, <1>2, <1>3, <1>4, UserConfigTypeCorrect, PTL
        DEF UserConfigSpec, ImplementsSets, Sets!Spec

-----------------------------------------------------------------------------
(* A word that is not zero has a lowest one bit.                           *)
LEMMA LowestIsLeast ==
    ASSUME NEW n \in SUBSET Word, n # {}
    PROVE  LeastOf(n, LowestBit(n))
<1>1. n \in SUBSET Nat
  BY CountAssumption DEF Word
<1>2. PICK p \in n : \A q \in n : <<q, p>> \notin OpToRel(<, Nat)
  BY <1>1, NatLessThanWellFounded, WFMin
<1>3. \A q \in n : ~(q < p)
  BY <1>1, <1>2 DEF OpToRel
<1>4. \A q \in n : p <= q
  BY <1>1, <1>3
<1> QED BY <1>4 DEF LowestBit, LeastOf

(* What n & (n - 1) and n & ~(n - 1) leave of a word: all bits but the     *)
(* lowest, and only the lowest.                                            *)
LEMMA LowestBitTricks ==
    ASSUME NEW n \in SUBSET Word, n # {}
    PROVE  /\ n \cap MinusOne(n) = n \ {LowestBit(n)}
           /\ FirstAssetPosition(n) = {LowestBit(n)}
<1> DEFINE p == LowestBit(n)
<1>1. p \in n /\ \A q \in n : p <= q
  BY LowestIsLeast DEF LeastOf
<1>2. \A q \in n : q \in Nat
  BY CountAssumption DEF Word
<1> HIDE DEF p
<1>3. \A q \in n : q \notin 0..(p - 1)
  BY <1>1, <1>2
<1>4. p \in Word
  BY <1>1
<1>5. MinusOne(n) = (n \ {p}) \cup 0..(p - 1)
  BY DEF MinusOne, p
<1>6. n \cap MinusOne(n) = n \ {p}
  BY <1>3, <1>5
<1>7. n \cap (Word \ MinusOne(n)) = {p}
  BY <1>1, <1>3, <1>5
<1> QED BY <1>6, <1>7 DEF p, FirstAssetPosition, Complement

(* One bit of reserve i can be shifted by two i times before it is gone.   *)
LEMMA ShiftsCounted ==
    ASSUME NEW i \in Reserves, NEW p \in Word, p = 2 * i \/ p = 2 * i + 1
    PROVE  Cardinality({k \in 1..MAX_RESERVES_COUNT : ShiftRight({p}, 2 * k) # {}}) = i
<1>1. i \in Nat /\ i < MAX_RESERVES_COUNT /\ MAX_RESERVES_COUNT \in Nat
  BY CountAssumption DEF Reserves
<1>2. \A k \in 1..MAX_RESERVES_COUNT : ShiftRight({p}, 2 * k) # {} <=> k <= i
  <2> TAKE k \in 1..MAX_RESERVES_COUNT
  <2>1. k \in Nat /\ 2 * k \in Nat
    BY <1>1
  <2>2. ShiftRight({p}, 2 * k) # {} <=> p >= 2 * k
    BY <2>1, ShiftedBits
  <2> QED BY <1>1, <2>1, <2>2
<1>3. {k \in 1..MAX_RESERVES_COUNT : ShiftRight({p}, 2 * k) # {}} = 1..i
  <2> DEFINE Left(k) == ShiftRight({p}, 2 * k) # {}
  <2>1. \A k \in 1..MAX_RESERVES_COUNT : Left(k) <=> k <= i
    BY <1>2
  <2> HIDE DEF Left
  <2>2. {k \in 1..MAX_RESERVES_COUNT : Left(k)} = 1..i
    BY <1>1, <2>1
  <2> QED BY <2>2 DEF Left
<1>4. Cardinality(1..i) = i
  BY <1>1, FS_Interval
<1> QED BY <1>3, <1>4

(* The two kinds of bits are stored alike, at an offset of nought and one. *)
BitsOf(S, d) == {2 * i + d : i \in S}

FirstIn(n) ==
    Cardinality({k \in 1..MAX_RESERVES_COUNT :
                    ShiftRight(FirstAssetPosition(n), 2 * k) # {}})

LEMMA TricksOnBits ==
    ASSUME NEW S \in SUBSET Reserves, NEW d \in {0, 1}
    PROVE  /\ BitsOf(S, d) = {} <=> S = {}
           /\ ExactlyOne(BitsOf(S, d)) <=> Cardinality(S) = 1
           /\ S # {} => LeastOf(S, FirstIn(BitsOf(S, d)))
<1> DEFINE n == BitsOf(S, d)
<1>1. n \in SUBSET Word
  BY BitsOfReserves DEF BitsOf
<1>2. n = {} <=> S = {}
  BY DEF BitsOf
<1>3. ASSUME S # {}
      PROVE  \E i \in S : /\ LowestBit(n) = 2 * i + d
                          /\ LeastOf(S, i)
  <2>1. PICK i \in S : LowestBit(n) = 2 * i + d
    BY <1>1, <1>2, <1>3, LowestIsLeast DEF LeastOf, BitsOf
  <2>2. \A j \in S : 2 * j + d \in n
    BY DEF BitsOf
  <2>3. \A j \in S : 2 * i + d <= 2 * j + d
    BY <1>1, <1>2, <1>3, <2>1, <2>2, LowestIsLeast DEF LeastOf
  <2>4. \A j \in S : j \in Nat
    BY BitsOfReserves
  <2>5. \A j \in S : i <= j
    BY <2>3, <2>4
  <2> QED BY <2>1, <2>5 DEF LeastOf
<1> HIDE DEF n
<1>4. ExactlyOne(n) <=> Cardinality(S) = 1
  <2>1. IsFiniteSet(S)
    <3>1. IsFiniteSet(Reserves)
      BY CountAssumption, FS_Interval DEF Reserves
    <3> QED BY <3>1, FS_Subset
  <2>2. Cardinality(S) = 1 <=> \E i : S = {i}
    BY <2>1, FS_Singleton
  <2>3. ExactlyOne(n) <=> S # {} /\ n \subseteq {LowestBit(n)}
    BY <1>1, <1>2, LowestBitTricks DEF ExactlyOne
  <2>4. CASE S # {}
    <3>1. PICK i \in S : LowestBit(n) = 2 * i + d /\ LeastOf(S, i)
      BY <1>3, <2>4
    <3>2. \A j \in S : j \in Nat
      BY BitsOfReserves
    <3>3. n \subseteq {LowestBit(n)} <=> \A j \in S : 2 * j + d = 2 * i + d
      BY <3>1 DEF n, BitsOf
    <3>4. \A j \in S : 2 * j + d = 2 * i + d <=> j = i
      BY <3>2
    <3>5. n \subseteq {LowestBit(n)} <=> S = {i}
      BY <3>3, <3>4
    <3>6. S = {i} <=> \E j : S = {j}
      OBVIOUS
    <3> QED BY <2>2, <2>3, <2>4, <3>5, <3>6
  <2>5. CASE S = {}
    BY <2>2, <2>3, <2>5
  <2> QED BY <2>4, <2>5
<1>5. ASSUME S # {}
      PROVE  LeastOf(S, FirstIn(n))
  <2>1. PICK i \in S : LowestBit(n) = 2 * i + d /\ LeastOf(S, i)
    BY <1>3, <1>5
  <2>2. FirstAssetPosition(n) = {2 * i + d}
    BY <1>1, <1>2, <1>5, <2>1, LowestBitTricks
  <2>3. 2 * i + d \in Word /\ (2 * i + d = 2 * i \/ 2 * i + d = 2 * i + 1)
    BY BitsOfReserves
  <2>4. Cardinality({k \in 1..MAX_RESERVES_COUNT :
                       ShiftRight({2 * i + d}, 2 * k) # {}}) = i
    BY <2>3, ShiftsCounted
  <2> QED BY <2>1, <2>2, <2>4 DEF FirstIn
<1> QED BY <1>2, <1>4, <1>5 DEF n

(* The two masks cut the word into the bits of the two sets.               *)
LEMMA MasksCutSets ==
    ASSUME UserConfigTypeOK
    PROVE  /\ data \cap BORROWING_MASK = BitsOf(borrowingSet, 0)
           /\ data \cap COLLATERAL_MASK = BitsOf(collateralSet, 1)
           /\ data = BitsOf(borrowingSet, 0) \cup BitsOf(collateralSet, 1)
           /\ borrowingSet \in SUBSET Reserves /\ collateralSet \in SUBSET Reserves
<1>1. SetsMatch
  BY SetsAreBits
<1>2. \A i \in Reserves : 2 * i + 0 = 2 * i
  BY BitsOfReserves
<1>3. data \cap BORROWING_MASK = BitsOf(borrowingSet, 0)
  BY <1>1, <1>2 DEF SetsMatch, BitsOf, BORROWING_MASK
<1>4. data \cap COLLATERAL_MASK = BitsOf(collateralSet, 1)
  BY <1>1 DEF SetsMatch, BitsOf, COLLATERAL_MASK
<1>5. data = (data \cap BORROWING_MASK) \cup (data \cap COLLATERAL_MASK)
  BY BitsOfReserves DEF UserConfigTypeOK, BORROWING_MASK, COLLATERAL_MASK
<1> QED BY <1>1, <1>3, <1>4, <1>5 DEF SetsMatch

(* Hence the getters, one by one.                                          *)
LEMMA GettersAnswer == UserConfigTypeOK => GettersTellTheSets
<1> SUFFICES ASSUME UserConfigTypeOK PROVE GettersTellTheSets
  OBVIOUS
<1>1. /\ data \cap BORROWING_MASK = BitsOf(borrowingSet, 0)
      /\ data \cap COLLATERAL_MASK = BitsOf(collateralSet, 1)
      /\ data = BitsOf(borrowingSet, 0) \cup BitsOf(collateralSet, 1)
      /\ borrowingSet \in SUBSET Reserves /\ collateralSet \in SUBSET Reserves
  BY MasksCutSets
<1> DEFINE B == BitsOf(borrowingSet, 0)
           C == BitsOf(collateralSet, 1)
<1>2. /\ FirstAssetIdByMask(BORROWING_MASK) = FirstIn(B)
      /\ FirstAssetIdByMask(COLLATERAL_MASK) = FirstIn(C)
  BY <1>1 DEF FirstAssetIdByMask, FirstIn
<1>3. /\ B = {} <=> borrowingSet = {}
      /\ ExactlyOne(B) <=> Cardinality(borrowingSet) = 1
      /\ borrowingSet # {} => LeastOf(borrowingSet, FirstIn(B))
  BY <1>1, TricksOnBits
<1>4. /\ C = {} <=> collateralSet = {}
      /\ ExactlyOne(C) <=> Cardinality(collateralSet) = 1
      /\ collateralSet # {} => LeastOf(collateralSet, FirstIn(C))
  BY <1>1, TricksOnBits
<1> HIDE DEF B, C
<1>5. /\ isBorrowingOne <=> Cardinality(borrowingSet) = 1
      /\ isBorrowingAny <=> borrowingSet # {}
      /\ isBorrowingAny => LeastOf(borrowingSet, FirstAssetIdByMask(BORROWING_MASK))
  BY <1>1, <1>2, <1>3 DEF isBorrowingOne, isBorrowingAny, B
<1>6. /\ isUsingAsCollateralOne <=> Cardinality(collateralSet) = 1
      /\ isUsingAsCollateralAny <=> collateralSet # {}
      /\ isUsingAsCollateralAny =>
            LeastOf(collateralSet, FirstAssetIdByMask(COLLATERAL_MASK))
  BY <1>1, <1>2, <1>4 DEF isUsingAsCollateralOne, isUsingAsCollateralAny, C
<1>7. isEmpty <=> borrowingSet = {} /\ collateralSet = {}
  BY <1>1, <1>3, <1>4 DEF isEmpty, B, C
<1>8. ASSUME NEW i \in Reserves
      PROVE  isUsingAsCollateralOrBorrowing(i) <=> i \in borrowingSet \cup collateralSet
  <2>1. 2 * i \in Nat
    BY BitsOfReserves
  <2>2. /\ 0 \in ShiftRight(data, 2 * i) <=> 2 * i \in data
        /\ 1 \in ShiftRight(data, 2 * i) <=> 2 * i + 1 \in data
    BY <2>1, ShiftedBits DEF UserConfigTypeOK
  <2> QED BY <2>2, SetsAreBits DEF SetsMatch, isUsingAsCollateralOrBorrowing
<1> QED BY <1>5, <1>6, <1>7, <1>8 DEF GettersTellTheSets

(* Every question the code asks of the word has the answer the two sets    *)
(* give, for any number of reserves: exactly one, any, none, either, and   *)
(* which reserve is the first.                                             *)
THEOREM GettersTellSets == UserConfigSpec => []GettersTellTheSets
<1> QED BY UserConfigTypeCorrect, GettersAnswer, PTL
=============================================================================
