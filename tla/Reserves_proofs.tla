---------------------------- MODULE Reserves_proofs ----------------------------
(***************************************************************************)
(* How reserves are listed, how their parameters are packed, and what the  *)
(* script that reads both from outside may conclude.                       *)
(*                                                                         *)
(* The list: the invariant is inductive because nothing leaves a hole; the *)
(* search for one in initReserve never succeeds, and every reserve is      *)
(* appended.  The word: masks, start positions and largest values are      *)
(* three tables that agree on where each parameter is, so a setter changes *)
(* its own and no other.  The script: what it has read is what the chain   *)
(* holds at the block it named, however the chain goes on, and its windows *)
(* of logs join on to one another without a gap.                           *)
(***************************************************************************)
EXTENDS ReservesList, ReserveConfigurationMap, LiveAssumptions,
        SequenceTheorems, WellFoundedInduction, TLAPS

-----------------------------------------------------------------------------
(* The list of reserves.                                                    *)

(* What no call breaks.                                                    *)
ListInv ==
    /\ TypeOK
    /\ ListIsDense
    /\ OnlyListedAreActive
    /\ \A asset \in Addresses \ initialized : id[asset] = 0

(* On a dense list the two tests for being listed agree.                   *)
LEMMA DenseListed == ListInv => ListedIsInitialized
BY ListingAssumption
   DEF ListInv, TypeOK, ListIsDense, ListedIsInitialized, Listed, Addresses, Slots

(* A dense list has no holes, so a reserve is always appended.             *)
LEMMA DenseAppends ==
    ASSUME ListInv
    PROVE  Holes = {} /\ FreeId = reservesCount /\ NextCount = reservesCount + 1
<1>1. Holes = {}
  BY ListingAssumption DEF ListInv, TypeOK, ListIsDense, Holes, Slots
<1> QED BY <1>1 DEF FreeId, NextCount

(* The empty list is dense.                                                *)
LEMMA InitList == Init => ListInv
BY ListingAssumption
   DEF Init, ListInv, TypeOK, ListIsDense, OnlyListedAreActive, Addresses, Slots

(* Listing a reserve keeps the list dense.                                 *)
LEMMA InitReserveKeeps ==
    ASSUME ListInv, NEW asset \in Addresses, InitReserve(asset)
    PROVE  ListInv'
<1>1. /\ Holes = {}
      /\ FreeId = reservesCount
      /\ NextCount = reservesCount + 1
  BY DenseAppends
<1>2. /\ asset \in Assets \ initialized
      /\ reservesCount \in 0..MaxReserves
      /\ reservesCount < MaxReserves
      /\ reservesList' = [reservesList EXCEPT ![reservesCount] = asset]
      /\ reservesCount' = reservesCount + 1
      /\ id' = [id EXCEPT ![asset] = reservesCount]
      /\ initialized' = initialized \cup {asset}
      /\ active' = active \cup {asset}
  BY <1>1, ListingAssumption
     DEF InitReserve, HasRoom, ListInv, TypeOK, Addresses
<1>3. TypeOK'
  BY <1>2, ListingAssumption DEF ListInv, TypeOK, Addresses, Slots
<1>4. ListIsDense'
  <2>1. \A i \in Slots : reservesList'[i] # ZeroAddress <=> i < reservesCount'
    BY <1>2, ListingAssumption DEF ListInv, TypeOK, ListIsDense, Slots
  <2>2. ASSUME NEW i \in 0..(reservesCount' - 1)
        PROVE  reservesList'[i] \in initialized' /\ id'[reservesList'[i]] = i
    <3>1. CASE i = reservesCount
      BY <3>1, <1>2 DEF ListInv, TypeOK, Addresses, Slots
    <3>2. CASE i # reservesCount
      <4>1. i \in 0..(reservesCount - 1) /\ reservesList'[i] = reservesList[i]
        BY <3>2, <1>2 DEF ListInv, TypeOK, Slots
      <4> QED
        BY <4>1, <1>2 DEF ListInv, TypeOK, ListIsDense, Addresses, Slots
    <3> QED BY <3>1, <3>2
  <2>3. ASSUME NEW a \in initialized'
        PROVE  id'[a] < reservesCount' /\ reservesList'[id'[a]] = a
    <3>1. CASE a = asset
      BY <3>1, <1>2 DEF ListInv, TypeOK, Addresses, Slots
    <3>2. CASE a # asset
      <4>1. a \in initialized /\ id'[a] = id[a]
        BY <3>2, <1>2 DEF ListInv, TypeOK, Addresses
      <4>2. id[a] < reservesCount /\ reservesList[id[a]] = a /\ id[a] \in Slots
        BY <4>1 DEF ListInv, TypeOK, ListIsDense, Addresses
      <4> QED
        BY <4>1, <4>2, <1>2 DEF ListInv, TypeOK, Slots
    <3> QED BY <3>1, <3>2
  <2> QED BY <2>1, <2>2, <2>3 DEF ListIsDense
<1>5. \A a \in Addresses \ initialized' : id'[a] = 0
  BY <1>2 DEF ListInv, TypeOK
<1>6. OnlyListedAreActive'
  BY <1>2 DEF ListInv, OnlyListedAreActive
<1> QED BY <1>3, <1>4, <1>5, <1>6 DEF ListInv, Addresses

(* Every step keeps the list dense.                                        *)
LEMMA StepKeepsList == ListInv /\ [Next]_vars => ListInv'
<1> SUFFICES ASSUME ListInv, [Next]_vars
             PROVE  ListInv'
  OBVIOUS
<1>1. CASE \E asset \in Addresses : InitReserve(asset)
  BY <1>1, InitReserveKeeps
<1>2. CASE \E asset \in Addresses, on \in BOOLEAN : SetReserveActive(asset, on)
  <2>1. PICK asset \in Addresses, on \in BOOLEAN : SetReserveActive(asset, on)
    BY <1>2
  <2>2. asset \in initialized
    BY <2>1, DenseListed
       DEF SetReserveActive, MayConfigure, ListedIsInitialized, Addresses
  <2>3. OnlyListedAreActive'
    BY <2>1, <2>2 DEF SetReserveActive, ListInv, OnlyListedAreActive
  <2> QED
    BY <2>1, <2>3 DEF SetReserveActive, ListInv, TypeOK, ListIsDense, Addresses, Slots
<1>3. CASE UNCHANGED vars
  BY <1>3 DEF vars, ListInv, TypeOK, ListIsDense, OnlyListedAreActive, Addresses, Slots
<1> QED BY <1>1, <1>2, <1>3 DEF Next

(* The list of Pool and the ids of the reserves are inverses of each       *)
(* other, without holes, whatever is listed in whatever order.             *)
THEOREM ListStaysDense == Spec => []ListIsDense
<1>1. ListInv => ListIsDense
  BY DEF ListInv
<1> QED BY <1>1, InitList, StepKeepsList, PTL DEF Spec

(* The guards `id != 0 || list[0] == asset` of Pool and `aTokenAddress ==  *)
(* 0` of ReserveLogic never disagree.                                      *)
THEOREM GuardsAgree == Spec => []ListedIsInitialized
<1> QED BY DenseListed, InitList, StepKeepsList, PTL DEF Spec

(* What is active is listed: skipping the inactive skips the unknown too,  *)
(* as mintToTreasury does.                                                 *)
THEOREM OnlyListedStayActive == Spec => []OnlyListedAreActive
<1>1. ListInv => OnlyListedAreActive
  BY DEF ListInv
<1> QED BY <1>1, InitList, StepKeepsList, PTL DEF Spec

(* No reserve ever changes its id or its place in the list.                *)
THEOREM IdsStay == Spec => IdsArePermanent
<1> DEFINE Kept == \A asset \in initialized : /\ asset \in initialized'
                                              /\ id'[asset] = id[asset]
                                              /\ reservesList'[id[asset]] = asset
<1>1. ASSUME ListInv, [Next]_vars
      PROVE  [Kept]_vars
  <2>1. CASE \E asset \in Addresses : InitReserve(asset)
    <3>1. PICK asset \in Addresses : InitReserve(asset)
      BY <2>1
    <3>2. /\ asset \notin initialized
          /\ reservesList' = [reservesList EXCEPT ![reservesCount] = asset]
          /\ id' = [id EXCEPT ![asset] = reservesCount]
          /\ initialized' = initialized \cup {asset}
      BY <3>1, <1>1, DenseAppends DEF InitReserve
    <3>3. ASSUME NEW a \in initialized
          PROVE  /\ a \in initialized'
                 /\ id'[a] = id[a]
                 /\ reservesList'[id[a]] = a
      <4>1. id[a] < reservesCount /\ reservesList[id[a]] = a /\ id[a] \in Slots
        BY <1>1 DEF ListInv, TypeOK, ListIsDense, Addresses
      <4> QED
        BY <3>2, <4>1, <1>1, ListingAssumption DEF ListInv, TypeOK, Slots, Addresses
    <3> QED BY <3>3
  <2>2. CASE \E asset \in Addresses, on \in BOOLEAN : SetReserveActive(asset, on)
    BY <2>2, <1>1 DEF SetReserveActive, ListInv, ListIsDense
  <2>3. CASE UNCHANGED vars
    BY <2>3
  <2> QED BY <2>1, <2>2, <2>3, <1>1 DEF Next
<1> QED BY <1>1, InitList, StepKeepsList, PTL DEF Spec, IdsArePermanent

-----------------------------------------------------------------------------
(* The packed word.                                                        *)

(* How many bits a parameter has.                                          *)
BitsOf(f) == IF f \in Numbers THEN MaxValidBits[f] ELSE 1

(* The first bit after a parameter.                                        *)
End(f) == StartBitPosition[f] + BitsOf(f)

(* The parameters with a largest value.                                    *)
LEMMA NumbersAre ==
    Numbers = {"ltv", "liquidationThreshold", "liquidationBonus", "decimals",
               "reserveFactor", "borrowCap", "supplyCap", "liquidationProtocolFee",
               "eModeCategory", "unbackedMintCap", "debtCeiling"}
  BY DEF Numbers, MaxValidBits

(* The parameters without a largest value are the flags, one bit each.     *)
LEMMA FlagsAre ==
    Flags = {"active", "frozen", "borrowing", "stableBorrowing", "paused",
             "borrowableInIsolation", "siloedBorrowing", "flashLoanEnabled"}
  BY NumbersAre DEF Flags, Cleared

(* The table of masks, entry by entry.                                     *)
LEMMA MasksAre ==
    /\ Cleared.ltv = 0..15
    /\ Cleared.liquidationThreshold = 16..31
    /\ Cleared.liquidationBonus = 32..47
    /\ Cleared.decimals = 48..55
    /\ Cleared.active = {56}
    /\ Cleared.frozen = {57}
    /\ Cleared.borrowing = {58}
    /\ Cleared.stableBorrowing = {59}
    /\ Cleared.paused = {60}
    /\ Cleared.borrowableInIsolation = {61}
    /\ Cleared.siloedBorrowing = {62}
    /\ Cleared.flashLoanEnabled = {63}
    /\ Cleared.reserveFactor = 64..79
    /\ Cleared.borrowCap = 80..115
    /\ Cleared.supplyCap = 116..151
    /\ Cleared.liquidationProtocolFee = 152..167
    /\ Cleared.eModeCategory = 168..175
    /\ Cleared.unbackedMintCap = 176..211
    /\ Cleared.debtCeiling = 212..251
  BY DEF Cleared

(* The three tables agree: what a mask clears is the field that begins at  *)
(* the start position and is as long as the largest value.                 *)
LEMMA TablesAgree ==
    \A f \in Fields :
        /\ StartBitPosition[f] \in Nat /\ BitsOf(f) \in Nat \ {0} /\ End(f) <= 252
        /\ Cleared[f] = StartBitPosition[f] .. (End(f) - 1)
<1>1. ASSUME NEW f \in Numbers
      PROVE  /\ StartBitPosition[f] \in Nat /\ MaxValidBits[f] \in Nat \ {0}
             /\ StartBitPosition[f] + MaxValidBits[f] <= 252
  <2>1. StartBitPosition[f] \in Nat /\ MaxValidBits[f] \in Nat \ {0}
    BY NumbersAre DEF StartBitPosition, MaxValidBits
  <2>2. StartBitPosition[f] + MaxValidBits[f] <= 252
    BY NumbersAre DEF StartBitPosition, MaxValidBits
  <2>3. QED
    BY <2>1, <2>2
<1>2. \A f \in Numbers :
          Cleared[f] = StartBitPosition[f] .. (StartBitPosition[f] + MaxValidBits[f] - 1)
  <2>1. \A b \in Int, f \in Numbers :
            b \in Cleared[f] <=> /\ StartBitPosition[f] <= b
                                /\ b <= StartBitPosition[f] + MaxValidBits[f] - 1
    BY NumbersAre, MasksAre DEF StartBitPosition, MaxValidBits
  <2>2. \A f \in Numbers : Cleared[f] \subseteq Int
    BY NumbersAre, MasksAre
  <2>3. ASSUME NEW f \in Numbers
        PROVE  Cleared[f] = StartBitPosition[f] .. (StartBitPosition[f] + MaxValidBits[f] - 1)
    <3>1. \A b : b \in Cleared[f] <=>
              b \in StartBitPosition[f] .. (StartBitPosition[f] + MaxValidBits[f] - 1)
      BY <1>1, <2>1, <2>2
    <3>2. QED
      BY <3>1
  <2>4. QED
    BY <2>3
<1>3. ASSUME NEW f \in Flags
      PROVE  StartBitPosition[f] \in 56..63 /\ Cleared[f] = {StartBitPosition[f]}
  BY FlagsAre, MasksAre DEF StartBitPosition
<1>4. ASSUME NEW f \in Flags
      PROVE  StartBitPosition[f] .. StartBitPosition[f] = {StartBitPosition[f]}
  BY <1>3
<1>5. \A f \in Flags : f \notin Numbers
  BY DEF Flags
<1>6. ASSUME NEW f \in Numbers
      PROVE  BitsOf(f) = MaxValidBits[f] /\ End(f) = StartBitPosition[f] + MaxValidBits[f]
  BY DEF BitsOf, End
<1>7. ASSUME NEW f \in Flags
      PROVE  BitsOf(f) = 1 /\ End(f) = StartBitPosition[f] + 1
  BY <1>5 DEF BitsOf, End
<1>8. ASSUME NEW f \in Flags
      PROVE  /\ StartBitPosition[f] \in Nat /\ BitsOf(f) \in Nat \ {0} /\ End(f) <= 252
             /\ Cleared[f] = StartBitPosition[f] .. (End(f) - 1)
  <2>1. StartBitPosition[f] \in Nat /\ StartBitPosition[f] + 1 <= 252
    BY <1>3
  <2>2. End(f) - 1 = StartBitPosition[f]
    BY <1>7, <2>1
  <2>3. Cleared[f] = StartBitPosition[f] .. (End(f) - 1)
    BY <1>3, <1>4, <2>2, Zenon
  <2>4. QED
    BY <1>7, <2>1, <2>3
<1>9. QED
  BY <1>1, <1>2, <1>6, <1>8 DEF Fields

(* No two parameters share a bit.                                          *)
LEMMA FieldsAreApart ==
    \A f \in Fields, g \in Fields : f # g => Cleared[f] \cap Cleared[g] = {}
<1>1. ASSUME NEW f \in Numbers, NEW g \in Numbers, f # g
      PROVE  End(f) <= StartBitPosition[g] \/ End(g) <= StartBitPosition[f]
  <2>1. StartBitPosition[f] # StartBitPosition[g]
    BY <1>1, NumbersAre DEF StartBitPosition
  <2>2. ASSUME StartBitPosition[f] < StartBitPosition[g]
        PROVE  StartBitPosition[f] + MaxValidBits[f] <= StartBitPosition[g]
    BY <1>1, <2>2, NumbersAre DEF StartBitPosition, MaxValidBits
  <2>3. ASSUME StartBitPosition[g] < StartBitPosition[f]
        PROVE  StartBitPosition[g] + MaxValidBits[g] <= StartBitPosition[f]
    BY <1>1, <2>3, NumbersAre DEF StartBitPosition, MaxValidBits
  <2>4. QED
    BY <1>1, <2>1, <2>2, <2>3, TablesAgree DEF End, BitsOf, Fields
<1>2. ASSUME NEW f \in Numbers, NEW g \in Flags
      PROVE  End(f) <= StartBitPosition[g] \/ StartBitPosition[g] < StartBitPosition[f]
  <2>1. StartBitPosition[f] + MaxValidBits[f] <= StartBitPosition[g]
          \/ StartBitPosition[g] < StartBitPosition[f]
    BY NumbersAre, FlagsAre DEF StartBitPosition, MaxValidBits
  <2>2. QED
    BY <2>1 DEF End, BitsOf
<1>3. ASSUME NEW f \in Flags, NEW g \in Flags, f # g
      PROVE  StartBitPosition[f] # StartBitPosition[g]
  BY <1>3, FlagsAre DEF StartBitPosition
<1>4. \A f \in Flags : f \notin Numbers /\ End(f) = StartBitPosition[f] + 1
  BY DEF Flags, End, BitsOf
<1>5. ASSUME NEW f \in Fields, NEW g \in Fields, f # g
      PROVE  End(f) <= StartBitPosition[g] \/ End(g) <= StartBitPosition[f]
  BY <1>1, <1>2, <1>3, <1>4, <1>5, TablesAgree DEF Fields
<1>6. ASSUME NEW f \in Fields, NEW g \in Fields, f # g
      PROVE  Cleared[f] \cap Cleared[g] = {}
  <2>1. End(f) \in Int /\ End(g) \in Int
    BY TablesAgree DEF End
  <2>2. QED
    BY <1>5, <1>6, <2>1, TablesAgree
<1>7. QED
  BY <1>6

(* A value that fits is moved to its field, whole.                         *)
LEMMA ShiftedFits ==
    ASSUME NEW f \in Fields, NEW value \in SUBSET (0..(BitsOf(f) - 1))
    PROVE  /\ ShiftLeft(value, StartBitPosition[f]) \subseteq Cleared[f]
           /\ ShiftRight(ShiftLeft(value, StartBitPosition[f]), StartBitPosition[f]) = value
<1> DEFINE k == StartBitPosition[f]
           w == BitsOf(f)
<1>1. k \in Nat /\ w \in Nat \ {0} /\ k + w <= 252 /\ Cleared[f] = k .. (k + w - 1)
  BY TablesAgree DEF End
<1> HIDE DEF k, w
<1>2. value \in SUBSET (0..(w - 1))
  BY DEF w
<1>3. ASSUME NEW b \in value
      PROVE  b \in Nat /\ b + k \in 0..255 /\ b + k >= k /\ b + k <= k + w - 1
  <2>1. b \in 0..(w - 1)
    BY <1>2
  <2>2. QED
    BY <1>1, <2>1
<1>4. ShiftLeft(value, k) = {b + k : b \in value}
  BY <1>3 DEF ShiftLeft, Word
<1>5. {b + k : b \in value} \subseteq Cleared[f]
  BY <1>1, <1>3
<1>6. ShiftRight({b + k : b \in value}, k) = value
  <2>1. \A b \in value : (b + k) - k = b
    BY <1>1, <1>3
  <2>2. \A b \in value : b \in ShiftRight({c + k : c \in value}, k)
    BY <1>3, <2>1 DEF ShiftRight
  <2>3. \A b \in ShiftRight({c + k : c \in value}, k) : b \in value
    BY <1>3, <2>1 DEF ShiftRight
  <2>4. QED
    BY <2>2, <2>3
<1>7. QED
  BY <1>4, <1>5, <1>6 DEF k

(* What a setter leaves of each parameter.                                 *)
LEMMA SetterReplaces ==
    ASSUME NEW f \in Fields, NEW value \in SUBSET (0..(BitsOf(f) - 1))
    PROVE  /\ Replaced(f, value) \cap Cleared[f] = ShiftLeft(value, StartBitPosition[f])
           /\ NumberIn(Replaced(f, value), f) = value
           /\ \A g \in Fields : g # f =>
                 Replaced(f, value) \cap Cleared[g] = data \cap Cleared[g]
<1>1. ShiftLeft(value, StartBitPosition[f]) \subseteq Cleared[f]
  BY ShiftedFits
<1>2. Replaced(f, value) \cap Cleared[f] = ShiftLeft(value, StartBitPosition[f])
  BY <1>1 DEF Replaced
<1>3. \A g \in Fields : g # f =>
          Replaced(f, value) \cap Cleared[g] = data \cap Cleared[g]
  BY <1>1, FieldsAreApart DEF Replaced
<1>4. QED
  BY <1>2, <1>3, ShiftedFits DEF NumberIn

(* The values of a flag, as sets of positions.                             *)
LEMMA FlagIsRead ==
    ASSUME NEW f \in Flags
    PROVE  /\ FlagIn(Replaced(f, {0}), f) /\ ~FlagIn(Replaced(f, {}), f)
<1>1. f \in Fields /\ BitsOf(f) = 1
  BY DEF Fields, Flags, BitsOf
<1>2. {0} \in SUBSET (0..(BitsOf(f) - 1)) /\ {} \in SUBSET (0..(BitsOf(f) - 1))
  BY <1>1
<1>3. /\ Replaced(f, {0}) \cap Cleared[f] = ShiftLeft({0}, StartBitPosition[f])
      /\ Replaced(f, {}) \cap Cleared[f] = ShiftLeft({}, StartBitPosition[f])
  BY <1>1, <1>2, SetterReplaces
<1>4. StartBitPosition[f] \in ShiftLeft({0}, StartBitPosition[f])
  <2>1. StartBitPosition[f] \in 0..255 /\ 0 + StartBitPosition[f] = StartBitPosition[f]
    <3>1. StartBitPosition[f] \in Nat /\ StartBitPosition[f] + 1 <= 252
      BY <1>1, TablesAgree DEF End
    <3>2. QED
      BY <3>1
  <2>2. QED
    BY <2>1 DEF ShiftLeft, Word
<1>5. ShiftLeft({}, StartBitPosition[f]) = {}
  BY DEF ShiftLeft
<1>6. QED
  BY <1>3, <1>4, <1>5 DEF FlagIn

(* Every parameter of every word is read back as it was written.           *)
THEOREM WordsReadBack == ConfigSpec => []ReadsBack
<1>1. ReadsBack
  <2>1. ASSUME NEW f \in Numbers, NEW value \in Tried(f), ValidNumber(f, value)
        PROVE  NumberIn(Replaced(f, value), f) = value
    <3>1. f \in Fields /\ value \in SUBSET (0..(BitsOf(f) - 1))
      BY <2>1 DEF Fields, BitsOf, ValidNumber
    <3>2. QED
      BY <3>1, SetterReplaces
  <2>2. QED
    BY <2>1, FlagIsRead DEF ReadsBack
<1>2. QED
  BY <1>1, PTL

(* A setter of one parameter leaves the meaning of the others.             *)
LEMMA SetterImplements ==
    ASSUME NEW f \in Fields, NEW value \in SUBSET (0..(BitsOf(f) - 1)),
           data' = Replaced(f, value)
    PROVE  /\ Implemented' = [Implemented EXCEPT ![f] = Implemented'[f]]
           /\ Implemented'[f] \subseteq 0..(BitsOf(f) - 1)
<1>1. \A g \in Fields : g # f => data' \cap Cleared[g] = data \cap Cleared[g]
  BY SetterReplaces
<1>2. \A g \in Fields : g # f => Implemented'[g] = Implemented[g]
  BY <1>1 DEF Implemented, NumberIn, FlagIn
<1>3. Implemented \in [Fields -> {Implemented[g] : g \in Fields}]
      /\ DOMAIN Implemented = Fields /\ DOMAIN Implemented' = Fields
  BY DEF Implemented
<1>4. Implemented' = [Implemented EXCEPT ![f] = Implemented'[f]]
  <2>1. Implemented = [g \in Fields |-> Implemented[g]]
        /\ Implemented' = [g \in Fields |-> Implemented'[g]]
    BY DEF Implemented
  <2> DEFINE x == Implemented
             y == Implemented'
  <2> HIDE DEF x, y
  <2>2. x = [g \in Fields |-> x[g]] /\ y = [g \in Fields |-> y[g]]
    BY <2>1 DEF x, y
  <2>3. \A g \in Fields : g # f => y[g] = x[g]
    BY <1>2 DEF x, y
  <2>4. y = [x EXCEPT ![f] = y[f]]
    BY <2>2, <2>3
  <2>5. QED
    BY <2>4 DEF x, y
<1>5. CASE f \in Numbers
  <2>1. Implemented'[f] = NumberIn(data', f)
    BY <1>5 DEF Implemented
  <2>2. NumberIn(data', f) = value
    BY SetterReplaces DEF NumberIn
  <2>3. QED
    BY <1>4, <2>1, <2>2
<1>6. CASE f \notin Numbers
  <2>1. Implemented'[f] \in {{0}, {}}
    BY <1>6 DEF Implemented
  <2>2. BitsOf(f) = 1
    BY <1>6 DEF BitsOf
  <2>3. QED
    BY <1>4, <2>1, <2>2
<1>7. QED
  BY <1>5, <1>6

(* The packed word implements independent parameters.                      *)
THEOREM WordImplements == ConfigSpec => ImplementsFields
<1> DEFINE Widths == [f \in Fields |-> IF f \in Numbers THEN MaxValidBits[f] ELSE 1]
<1>0. DOMAIN Widths = Fields /\ \A f \in Fields : Widths[f] = BitsOf(f)
  BY DEF BitsOf
<1>1. ConfigInit => Parameters!Init
  <2>1. ASSUME ConfigInit PROVE \A f \in Fields : Implemented[f] = {}
    <3>1. \A f \in Fields : NumberIn(data, f) = {} /\ ~FlagIn(data, f)
      BY <2>1 DEF ConfigInit, NumberIn, FlagIn, ShiftRight
    <3>2. QED
      BY <3>1 DEF Implemented
  <2>2. ConfigInit => Implemented = [f \in Fields |-> {}]
    BY <2>1 DEF Implemented
  <2>3. QED
    BY <1>0, <2>2 DEF Parameters!Init, Parameters!Fields
<1>2. ConfigNext => Parameters!Next
  <2> SUFFICES ASSUME ConfigNext PROVE Parameters!Next
    OBVIOUS
  <2>1. \E f \in Fields : \E value \in SUBSET (0..(BitsOf(f) - 1)) :
            data' = Replaced(f, value)
    <3>1. ASSUME NEW f \in Numbers, NEW value \in Tried(f), SetNumber(f, value)
          PROVE  f \in Fields /\ value \in SUBSET (0..(BitsOf(f) - 1))
                 /\ data' = Replaced(f, value)
      BY <3>1 DEF SetNumber, ValidNumber, BitsOf, Fields
    <3>2. ASSUME NEW f \in Flags, NEW on \in BOOLEAN, SetFlag(f, on)
          PROVE  f \in Fields
                 /\ \E value \in SUBSET (0..(BitsOf(f) - 1)) : data' = Replaced(f, value)
      <4>1. f \in Fields /\ BitsOf(f) = 1
        BY DEF Fields, Flags, BitsOf
      <4>2. {0} \in SUBSET (0..(BitsOf(f) - 1)) /\ {} \in SUBSET (0..(BitsOf(f) - 1))
        BY <4>1
      <4>3. QED
        BY <3>2, <4>1, <4>2 DEF SetFlag
    <3>3. QED
      BY <3>1, <3>2 DEF ConfigNext
  <2>2. PICK f \in Fields : \E value \in SUBSET (0..(BitsOf(f) - 1)) :
            data' = Replaced(f, value)
    BY <2>1
  <2>3. /\ Implemented' = [Implemented EXCEPT ![f] = Implemented'[f]]
        /\ Implemented'[f] \subseteq 0..(BitsOf(f) - 1)
    BY <2>2, SetterImplements
  <2>4. Parameters!Set(f, Implemented'[f])
    BY <1>0, <2>3 DEF Parameters!Set, Parameters!Valid
  <2>5. QED
    BY <1>0, <2>4 DEF Parameters!Next, Parameters!Fields
<1>3. UNCHANGED data => UNCHANGED Implemented
  BY DEF Implemented, NumberIn, FlagIn, ShiftRight
<1>4. QED
  BY <1>1, <1>2, <1>3, PTL DEF ConfigSpec, ImplementsFields, Parameters!Spec

-----------------------------------------------------------------------------
(* The live-assumption script.                                             *)

(* A set of numbers that holds zero, and with a number the next, holds all. *)
LEMMA NumberInduction ==
    ASSUME NEW T \in SUBSET Nat, 0 \in T, \A n \in T : n + 1 \in T
    PROVE  T = Nat
<1>1. SUFFICES ASSUME Nat \ T # {} PROVE FALSE
  OBVIOUS
<1>2. PICK n \in Nat \ T : \A m \in Nat \ T : n <= m
  <2>1. Nat \ T \in SUBSET Nat
    OBVIOUS
  <2>2. PICK n \in Nat \ T : \A m \in Nat \ T : <<m, n>> \notin OpToRel(<, Nat)
    BY <1>1, <2>1, NatLessThanWellFounded, WFMin
  <2>3. \A m \in Nat \ T : ~(m < n)
    BY <2>2 DEF OpToRel
  <2>4. QED
    BY <2>3
<1>3. n # 0 /\ n - 1 \in Nat /\ (n - 1) + 1 = n
  BY <1>2
<1>4. n - 1 \in T
  BY <1>2, <1>3
<1>5. QED
  BY <1>2, <1>3, <1>4

(* The function a replay is computed with, for the first n logs.           *)
Afters(held, logs, n, g) ==
    g = [i \in 0..n |-> IF i = 0 THEN held ELSE Applied(g[i - 1], logs[i])]

AftersOf(held, logs, n) == CHOOSE g : Afters(held, logs, n, g)

(* The replay is what that function ends with.                             *)
LEMMA ReplayIsLast ==
    ASSUME NEW held, NEW logs
    PROVE  Replay(held, logs) = AftersOf(held, logs, Len(logs))[Len(logs)]
  BY DEF Replay, AftersOf, Afters

(* Such a function exists: it grows by one log at a time.                  *)
LEMMA AftersExist ==
    ASSUME NEW held, NEW logs, NEW n \in Nat
    PROVE  \E g : Afters(held, logs, n, g)
<1> DEFINE T == {m \in Nat : \E g : Afters(held, logs, m, g)}
<1>1. 0 \in T
  <2>1. Afters(held, logs, 0, [i \in 0..0 |-> held])
    BY DEF Afters
  <2>2. QED
    BY <2>1
<1>2. ASSUME NEW m \in T PROVE m + 1 \in T
  <2>1. PICK g : Afters(held, logs, m, g)
    OBVIOUS
  <2> DEFINE h == [i \in 0..(m + 1) |->
                      IF i = 0 THEN held ELSE Applied(g[i - 1], logs[i])]
  <2>2. \A i \in 0..m : h[i] = g[i]
    BY <2>1 DEF Afters
  <2>3. \A i \in 0..(m + 1) : i # 0 => i - 1 \in 0..m
    OBVIOUS
  <2>4. h = [i \in 0..(m + 1) |-> IF i = 0 THEN held ELSE Applied(h[i - 1], logs[i])]
    BY <2>2, <2>3
  <2>5. Afters(held, logs, m + 1, h)
    BY <2>4 DEF Afters
  <2>6. m + 1 \in Nat
    OBVIOUS
  <2>7. QED
    BY <2>5, <2>6
<1>3. T = Nat
  <2>1. T \in SUBSET Nat
    OBVIOUS
  <2> HIDE DEF T
  <2>2. QED
    BY <1>1, <1>2, <2>1, NumberInduction
<1>4. QED
  BY <1>3

(* How a replay proceeds.                                                  *)
LEMMA AftersUnfold ==
    ASSUME NEW held, NEW logs, NEW n \in Nat
    PROVE  /\ AftersOf(held, logs, n)[0] = held
           /\ \A i \in 1..n :
                 AftersOf(held, logs, n)[i]
                   = Applied(AftersOf(held, logs, n)[i - 1], logs[i])
<1> DEFINE g == AftersOf(held, logs, n)
<1>1. Afters(held, logs, n, g)
  BY AftersExist DEF AftersOf
<1> HIDE DEF g
<1>2. g = [i \in 0..n |-> IF i = 0 THEN held ELSE Applied(g[i - 1], logs[i])]
  BY <1>1 DEF Afters
<1>3. g[0] = held /\ \A i \in 1..n : g[i] = Applied(g[i - 1], logs[i])
  BY <1>2
<1>4. QED
  BY <1>3 DEF g

(* Replaying two sequences is replaying the one after the other.           *)
LEMMA ReplayConcat ==
    ASSUME NEW held, NEW S, NEW a \in Seq(S), NEW b \in Seq(S)
    PROVE  Replay(held, a \o b) = Replay(Replay(held, a), b)
<1> DEFINE c == a \o b
           x == AftersOf(held, c, Len(c))
           y == AftersOf(held, a, Len(a))
           z == AftersOf(Replay(held, a), b, Len(b))
           P == {i \in Nat : i <= Len(a) => x[i] = y[i]}
           Q == {j \in Nat : j <= Len(b) => x[Len(a) + j] = z[j]}
<1>1. /\ Len(a) \in Nat /\ Len(b) \in Nat /\ Len(c) = Len(a) + Len(b)
      /\ \A i \in 1..Len(a) : c[i] = a[i]
      /\ \A j \in 1..Len(b) : c[Len(a) + j] = b[j]
  OBVIOUS
<1> HIDE DEF c
<1>2. /\ x[0] = held
      /\ \A i \in 1..(Len(a) + Len(b)) : x[i] = Applied(x[i - 1], c[i])
  <2>1. Len(c) \in Nat
    BY <1>1
  <2>2. x[0] = held /\ \A i \in 1..Len(c) : x[i] = Applied(x[i - 1], c[i])
    BY <2>1, AftersUnfold
  <2> HIDE DEF x
  <2>3. QED
    BY <1>1, <2>2
<1>3. /\ y[0] = held /\ y[Len(a)] = Replay(held, a)
      /\ \A i \in 1..Len(a) : y[i] = Applied(y[i - 1], a[i])
  BY <1>1, AftersUnfold, ReplayIsLast
<1>4. /\ z[0] = Replay(held, a)
      /\ \A j \in 1..Len(b) : z[j] = Applied(z[j - 1], b[j])
  BY <1>1, AftersUnfold
<1>5. /\ Replay(held, c) = x[Len(a) + Len(b)]
      /\ Replay(Replay(held, a), b) = z[Len(b)]
  BY <1>1, ReplayIsLast
<1> HIDE DEF x, y, z
<1>6. P = Nat
  <2>1. P \in SUBSET Nat /\ 0 \in P
    BY <1>2, <1>3
  <2>2. ASSUME NEW i \in P PROVE i + 1 \in P
    <3>1. ASSUME i + 1 <= Len(a) PROVE x[i + 1] = y[i + 1]
      <4>1. i + 1 \in 1..Len(a) /\ i + 1 \in 1..(Len(a) + Len(b)) /\ (i + 1) - 1 = i
            /\ i <= Len(a)
        BY <1>1, <3>1
      <4>2. x[i] = y[i]
        BY <4>1
      <4>3. QED
        BY <1>1, <1>2, <1>3, <4>1, <4>2
    <3>2. QED
      BY <3>1
  <2> HIDE DEF P
  <2>3. QED
    BY <2>1, <2>2, NumberInduction
<1>7. x[Len(a)] = y[Len(a)]
  BY <1>1, <1>6
<1>8. Q = Nat
  <2>1. Q \in SUBSET Nat /\ 0 \in Q
    BY <1>1, <1>3, <1>4, <1>7
  <2>2. ASSUME NEW j \in Q PROVE j + 1 \in Q
    <3>1. ASSUME j + 1 <= Len(b) PROVE x[Len(a) + (j + 1)] = z[j + 1]
      <4>1. /\ j + 1 \in 1..Len(b) /\ Len(a) + (j + 1) \in 1..(Len(a) + Len(b))
            /\ (Len(a) + (j + 1)) - 1 = Len(a) + j /\ (j + 1) - 1 = j /\ j <= Len(b)
        BY <1>1, <3>1
      <4>2. x[Len(a) + j] = z[j]
        BY <4>1
      <4>3. QED
        BY <1>1, <1>2, <1>4, <4>1, <4>2
    <3>2. QED
      BY <3>1
  <2> HIDE DEF Q
  <2>3. QED
    BY <2>1, <2>2, NumberInduction
<1>9. QED
  BY <1>1, <1>5, <1>8 DEF c

(* Replaying nothing, and replaying one log more.                          *)
LEMMA ReplayAppend ==
    ASSUME NEW held, NEW S, NEW a \in Seq(S), NEW x \in S
    PROVE  /\ Replay(held, << >>) = held
           /\ Replay(held, Append(a, x)) = Applied(Replay(held, a), x)
<1>1. Replay(held, << >>) = held
  <2>1. AftersOf(held, << >>, 0)[0] = held
    BY AftersUnfold
  <2>2. QED
    BY <2>1, ReplayIsLast
<1>2. Append(a, x) = a \o <<x>> /\ <<x>> \in Seq(S)
  OBVIOUS
<1>3. \A h : Replay(h, <<x>>) = Applied(h, x)
  <2>1. ASSUME NEW h PROVE Replay(h, <<x>>) = Applied(h, x)
    <3>1. /\ AftersOf(h, <<x>>, 1)[0] = h
          /\ AftersOf(h, <<x>>, 1)[1] = Applied(AftersOf(h, <<x>>, 1)[1 - 1], <<x>>[1])
      BY AftersUnfold
    <3>2. Len(<<x>>) = 1 /\ <<x>>[1] = x /\ 1 - 1 = 0
      OBVIOUS
    <3>3. QED
      BY <3>1, <3>2, ReplayIsLast
  <2>2. QED
    BY <2>1
<1>4. Replay(held, a \o <<x>>) = Replay(Replay(held, a), <<x>>)
  <2> DEFINE u == <<x>>
  <2>1. u \in Seq(S)
    BY <1>2
  <2> HIDE DEF u
  <2>2. Replay(held, a \o u) = Replay(Replay(held, a), u)
    BY <2>1, ReplayConcat
  <2>3. QED
    BY <2>2 DEF u
<1>5. QED
  BY <1>1, <1>2, <1>3, <1>4

-----------------------------------------------------------------------------
Logs == [topic : {"RoleGranted", "RoleRevoked"}, account : Accounts]

Blocks == [sentinel : BOOLEAN, bridges : SUBSET Accounts, logs : Seq(Logs),
           reserves : Seq(ReserveStates)]

(* The bridges before block n.                                             *)
BridgesBefore(n) == IF n = 0 THEN {} ELSE chain[n].bridges

(* Every block holds the bridges that its logs leave of those before.      *)
ChainOK ==
    /\ chain \in Seq(Blocks) /\ chain # << >>
    /\ \A n \in 1..Len(chain) :
          chain[n].bridges = Replay(BridgesBefore(n - 1), chain[n].logs)

FirstBlock == getEnvNumber("from", 0)

LastScanned == IF start <= targetBlock THEN start ELSE targetBlock + 1

(* How far the script has come.                                            *)
Judged   == pc = "done" /\ ~thrown
Scanning == pc = "scan" \/ Judged
Reading  == pc = "reserves" \/ Scanning
Begun    == pc = "provider" \/ Reading

EnvironmentOK ==
    /\ settings \in Settings
    /\ thrown \in BOOLEAN
    /\ thrown => pc = "done" /\ exitCode = 1
    /\ Begun => targetBlock \in Nat /\ FirstBlock \in 0..targetBlock

NothingYet ==
    /\ pc \in {"start", "provider"} => checks = << >>
    /\ pc \in {"start", "provider", "reserves"} => grants = {} /\ members = {}

(* The checks made so far are those of the first reserves of the target.   *)
ReadingOK ==
    Reading =>
        /\ targetBlock <= BlockNumber
        /\ sentinel = At(targetBlock).sentinel
        /\ checks \in Seq({ReserveCheck(r) : r \in ReserveStates})
        /\ Len(checks) <= Len(At(targetBlock).reserves)
        /\ \A i \in 1..Len(checks) :
              checks[i] = ReserveCheck(At(targetBlock).reserves[i])

(* The windows scanned so far add up to one window without a gap.          *)
ScanningOK ==
    Scanning =>
        /\ getEnvNumber("step", DEFAULT_LOG_STEP) \in Nat
        /\ start \in Nat /\ FirstBlock <= start
        /\ Len(checks) = Len(At(targetBlock).reserves)
        /\ grants = GrantedIn({n \in FirstBlock..targetBlock : n < start})
        /\ members \subseteq grants
        /\ GrantedIn({n \in 0..targetBlock : n < FirstBlock}) = {} =>
              members = BridgesBefore(LastScanned)

JudgedOK ==
    Judged => start > targetBlock /\ exitCode = IF Failed THEN 1 ELSE 0

LiveInv == ChainOK /\ EnvironmentOK /\ NothingYet /\ ReadingOK /\ ScanningOK /\ JudgedOK

-----------------------------------------------------------------------------
(* A replay adds none but accounts that are granted the role.              *)
LEMMA ReplayWithin ==
    ASSUME NEW held, NEW logs \in Seq(Logs)
    PROVE  Replay(held, logs) \subseteq held \cup GrantsOf(logs)
<1> DEFINE x == AftersOf(held, logs, Len(logs))
           P == {i \in Nat : i <= Len(logs) => x[i] \subseteq held \cup GrantsOf(logs)}
<1>1. Len(logs) \in Nat /\ x[0] = held
      /\ \A i \in 1..Len(logs) : x[i] = Applied(x[i - 1], logs[i])
  <2>1. Len(logs) \in Nat
    OBVIOUS
  <2>2. QED
    BY <2>1, AftersUnfold
<1>2. Replay(held, logs) = x[Len(logs)]
  BY ReplayIsLast
<1>3. \A i \in 1..Len(logs) : isGrant(logs[i]) => logs[i].account \in GrantsOf(logs)
  <2>1. ASSUME NEW i \in 1..Len(logs), isGrant(logs[i])
        PROVE  logs[i].account \in GrantsOf(logs)
    <3>1. logs[i] \in ToSet(logs)
      BY DEF ToSet
    <3>2. QED
      BY <2>1, <3>1 DEF GrantsOf
  <2>2. QED
    BY <2>1
<1> HIDE DEF x
<1>4. P \in SUBSET Nat /\ 0 \in P
  BY <1>1
<1>5. ASSUME NEW i \in P PROVE i + 1 \in P
  <2>1. ASSUME i + 1 <= Len(logs) PROVE x[i + 1] \subseteq held \cup GrantsOf(logs)
    <3>1. i + 1 \in 1..Len(logs) /\ (i + 1) - 1 = i /\ i <= Len(logs)
      BY <1>1, <2>1
    <3>2. x[i] \subseteq held \cup GrantsOf(logs)
      BY <3>1
    <3>3. x[i + 1] = Applied(x[i], logs[i + 1])
      BY <1>1, <3>1
    <3>4. isGrant(logs[i + 1]) => logs[i + 1].account \in GrantsOf(logs)
      BY <1>3, <3>1
    <3>5. QED
      BY <3>2, <3>3, <3>4 DEF Applied
  <2>2. QED
    BY <2>1
<1> HIDE DEF P
<1>6. P = Nat
  BY <1>4, <1>5, NumberInduction
<1>7. QED
  BY <1>1, <1>2, <1>6 DEF P

(* Who is granted the role in two sequences, and in a block.               *)
LEMMA GrantsAddUp ==
    ASSUME NEW a \in Seq(Logs), NEW b \in Seq(Logs)
    PROVE  GrantsOf(a \o b) = GrantsOf(a) \cup GrantsOf(b)
<1> DEFINE c == a \o b
<1>1. /\ Len(a) \in Nat /\ Len(b) \in Nat /\ Len(c) = Len(a) + Len(b) /\ c \in Seq(Logs)
      /\ \A i \in 1..Len(a) : c[i] = a[i]
      /\ \A j \in 1..Len(b) : c[Len(a) + j] = b[j]
      /\ DOMAIN a = 1..Len(a) /\ DOMAIN b = 1..Len(b) /\ DOMAIN c = 1..Len(c)
  OBVIOUS
<1> HIDE DEF c
<1>2. \A i \in 1..Len(a) : i \in 1..Len(c)
  BY <1>1
<1>3. \A j \in 1..Len(b) : Len(a) + j \in 1..Len(c)
  BY <1>1
<1>4. ASSUME NEW k \in 1..Len(c)
      PROVE  \/ k \in 1..Len(a)
             \/ k - Len(a) \in 1..Len(b) /\ Len(a) + (k - Len(a)) = k
  BY <1>1
<1>5. ToSet(c) = ToSet(a) \cup ToSet(b)
  <2>1. ASSUME NEW l \in ToSet(a) PROVE l \in ToSet(c)
    BY <1>1, <1>2 DEF ToSet
  <2>2. ASSUME NEW l \in ToSet(b) PROVE l \in ToSet(c)
    <3>1. PICK j \in 1..Len(b) : l = b[j]
      BY <1>1 DEF ToSet
    <3>2. l = c[Len(a) + j] /\ Len(a) + j \in DOMAIN c
      BY <1>1, <1>3, <3>1
    <3>3. QED
      BY <3>2 DEF ToSet
  <2>3. ASSUME NEW l \in ToSet(c) PROVE l \in ToSet(a) \cup ToSet(b)
    <3>1. PICK k \in 1..Len(c) : l = c[k]
      BY <1>1 DEF ToSet
    <3>2. CASE k \in 1..Len(a)
      BY <1>1, <3>1, <3>2 DEF ToSet
    <3>3. CASE k - Len(a) \in 1..Len(b) /\ Len(a) + (k - Len(a)) = k
      <4>1. l = b[k - Len(a)] /\ k - Len(a) \in DOMAIN b
        BY <1>1, <3>1, <3>3
      <4>2. QED
        BY <4>1 DEF ToSet
    <3>4. QED
      BY <1>4, <3>2, <3>3
  <2>4. QED
    BY <2>1, <2>2, <2>3
<1>6. QED
  BY <1>5 DEF GrantsOf, c

(* Those a block grants the role are those the specification names.        *)
LEMMA GrantsOfBlock ==
    ASSUME ChainOK, NEW n \in Nat, n <= BlockNumber
    PROVE  GrantsOf(chain[n + 1].logs) = GrantedIn({n})
<1>1. n + 1 \in 1..Len(chain)
  BY DEF BlockNumber, ChainOK
<1>2. chain[n + 1].logs \in Seq(Logs)
  <2>1. chain[n + 1] \in Blocks
    BY <1>1 DEF ChainOK
  <2>2. QED
    BY <2>1 DEF Blocks
<1> DEFINE logs == chain[n + 1].logs
<1> HIDE DEF logs
<1>3. \A l \in ToSet(logs) : l \in Logs
  BY <1>2 DEF ToSet, logs
<1>4. \A l \in Logs : isGrant(l) => l.account \in Accounts /\ l = Log("RoleGranted", l.account)
  BY DEF Logs, Log, isGrant
<1>5. \A a : Log("RoleGranted", a).account = a /\ isGrant(Log("RoleGranted", a))
  BY DEF Log, isGrant
<1>6. GrantsOf(logs) = {a \in Accounts : Log("RoleGranted", a) \in ToSet(logs)}
  <2>1. ASSUME NEW a \in GrantsOf(logs)
        PROVE  a \in Accounts /\ Log("RoleGranted", a) \in ToSet(logs)
    <3>1. PICK l \in ToSet(logs) : isGrant(l) /\ a = l.account
      BY DEF GrantsOf
    <3>2. QED
      BY <1>3, <1>4, <3>1
  <2>2. ASSUME NEW a \in Accounts, Log("RoleGranted", a) \in ToSet(logs)
        PROVE  a \in GrantsOf(logs)
    BY <1>5, <2>2 DEF GrantsOf
  <2>3. QED
    BY <2>1, <2>2
<1>7. GrantedIn({n}) = {a \in Accounts : Log("RoleGranted", a) \in ToSet(logs)}
  BY DEF GrantedIn, logs
<1>8. QED
  BY <1>6, <1>7 DEF logs

(* Grants of two sets of blocks add up.                                    *)
LEMMA GrantedInUnion ==
    ASSUME NEW S, NEW T
    PROVE  GrantedIn(S \cup T) = GrantedIn(S) \cup GrantedIn(T) /\ GrantedIn({}) = {}
  BY DEF GrantedIn

-----------------------------------------------------------------------------
Joined(a, b) == a \o b

(* The function a sequence of sequences is flattened with.                 *)
Flattens(seqs, n, g) ==
    g = [i \in 1..n |-> IF i = 1 THEN seqs[i] ELSE Joined(g[i - 1], seqs[i])]

FlatOf(seqs, n) == CHOOSE g : Flattens(seqs, n, g)

(* The flat sequence is what that function ends with.                      *)
LEMMA FlattenIsLast ==
    ASSUME NEW seqs, Len(seqs) # 0
    PROVE  FlattenSeq(seqs) = FlatOf(seqs, Len(seqs))[Len(seqs)]
  BY DEF FlattenSeq, FlatOf, Flattens, Joined

(* It exists, and appends one sequence after the other.                    *)
LEMMA FlatUnfolds ==
    ASSUME NEW seqs, NEW n \in Nat
    PROVE  /\ n >= 1 => FlatOf(seqs, n)[1] = seqs[1]
           /\ \A i \in 2..n :
                 FlatOf(seqs, n)[i] = Joined(FlatOf(seqs, n)[i - 1], seqs[i])
<1> DEFINE T == {m \in Nat : \E g : Flattens(seqs, m, g)}
<1>1. 0 \in T
  <2>1. Flattens(seqs, 0, [i \in 1..0 |-> seqs])
    BY DEF Flattens
  <2>2. QED
    BY <2>1
<1>2. ASSUME NEW m \in T PROVE m + 1 \in T
  <2>1. PICK g : Flattens(seqs, m, g)
    OBVIOUS
  <2> DEFINE h == [i \in 1..(m + 1) |-> IF i = 1 THEN seqs[i] ELSE Joined(g[i - 1], seqs[i])]
  <2>2. \A i \in 1..m : h[i] = g[i]
    BY <2>1 DEF Flattens
  <2>3. \A i \in 1..(m + 1) : i # 1 => i - 1 \in 1..m
    OBVIOUS
  <2>4. h = [i \in 1..(m + 1) |-> IF i = 1 THEN seqs[i] ELSE Joined(h[i - 1], seqs[i])]
    BY <2>2, <2>3
  <2>5. Flattens(seqs, m + 1, h)
    BY <2>4 DEF Flattens
  <2>6. m + 1 \in Nat
    OBVIOUS
  <2>7. QED
    BY <2>5, <2>6
<1>3. T = Nat
  <2>1. T \in SUBSET Nat
    OBVIOUS
  <2> HIDE DEF T
  <2>2. QED
    BY <1>1, <1>2, <2>1, NumberInduction
<1> DEFINE f == FlatOf(seqs, n)
<1>4. Flattens(seqs, n, f)
  BY <1>3 DEF FlatOf
<1> HIDE DEF f
<1>5. f = [i \in 1..n |-> IF i = 1 THEN seqs[i] ELSE Joined(f[i - 1], seqs[i])]
  BY <1>4 DEF Flattens
<1>6. n >= 1 => f[1] = seqs[1]
  BY <1>5
<1>7. \A i \in 2..n : f[i] = Joined(f[i - 1], seqs[i])
  BY <1>5
<1>8. QED
  BY <1>6, <1>7 DEF f

(* The logs of a window lead from the bridges before it to those after it. *)
LEMMA WindowIsRead ==
    ASSUME ChainOK, NEW from \in Nat, NEW to \in Nat, from <= to, to <= BlockNumber
    PROVE  /\ LogsIn(from, to) \in Seq(Logs)
           /\ Replay(BridgesBefore(from), LogsIn(from, to)) = BridgesBefore(to + 1)
           /\ GrantsOf(LogsIn(from, to)) = GrantedIn(from..to)
<1> DEFINE m == to + 1 - from
           seqs == [i \in 1 .. (to + 1 - from) |-> chain[from + i].logs]
           f == FlatOf(seqs, m)
           Read(i) == /\ f[i] \in Seq(Logs)
                      /\ Replay(BridgesBefore(from), f[i]) = BridgesBefore(from + i)
                      /\ GrantsOf(f[i]) = GrantedIn(from..(from + i - 1))
           P == {i \in Nat : i + 1 <= m => Read(i + 1)}
<1>1. m \in Nat /\ m >= 1 /\ from + m = to + 1 /\ Len(chain) \in Nat
      /\ BlockNumber = Len(chain) - 1
  BY DEF ChainOK, BlockNumber
<1>2. Len(seqs) = m
  <2>1. seqs = [i \in 1..m |-> chain[from + i].logs]
    OBVIOUS
  <2>2. QED
    BY <1>1, <2>1
<1>3. LogsIn(from, to) = f[m]
  <2>1. Len(seqs) # 0
    BY <1>1, <1>2
  <2>2. FlattenSeq(seqs) = FlatOf(seqs, Len(seqs))[Len(seqs)]
    BY <2>1, FlattenIsLast
  <2>3. QED
    BY <1>2, <2>2, Zenon DEF LogsIn
<1>4. ASSUME NEW i \in 1..m
      PROVE  /\ seqs[i] \in Seq(Logs) /\ seqs[i] = chain[from + i].logs
             /\ BridgesBefore(from + i) = Replay(BridgesBefore(from + i - 1), seqs[i])
             /\ GrantsOf(seqs[i]) = GrantedIn({from + i - 1})
  <2>1. /\ from + i \in 1..Len(chain) /\ from + i # 0
        /\ from + i - 1 \in Nat /\ from + i - 1 <= BlockNumber
        /\ (from + i - 1) + 1 = from + i
    BY <1>1
  <2>2. seqs[i] = chain[from + i].logs
    BY <1>1
  <2>3. chain[from + i] \in Blocks
        /\ chain[from + i].bridges = Replay(BridgesBefore(from + i - 1), chain[from + i].logs)
    BY <2>1 DEF ChainOK
  <2>4. BridgesBefore(from + i) = chain[from + i].bridges
    BY <2>1 DEF BridgesBefore
  <2>5. chain[from + i].logs \in Seq(Logs)
    BY <2>3 DEF Blocks
  <2>6. GrantsOf(chain[from + i].logs) = GrantedIn({from + i - 1})
    BY <2>1, GrantsOfBlock
  <2> HIDE DEF seqs
  <2>7. QED
    BY <2>2, <2>3, <2>4, <2>5, <2>6
<1>5. f[1] = seqs[1] /\ \A i \in 2..m : f[i] = Joined(f[i - 1], seqs[i])
  BY <1>1, FlatUnfolds
<1> HIDE DEF m, seqs, f
<1>6. P \in SUBSET Nat /\ 0 \in P
  <2>1. Read(1)
    <3>1. 1 \in 1..m /\ from + 1 - 1 = from /\ from..from = {from}
      BY <1>1
    <3>2. /\ seqs[1] \in Seq(Logs)
          /\ BridgesBefore(from + 1) = Replay(BridgesBefore(from), seqs[1])
          /\ GrantsOf(seqs[1]) = GrantedIn({from})
      BY <1>4, <3>1
    <3>3. QED
      BY <1>5, <3>1, <3>2
  <2>2. QED
    BY <2>1
<1>7. ASSUME NEW i \in P PROVE i + 1 \in P
  <2>1. ASSUME (i + 1) + 1 <= m PROVE Read((i + 1) + 1)
    <3> DEFINE k == i + 1
               j == k + 1
    <3>1. k \in 1..m /\ j \in 1..m /\ j \in 2..m /\ j - 1 = k /\ from + j - 1 = from + k
      BY <1>1, <2>1
    <3>2. Read(k)
      BY <1>1, <2>1
    <3>3. f[j] = Joined(f[k], seqs[j])
      BY <1>5, <3>1
    <3>4. /\ seqs[j] \in Seq(Logs)
          /\ BridgesBefore(from + j) = Replay(BridgesBefore(from + k), seqs[j])
          /\ GrantsOf(seqs[j]) = GrantedIn({from + k})
      BY <1>4, <3>1
    <3>5. from..(from + j - 1) = (from..(from + k - 1)) \cup {from + k}
      BY <3>1
    <3> HIDE DEF j, k
    <3>6. Joined(f[k], seqs[j]) \in Seq(Logs)
      BY <3>2, <3>4 DEF Joined
    <3>7. Replay(BridgesBefore(from), Joined(f[k], seqs[j]))
            = Replay(Replay(BridgesBefore(from), f[k]), seqs[j])
      BY <3>2, <3>4, ReplayConcat DEF Joined
    <3>8. GrantsOf(Joined(f[k], seqs[j])) = GrantsOf(f[k]) \cup GrantsOf(seqs[j])
      BY <3>2, <3>4, GrantsAddUp DEF Joined
    <3>9. GrantedIn(from..(from + j - 1))
            = GrantedIn(from..(from + k - 1)) \cup GrantedIn({from + k})
      BY <3>5, GrantedInUnion
    <3>10. Read(j)
      BY <3>2, <3>3, <3>4, <3>6, <3>7, <3>8, <3>9
    <3>11. QED
      BY <3>10 DEF j, k
  <2>2. QED
    BY <2>1
<1> HIDE DEF P
<1>8. P = Nat
  BY <1>6, <1>7, NumberInduction
<1>9. Read(m)
  <2>1. m - 1 \in Nat /\ (m - 1) + 1 = m
    BY <1>1
  <2>2. m - 1 \in P
    BY <1>8, <2>1
  <2>3. (m - 1) + 1 <= m => Read((m - 1) + 1)
    BY <2>2 DEF P
  <2>4. QED
    BY <1>1, <2>1, <2>3
<1>10. from + m - 1 = to
  BY <1>1
<1>11. QED
  BY <1>1, <1>3, <1>9, <1>10

(* Without a grant there is no bridge.                                     *)
LEMMA NoGrantNoBridge ==
    ASSUME ChainOK, NEW n \in Nat, n <= Len(chain), GrantedIn({k \in Nat : k < n}) = {}
    PROVE  BridgesBefore(n) = {}
<1>1. CASE n = 0
  BY <1>1 DEF BridgesBefore
<1>2. CASE n # 0
  <2>1. n - 1 \in Nat /\ 0 <= n - 1 /\ n - 1 <= BlockNumber /\ (n - 1) + 1 = n /\ 0 \in Nat
    BY <1>2 DEF BlockNumber, ChainOK
  <2>2. /\ LogsIn(0, n - 1) \in Seq(Logs)
        /\ Replay(BridgesBefore(0), LogsIn(0, n - 1)) = BridgesBefore(n)
        /\ GrantsOf(LogsIn(0, n - 1)) = GrantedIn(0..(n - 1))
    BY <2>1, WindowIsRead
  <2>3. 0..(n - 1) = {k \in Nat : k < n}
    BY <2>1
  <2>4. BridgesBefore(n) \subseteq BridgesBefore(0) \cup {}
    BY <2>2, <2>3, ReplayWithin
  <2>5. QED
    BY <2>4 DEF BridgesBefore
<1>3. QED
  BY <1>1, <1>2

(* The script's tests of a reserve are the contracts' own.                 *)
LEMMA ChecksAreSound ==
    ASSUME NEW r
    PROVE  Fails(ReserveCheck(r)) <=> ~Sound(r)
<1>1. /\ {b \in 0..15 : 16 + b \in r.word} = Packing!NumberIn(r.word, "liquidationThreshold")
      /\ {b \in 0..15 : 32 + b \in r.word} = Packing!NumberIn(r.word, "liquidationBonus")
  <2>1. /\ Packing!Cleared.liquidationThreshold = 16..31
        /\ Packing!Cleared.liquidationBonus = 32..47
    BY DEF Packing!Cleared
  <2>2. /\ Packing!StartBitPosition.liquidationThreshold = 16
        /\ Packing!StartBitPosition.liquidationBonus = 32
    BY DEF Packing!StartBitPosition
  <2>3. ASSUME NEW k \in {16, 32}
        PROVE  {b \in 0..15 : k + b \in r.word}
                 = {c - k : c \in {d \in r.word \cap (k .. (k + 15)) : d >= k}}
    <3>1. ASSUME NEW b \in 0..15, k + b \in r.word
          PROVE  b \in {c - k : c \in {d \in r.word \cap (k .. (k + 15)) : d >= k}}
      <4>1. b = (k + b) - k /\ k + b \in k .. (k + 15) /\ k + b >= k
        OBVIOUS
      <4>2. QED
        BY <3>1, <4>1
    <3>2. ASSUME NEW c \in r.word \cap (k .. (k + 15))
          PROVE  c - k \in 0..15 /\ k + (c - k) = c /\ c \in r.word
      OBVIOUS
    <3>3. QED
      BY <3>1, <3>2
  <2>4. 16 + 15 = 31 /\ 32 + 15 = 47
    OBVIOUS
  <2>5. QED
    BY <2>1, <2>2, <2>3, <2>4 DEF Packing!NumberIn, Packing!ShiftRight
<1>2. isFlagSet(r.word, 59) <=> Packing!FlagIn(r.word, "stableBorrowing")
  <2>1. Packing!Cleared.stableBorrowing = {59}
    BY DEF Packing!Cleared
  <2>2. QED
    BY <2>1 DEF isFlagSet, Packing!FlagIn
<1>3. /\ ReserveCheck(r).liquidationThreshold
           = Value(Packing!NumberIn(r.word, "liquidationThreshold"))
      /\ ReserveCheck(r).liquidationBonus
           = Value(Packing!NumberIn(r.word, "liquidationBonus"))
      /\ ReserveCheck(r).stableBorrowingEnabled
           <=> Packing!FlagIn(r.word, "stableBorrowing")
      /\ ReserveCheck(r).stableDebtSupply = r.stableDebt
      /\ ReserveCheck(r).unbacked = r.unbacked
  BY <1>1, <1>2 DEF ReserveCheck, readUint16
<1>4. QED
  BY <1>3 DEF Fails, badCollateralPairing, Sound

-----------------------------------------------------------------------------
(* A block that may come is a block, and its logs tell its bridges.        *)
LEMMA BlocksFollow ==
    ASSUME NEW last \in Blocks, NEW b \in NextBlocks(last)
    PROVE  b \in Blocks /\ b.bridges = Replay(last.bridges, b.logs)
<1> DEFINE Good(c) == c \in Blocks /\ c.bridges = Replay(last.bridges, c.logs)
           first == [last EXCEPT !.logs = << >>]
<1>1. Good(first)
  <2>1. first \in Blocks /\ first.bridges = last.bridges /\ first.logs = << >>
    <3> DEFINE none == << >>
    <3>1. none \in Seq(Logs) /\ first = [last EXCEPT !.logs = none]
      OBVIOUS
    <3> HIDE DEF none, first
    <3>2. first \in Blocks /\ first.bridges = last.bridges /\ first.logs = none
      BY <3>1 DEF Blocks
    <3>3. QED
      BY <3>2 DEF none
  <2>2. Replay(last.bridges, << >>) = last.bridges
    <3>1. << >> \in Seq({0})
      OBVIOUS
    <3>2. QED
      BY <3>1, ReplayAppend
  <2>3. QED
    BY <2>1, <2>2
<1>2. ASSUME NEW c, Good(c), NEW d \in RoleSteps(c)
      PROVE  Good(d)
  <2>1. c.logs \in Seq(Logs) /\ c.bridges \in SUBSET Accounts
    BY <1>2 DEF Blocks
  <2>2. ASSUME NEW a \in Accounts, NEW t \in {"RoleGranted", "RoleRevoked"},
               NEW held \in SUBSET Accounts, held = Applied(c.bridges, Log(t, a)),
               NEW e, e = [c EXCEPT !.bridges = held, !.logs = Append(c.logs, Log(t, a))]
        PROVE  Good(e)
    <3>1. Log(t, a) \in Logs
      BY DEF Log, Logs
    <3>2. Append(c.logs, Log(t, a)) \in Seq(Logs)
      BY <2>1, <3>1
    <3>3. Replay(last.bridges, Append(c.logs, Log(t, a)))
            = Applied(Replay(last.bridges, c.logs), Log(t, a))
      BY <2>1, <3>1, ReplayAppend
    <3>4. e \in Blocks /\ e.bridges = held /\ e.logs = Append(c.logs, Log(t, a))
      BY <1>2, <2>2, <3>2 DEF Blocks
    <3>5. QED
      BY <1>2, <2>2, <3>3, <3>4
  <2>3. ASSUME NEW a \in Accounts, d = Granted(c, a)
        PROVE  Good(d)
    <3>1. c.bridges \cup {a} \in SUBSET Accounts
          /\ c.bridges \cup {a} = Applied(c.bridges, Log("RoleGranted", a))
      BY <2>1 DEF Applied, isGrant, Log
    <3>2. d = [c EXCEPT !.bridges = c.bridges \cup {a},
                        !.logs = Append(c.logs, Log("RoleGranted", a))]
      BY <2>3 DEF Granted
    <3>3. QED
      BY <2>2, <3>1, <3>2
  <2>4. ASSUME NEW a \in Accounts, d = Revoked(c, a)
        PROVE  Good(d)
    <3>1. c.bridges \ {a} \in SUBSET Accounts
          /\ c.bridges \ {a} = Applied(c.bridges, Log("RoleRevoked", a))
      BY <2>1 DEF Applied, isGrant, Log
    <3>2. d = [c EXCEPT !.bridges = c.bridges \ {a},
                        !.logs = Append(c.logs, Log("RoleRevoked", a))]
      BY <2>4 DEF Revoked
    <3>3. QED
      BY <2>2, <3>1, <3>2
  <2> HIDE DEF Good
  <2>5. QED
    BY <2>1, <2>3, <2>4 DEF RoleSteps
<1>3. \A d \in SentinelSteps(first) : Good(d)
  <2>1. ASSUME NEW d \in SentinelSteps(first) PROVE Good(d)
    <3>1. d = [first EXCEPT !.sentinel = ~@]
      BY DEF SentinelSteps
    <3>2. d \in Blocks /\ d.bridges = first.bridges /\ d.logs = first.logs
      BY <1>1, <3>1 DEF Blocks
    <3>3. QED
      BY <1>1, <3>2
  <2>2. QED
    BY <2>1
<1>4. \A d \in ReserveSteps(first) : Good(d)
  <2>0. first.reserves \in Seq(ReserveStates)
    BY <1>1 DEF Blocks
  <2> HIDE DEF first
  <2>1. ASSUME NEW rs \in Seq(ReserveStates), NEW d, d = [first EXCEPT !.reserves = rs]
        PROVE  Good(d)
    <3>1. d \in Blocks /\ d.bridges = first.bridges /\ d.logs = first.logs
      BY <1>1, <2>1 DEF Blocks
    <3>2. QED
      BY <1>1, <3>1
  <2>2. ASSUME NEW i \in DOMAIN first.reserves, NEW r \in ReserveStates
        PROVE  Good([first EXCEPT !.reserves[i] = r])
    <3>1. [first.reserves EXCEPT ![i] = r] \in Seq(ReserveStates)
      BY <2>0
    <3>2. [first EXCEPT !.reserves[i] = r]
            = [first EXCEPT !.reserves = [first.reserves EXCEPT ![i] = r]]
      OBVIOUS
    <3> HIDE DEF Good
    <3>3. QED
      BY <2>1, <3>1, <3>2
  <2>3. ASSUME NEW r \in ReserveStates
        PROVE  Good([first EXCEPT !.reserves = Append(@, r)])
    <3>1. Append(first.reserves, r) \in Seq(ReserveStates)
      BY <2>0
    <3> HIDE DEF Good
    <3>2. QED
      BY <2>1, <3>1
  <2> HIDE DEF Good
  <2>4. QED
    BY <2>2, <2>3 DEF ReserveSteps
<1> HIDE DEF Good
<1>5. Good(b)
  <2>1. \/ b \in RoleSteps(first)
        \/ \E c \in RoleSteps(first) : b \in RoleSteps(c)
        \/ b \in SentinelSteps(first)
        \/ b \in ReserveSteps(first)
    BY DEF NextBlocks
  <2> HIDE DEF first
  <2>2. \A c \in RoleSteps(first) : Good(c)
    BY <1>1, <1>2
  <2>3. \A c \in RoleSteps(first) : \A d \in RoleSteps(c) : Good(d)
    BY <1>2, <2>2
  <2>4. QED
    BY <1>3, <1>4, <2>1, <2>2, <2>3
<1>6. QED
  BY <1>5 DEF Good

(* What there is at a block does not change when another is mined.         *)
LEMMA MiningAppends ==
    ASSUME ChainOK, Mine
    PROVE  /\ Len(chain') = Len(chain) + 1
           /\ \A n \in 1..Len(chain) : chain'[n] = chain[n]
           /\ ChainOK'
<1>1. PICK b \in NextBlocks(Last(chain)) : chain' = Append(chain, b)
  BY DEF Mine
<1>2. Len(chain) \in Nat /\ Len(chain) # 0 /\ Last(chain) = chain[Len(chain)]
      /\ Last(chain) \in Blocks
  BY DEF ChainOK, Last
<1>3. b \in Blocks /\ b.bridges = Replay(Last(chain).bridges, b.logs)
  BY <1>2, BlocksFollow
<1>4. /\ Len(chain') = Len(chain) + 1 /\ chain' \in Seq(Blocks) /\ chain' # << >>
      /\ chain'[Len(chain) + 1] = b
      /\ \A n \in 1..Len(chain) : chain'[n] = chain[n]
  BY <1>1, <1>2, <1>3 DEF ChainOK
<1>5. \A n \in 0..Len(chain) : BridgesBefore(n)' = BridgesBefore(n)
  BY <1>2, <1>4 DEF BridgesBefore
<1>6. BridgesBefore(Len(chain)) = Last(chain).bridges
  BY <1>2 DEF BridgesBefore
<1>7. ASSUME NEW n \in 1..Len(chain')
      PROVE  chain'[n].bridges = Replay(BridgesBefore(n - 1)', chain'[n].logs)
  <2>1. CASE n \in 1..Len(chain)
    <3>1. n - 1 \in 0..Len(chain)
      BY <1>2, <2>1
    <3>2. chain[n].bridges = Replay(BridgesBefore(n - 1), chain[n].logs)
      BY <2>1 DEF ChainOK
    <3>3. chain'[n] = chain[n] /\ BridgesBefore(n - 1)' = BridgesBefore(n - 1)
      BY <1>4, <1>5, <2>1, <3>1
    <3>4. QED
      BY <3>2, <3>3
  <2>2. CASE n = Len(chain) + 1
    <3>1. n - 1 = Len(chain) /\ Len(chain) \in 0..Len(chain)
      BY <1>2, <2>2
    <3>2. BridgesBefore(n - 1)' = Last(chain).bridges
      BY <1>5, <1>6, <3>1
    <3>3. QED
      BY <1>3, <1>4, <2>2, <3>2
  <2>3. QED
    BY <1>2, <1>4, <2>1, <2>2
<1>8. QED
  BY <1>4, <1>7 DEF ChainOK

-----------------------------------------------------------------------------
(* A script that has not begun on a chain of one block.                    *)
LEMMA InitLive == LiveInit => LiveInv
<1> SUFFICES ASSUME LiveInit PROVE LiveInv
  OBVIOUS
<1>1. PICK r \in ReserveStates :
          chain = <<[sentinel |-> FALSE, bridges |-> {}, logs |-> << >>, reserves |-> <<r>>]>>
  BY DEF LiveInit
<1>2. ChainOK
  <2> DEFINE b == [sentinel |-> FALSE, bridges |-> {}, logs |-> << >>, reserves |-> <<r>>]
  <2>1. << >> \in Seq(Logs) /\ <<r>> \in Seq(ReserveStates)
    OBVIOUS
  <2>2. b \in Blocks /\ b.bridges = {} /\ b.logs = << >>
    BY <2>1 DEF Blocks
  <2>3. Replay({}, << >>) = {}
    <3>1. << >> \in Seq({0})
      OBVIOUS
    <3>2. QED
      BY <3>1, ReplayAppend
  <2> HIDE DEF b
  <2>4. chain = <<b>>
    BY <1>1 DEF b
  <2>5. chain \in Seq(Blocks) /\ chain # << >> /\ Len(chain) = 1 /\ chain[1] = b
    BY <2>2, <2>4
  <2>6. BridgesBefore(0) = {}
    BY DEF BridgesBefore
  <2>7. \A n \in 1..Len(chain) : n - 1 = 0 /\ n = 1
    BY <2>5
  <2>8. QED
    BY <2>2, <2>3, <2>5, <2>6, <2>7 DEF ChainOK
<1>3. QED
  BY <1>2 DEF LiveInit, LiveInv, EnvironmentOK, NothingYet, ReadingOK, ScanningOK, JudgedOK,
              Begun, Reading, Scanning, Judged

(* What is read is that of blocks up to the target, which stay.            *)
LEMMA MiningKeeps ==
    ASSUME LiveInv, Mine
    PROVE  LiveInv'
<1>1. /\ Len(chain') = Len(chain) + 1 /\ ChainOK' /\ Len(chain) \in Nat
      /\ \A n \in 1..Len(chain) : chain'[n] = chain[n]
  BY MiningAppends DEF LiveInv, ChainOK
<1>2. UNCHANGED scriptVars
  BY DEF Mine
<1>3. Reading => targetBlock \in Nat /\ targetBlock <= BlockNumber
  BY DEF LiveInv, EnvironmentOK, ReadingOK, Begun
<1>4. Reading => /\ targetBlock <= BlockNumber'
                 /\ At(targetBlock)' = At(targetBlock)
                 /\ \A n \in 0..targetBlock : chain'[n + 1] = chain[n + 1]
  <2>1. ASSUME Reading, NEW n \in 0..targetBlock
        PROVE  n + 1 \in 1..Len(chain)
    BY <1>1, <1>3, <2>1 DEF BlockNumber
  <2>2. ASSUME Reading PROVE targetBlock \in 0..targetBlock
    BY <1>3, <2>2
  <2>3. Reading => targetBlock <= BlockNumber'
    BY <1>1, <1>3 DEF BlockNumber
  <2>4. QED
    BY <1>1, <1>2, <2>1, <2>2, <2>3 DEF At, scriptVars, read
<1>5. ASSUME Reading, NEW S \in SUBSET (0..targetBlock)
      PROVE  GrantedIn(S)' = GrantedIn(S)
  BY <1>4, <1>5 DEF GrantedIn
<1>6. Scanning => BridgesBefore(LastScanned)' = BridgesBefore(LastScanned)
  <2>1. ASSUME Scanning
        PROVE  BridgesBefore(LastScanned)' = BridgesBefore(LastScanned)
    <3>1. start \in Nat /\ targetBlock \in Nat /\ targetBlock <= BlockNumber
      BY <1>3, <2>1 DEF LiveInv, ScanningOK, Reading
    <3>2. LastScanned \in 0..Len(chain) /\ LastScanned' = LastScanned
      BY <1>1, <1>2, <3>1 DEF LastScanned, BlockNumber, scriptVars, scan, read
    <3>3. QED
      BY <1>1, <3>2 DEF BridgesBefore
  <2>2. QED
    BY <2>1
<1>7. ScanningOK'
  <2> SUFFICES ASSUME Scanning PROVE ScanningOK'
    BY <1>2 DEF ScanningOK, Scanning, Judged, scriptVars
  <2>1. Reading /\ FirstBlock \in 0..targetBlock
    BY DEF Reading, LiveInv, EnvironmentOK, Begun
  <2>2. FirstBlock' = FirstBlock
        /\ getEnvNumber("step", DEFAULT_LOG_STEP)' = getEnvNumber("step", DEFAULT_LOG_STEP)
    BY <1>2 DEF FirstBlock, getEnvNumber, scriptVars
  <2>3. /\ {n \in FirstBlock..targetBlock : n < start} \in SUBSET (0..targetBlock)
        /\ {n \in 0..targetBlock : n < FirstBlock} \in SUBSET (0..targetBlock)
    BY <2>1
  <2>4. /\ GrantedIn({n \in FirstBlock..targetBlock : n < start})'
             = GrantedIn({n \in FirstBlock..targetBlock : n < start})
        /\ GrantedIn({n \in 0..targetBlock : n < FirstBlock})'
             = GrantedIn({n \in 0..targetBlock : n < FirstBlock})
    <3>1. /\ {n \in FirstBlock..targetBlock : n < start}'
               = {n \in FirstBlock..targetBlock : n < start}
          /\ {n \in 0..targetBlock : n < FirstBlock}'
               = {n \in 0..targetBlock : n < FirstBlock}
      BY <1>2, <2>2 DEF scriptVars, read, scan
    <3>2. QED
      BY <1>5, <2>1, <2>3, <3>1 DEF GrantedIn
  <2>5. QED
    BY <1>2, <1>4, <1>6, <2>1, <2>2, <2>4
       DEF LiveInv, ScanningOK, scriptVars, read, scan
<1>8. ReadingOK'
  BY <1>2, <1>4 DEF LiveInv, ReadingOK, Reading, Scanning, Judged, scriptVars, read
<1>9. EnvironmentOK' /\ NothingYet' /\ JudgedOK'
  BY <1>2 DEF LiveInv, EnvironmentOK, NothingYet, JudgedOK, Begun, Reading, Scanning, Judged,
              FirstBlock, getEnvNumber, Failed, scriptVars, read, scan
<1>10. QED
  BY <1>1, <1>7, <1>8, <1>9 DEF LiveInv

(* The chain stands still while the script takes a step.                   *)
LEMMA ChainStays ==
    ASSUME ChainOK, UNCHANGED chain
    PROVE  /\ ChainOK' /\ BlockNumber' = BlockNumber
           /\ \A n : At(n)' = At(n) /\ BridgesBefore(n)' = BridgesBefore(n)
           /\ \A S : GrantedIn(S)' = GrantedIn(S)
  BY DEF ChainOK, BlockNumber, At, BridgesBefore, GrantedIn

(* A call that fails ends the script and says nothing.                     *)
LEMMA ThrowKeeps ==
    ASSUME LiveInv, Throw
    PROVE  LiveInv'
<1>1. ChainOK'
  BY ChainStays DEF LiveInv, Throw
<1>2. ~Begun' /\ ~Reading' /\ ~Scanning' /\ ~Judged'
  BY DEF Throw, Begun, Reading, Scanning, Judged
<1>3. EnvironmentOK' /\ NothingYet'
  BY <1>2 DEF LiveInv, EnvironmentOK, NothingYet, Throw
<1>4. QED
  BY <1>1, <1>2, <1>3 DEF LiveInv, ReadingOK, ScanningOK, JudgedOK

(* The values an environment variable may have.                            *)
LEMMA SettingsAreNumbers ==
    ASSUME settings \in Settings, NEW fallback \in Nat
    PROVE  /\ getEnvNumber("block", fallback) \in Nat \cup {Invalid}
           /\ getEnvNumber("from", fallback) \in Nat \cup {Invalid}
           /\ getEnvNumber("step", fallback) \in Nat \cup {Invalid}
  BY SettingsAssumption DEF getEnvNumber, EnvNumbers

(* A target that is accepted lies behind the first block.                  *)
LEMMA ReadEnvironmentKeeps ==
    ASSUME LiveInv, ReadEnvironment
    PROVE  LiveInv'
<1> DEFINE target == getEnvNumber("block", BlockNumber)
           from == getEnvNumber("from", 0)
<1>1. CASE Throw
  BY <1>1, ThrowKeeps
<1>2. CASE ~Throw
  <2>1. /\ pc = "start" /\ target # Invalid /\ from # Invalid /\ ~(from > target)
        /\ targetBlock' = target /\ pc' = "provider"
        /\ UNCHANGED <<chain, settings, exitCode, thrown, sentinel, checks, scan>>
    BY <1>2 DEF ReadEnvironment, GoOn
  <2>2. settings \in Settings /\ BlockNumber \in Nat
    BY DEF LiveInv, EnvironmentOK, ChainOK, BlockNumber
  <2>3. target \in Nat /\ from \in Nat /\ from <= target
    <3>1. target \in Nat \cup {Invalid} /\ from \in Nat \cup {Invalid}
      BY <2>2, SettingsAreNumbers
    <3>2. QED
      BY <2>1, <3>1
  <2>4. FirstBlock' = from
    BY <2>1 DEF FirstBlock, getEnvNumber
  <2>5. ChainOK'
    BY <2>1, ChainStays DEF LiveInv
  <2>6. ~Reading' /\ ~Scanning' /\ ~Judged'
    BY <2>1 DEF Reading, Scanning, Judged
  <2>7. EnvironmentOK'
    BY <2>1, <2>3, <2>4 DEF LiveInv, EnvironmentOK
  <2>8. NothingYet'
    BY <2>1 DEF LiveInv, NothingYet, scan
  <2>9. QED
    BY <2>5, <2>6, <2>7, <2>8 DEF LiveInv, ReadingOK, ScanningOK, JudgedOK
<1>3. QED
  BY <1>1, <1>2

(* From here on the target is a block of the chain.                        *)
LEMMA ReadProviderKeeps ==
    ASSUME LiveInv, ReadProvider
    PROVE  LiveInv'
<1>1. CASE Throw
  BY <1>1, ThrowKeeps
<1>2. CASE ~Throw
  <2>1. /\ pc = "provider" /\ ~(targetBlock > BlockNumber)
        /\ sentinel' = At(targetBlock).sentinel /\ pc' = "reserves"
        /\ UNCHANGED <<chain, settings, exitCode, thrown, targetBlock, checks, scan>>
    BY <1>2 DEF ReadProvider, GoOn
  <2>2. Begun /\ targetBlock \in Nat /\ FirstBlock \in 0..targetBlock /\ checks = << >>
    BY <2>1 DEF LiveInv, EnvironmentOK, NothingYet, Begun
  <2>3. /\ ChainOK' /\ BlockNumber' = BlockNumber
        /\ At(targetBlock)' = At(targetBlock) /\ BlockNumber \in Nat
    BY <2>1, ChainStays DEF LiveInv, ChainOK, BlockNumber, At
  <2>4. targetBlock <= BlockNumber
    BY <2>1, <2>2, <2>3
  <2>5. At(targetBlock) \in Blocks
    BY <2>2, <2>4 DEF LiveInv, ChainOK, At, BlockNumber
  <2>6. Len(At(targetBlock).reserves) \in Nat
    BY <2>5 DEF Blocks
  <2>7. ReadingOK'
    BY <2>1, <2>2, <2>3, <2>4, <2>6 DEF ReadingOK
  <2>8. EnvironmentOK' /\ NothingYet'
    BY <2>1, <2>2 DEF LiveInv, EnvironmentOK, NothingYet, FirstBlock, getEnvNumber, scan
  <2>9. ~Scanning' /\ ~Judged'
    BY <2>1 DEF Scanning, Judged
  <2>10. QED
    BY <2>3, <2>7, <2>8, <2>9 DEF LiveInv, ScanningOK, JudgedOK
<1>3. QED
  BY <1>1, <1>2

(* The reserves are read in the order of their list at the target.         *)
LEMMA ReadReserveKeeps ==
    ASSUME LiveInv, ReadReserve
    PROVE  LiveInv'
<1> DEFINE reserves == At(targetBlock).reserves
           check == ReserveCheck(reserves[Len(checks) + 1])
<1>1. /\ pc = "reserves" /\ pc' = "reserves" /\ Len(checks) < Len(reserves)
      /\ checks' = Append(checks, check)
      /\ UNCHANGED <<chain, settings, exitCode, thrown, targetBlock, sentinel, scan>>
  BY DEF ReadReserve, GoOn
<1>2. Reading /\ Begun
  BY <1>1 DEF Reading, Begun
<1>3. /\ targetBlock \in Nat /\ FirstBlock \in 0..targetBlock
      /\ targetBlock <= BlockNumber /\ sentinel = At(targetBlock).sentinel
      /\ checks \in Seq({ReserveCheck(r) : r \in ReserveStates})
      /\ \A i \in 1..Len(checks) : checks[i] = ReserveCheck(reserves[i])
  BY <1>2 DEF LiveInv, EnvironmentOK, ReadingOK
<1>4. ChainOK' /\ BlockNumber' = BlockNumber /\ At(targetBlock)' = At(targetBlock)
  BY <1>1, ChainStays DEF LiveInv, At
<1>5. reserves \in Seq(ReserveStates)
  <2>1. At(targetBlock) \in Blocks
    BY <1>3 DEF LiveInv, ChainOK, At, BlockNumber
  <2>2. QED
    BY <2>1 DEF Blocks
<1> HIDE DEF reserves
<1>6. Len(checks) + 1 \in 1..Len(reserves) /\ Len(checks) \in Nat
  BY <1>1, <1>3, <1>5
<1>7. check \in {ReserveCheck(r) : r \in ReserveStates}
  BY <1>5, <1>6
<1> HIDE DEF check
<1>8. /\ checks' \in Seq({ReserveCheck(r) : r \in ReserveStates})
      /\ Len(checks') = Len(checks) + 1 /\ checks'[Len(checks) + 1] = check
      /\ \A i \in 1..Len(checks) : checks'[i] = checks[i]
  BY <1>1, <1>3, <1>7
<1>9. ASSUME NEW i \in 1..Len(checks') PROVE checks'[i] = ReserveCheck(reserves[i])
  <2>1. CASE i \in 1..Len(checks)
    BY <1>3, <1>8, <2>1
  <2>2. CASE i = Len(checks) + 1
    BY <1>8, <2>2 DEF check
  <2>3. QED
    BY <1>6, <1>8, <2>1, <2>2
<1>10. ReadingOK'
  <2>1. /\ targetBlock' = targetBlock /\ sentinel' = sentinel
        /\ At(targetBlock)'.sentinel = At(targetBlock).sentinel
        /\ At(targetBlock)'.reserves = reserves
    BY <1>1, <1>4 DEF reserves
  <2>2. Len(checks') <= Len(reserves)
    BY <1>6, <1>8
  <2>3. QED
    BY <1>3, <1>4, <1>8, <1>9, <2>1, <2>2 DEF ReadingOK
<1>11. EnvironmentOK' /\ NothingYet'
  BY <1>1, <1>3 DEF LiveInv, EnvironmentOK, NothingYet, FirstBlock, getEnvNumber, scan
<1>12. ~Scanning' /\ ~Judged'
  BY <1>1 DEF Scanning, Judged
<1>13. QED
  BY <1>4, <1>10, <1>11, <1>12 DEF LiveInv, ScanningOK, JudgedOK

(* Nothing is scanned yet, and without grants there is nothing to know.    *)
LEMMA BeginScanKeeps ==
    ASSUME LiveInv, BeginScan
    PROVE  LiveInv'
<1>1. CASE Throw
  BY <1>1, ThrowKeeps
<1>2. CASE ~Throw
  <2> DEFINE step == getEnvNumber("step", DEFAULT_LOG_STEP)
  <2>1. /\ pc = "reserves" /\ pc' = "scan" /\ step # Invalid
        /\ Len(checks) = Len(At(targetBlock).reserves)
        /\ start' = FirstBlock
        /\ UNCHANGED <<chain, settings, exitCode, thrown, read, grants, members>>
    BY <1>2 DEF BeginScan, GoOn, FirstBlock
  <2>2. Reading /\ Begun
    BY <2>1 DEF Reading, Begun
  <2>3. /\ targetBlock \in Nat /\ FirstBlock \in 0..targetBlock
        /\ targetBlock <= BlockNumber /\ settings \in Settings
        /\ grants = {} /\ members = {}
    BY <2>1, <2>2 DEF LiveInv, EnvironmentOK, ReadingOK, NothingYet
  <2>4. /\ ChainOK /\ ChainOK' /\ BlockNumber' = BlockNumber
        /\ At(targetBlock)' = At(targetBlock)
        /\ \A n : BridgesBefore(n)' = BridgesBefore(n)
        /\ \A S : GrantedIn(S)' = GrantedIn(S)
    BY <2>1, ChainStays DEF LiveInv, At, read
  <2>5. /\ targetBlock' = targetBlock /\ sentinel' = sentinel /\ checks' = checks
        /\ FirstBlock' = FirstBlock /\ step' = step
    BY <2>1 DEF FirstBlock, getEnvNumber, read
  <2>6. step \in Nat
    BY <2>1, <2>3, SettingsAreNumbers, SettingsAssumption
  <2> HIDE DEF step
  <2>7. LastScanned' = FirstBlock
    BY <2>1, <2>3, <2>5 DEF LastScanned
  <2>8. {n \in FirstBlock..targetBlock : n < FirstBlock} = {}
    BY <2>3
  <2>9. GrantedIn({n \in 0..targetBlock : n < FirstBlock}) = {} =>
            BridgesBefore(FirstBlock) = {}
    <3>1. FirstBlock \in Nat /\ FirstBlock <= Len(chain)
      BY <2>3, <2>4 DEF BlockNumber, ChainOK
    <3>2. {n \in 0..targetBlock : n < FirstBlock} = {k \in Nat : k < FirstBlock}
      BY <2>3
    <3>3. QED
      BY <2>4, <3>1, <3>2, NoGrantNoBridge
  <2>10. GrantedIn({}) = {}
    BY DEF GrantedIn
  <2>11. ScanningOK'
    <3>1. {n \in FirstBlock..targetBlock : n < start}' = {}
      BY <2>1, <2>5, <2>8
    <3>2. {n \in 0..targetBlock : n < FirstBlock}'
            = {n \in 0..targetBlock : n < FirstBlock}
      BY <2>5
    <3>3. grants' = GrantedIn({n \in FirstBlock..targetBlock : n < start})'
      BY <2>1, <2>3, <2>4, <2>10, <3>1 DEF GrantedIn
    <3>4. GrantedIn({n \in 0..targetBlock : n < FirstBlock})'
            = GrantedIn({n \in 0..targetBlock : n < FirstBlock})
      BY <2>4, <3>2 DEF GrantedIn
    <3>5. BridgesBefore(LastScanned)' = BridgesBefore(FirstBlock)
      BY <2>1, <2>7 DEF BridgesBefore
    <3>6. QED
      BY <2>1, <2>3, <2>4, <2>5, <2>6, <2>9, <3>3, <3>4, <3>5 DEF ScanningOK, step
  <2>12. ReadingOK'
    BY <2>2, <2>4, <2>5 DEF LiveInv, ReadingOK
  <2>13. EnvironmentOK' /\ NothingYet'
    BY <2>1, <2>3, <2>5 DEF LiveInv, EnvironmentOK, NothingYet
  <2>14. ~Judged'
    BY <2>1 DEF Judged
  <2>15. QED
    BY <2>4, <2>11, <2>12, <2>13, <2>14 DEF LiveInv, JudgedOK
<1>3. QED
  BY <1>1, <1>2

(* The next window joins on to those before.                               *)
LEMMA ScanWindowKeeps ==
    ASSUME LiveInv, ScanWindow
    PROVE  LiveInv'
<1> DEFINE step == getEnvNumber("step", DEFAULT_LOG_STEP)
           end == IF start + step < targetBlock THEN start + step ELSE targetBlock
           logs == LogsIn(start, end)
           before == {n \in FirstBlock..targetBlock : n < start}
<1>1. /\ pc = "scan" /\ pc' = "scan" /\ start <= targetBlock
      /\ grants' = grants \cup GrantsOf(logs)
      /\ members' = Replay(members, logs)
      /\ start' = start + step + 1
      /\ UNCHANGED <<chain, settings, exitCode, thrown, read>>
  BY DEF ScanWindow, GoOn, NextStart
<1>2. Scanning /\ Reading /\ Begun
  BY <1>1 DEF Scanning, Reading, Begun
<1>3. /\ targetBlock \in Nat /\ FirstBlock \in 0..targetBlock /\ targetBlock <= BlockNumber
      /\ step \in Nat /\ start \in Nat /\ FirstBlock <= start
      /\ Len(checks) = Len(At(targetBlock).reserves)
      /\ grants = GrantedIn(before) /\ members \subseteq grants
      /\ GrantedIn({n \in 0..targetBlock : n < FirstBlock}) = {} =>
            members = BridgesBefore(LastScanned)
  BY <1>2 DEF LiveInv, EnvironmentOK, ReadingOK, ScanningOK
<1>4. /\ ChainOK /\ ChainOK' /\ BlockNumber' = BlockNumber
      /\ At(targetBlock)' = At(targetBlock)
      /\ \A n : BridgesBefore(n)' = BridgesBefore(n)
      /\ \A S : GrantedIn(S)' = GrantedIn(S)
  BY <1>1, ChainStays DEF LiveInv, At, read
<1>5. /\ targetBlock' = targetBlock /\ sentinel' = sentinel /\ checks' = checks
      /\ FirstBlock' = FirstBlock /\ step' = step
  BY <1>1 DEF FirstBlock, getEnvNumber, read
<1> HIDE DEF step
<1>6. /\ end \in Nat /\ start <= end /\ end <= targetBlock /\ end <= BlockNumber
      /\ LastScanned = start
  BY <1>1, <1>3, <1>4 DEF ChainOK, BlockNumber, LastScanned
<1>7. LastScanned' = end + 1
  BY <1>1, <1>3, <1>5 DEF LastScanned
<1>8. {n \in FirstBlock..targetBlock : n < start + step + 1} = before \cup (start..end)
  BY <1>1, <1>3, <1>6
<1>9. start + step + 1 \in Nat /\ FirstBlock <= start + step + 1
  BY <1>3
<1> HIDE DEF end
<1>10. /\ logs \in Seq(Logs)
       /\ Replay(BridgesBefore(start), logs) = BridgesBefore(end + 1)
       /\ GrantsOf(logs) = GrantedIn(start..end)
  BY <1>3, <1>4, <1>6, WindowIsRead
<1> HIDE DEF logs, before
<1> DEFINE window == start..end
           seen == before \cup window
<1>11. grants' = GrantedIn(seen)
  <2>1. GrantsOf(logs) = GrantedIn(window)
    BY <1>10
  <2> HIDE DEF window
  <2>2. GrantedIn(seen) = GrantedIn(before) \cup GrantedIn(window)
    BY GrantedInUnion
  <2> HIDE DEF seen
  <2>3. QED
    BY <1>1, <1>3, <2>1, <2>2
<1>12. members' \subseteq grants'
  BY <1>1, <1>3, <1>10, ReplayWithin
<1>13. ScanningOK'
  <2>1. {n \in FirstBlock..targetBlock : n < start}' = seen
    BY <1>1, <1>5, <1>8
  <2> HIDE DEF seen
  <2>2. {n \in 0..targetBlock : n < FirstBlock}' = {n \in 0..targetBlock : n < FirstBlock}
    BY <1>5
  <2>3. grants' = GrantedIn({n \in FirstBlock..targetBlock : n < start})'
    BY <1>4, <1>11, <2>1 DEF GrantedIn
  <2>4. GrantedIn({n \in 0..targetBlock : n < FirstBlock})'
          = GrantedIn({n \in 0..targetBlock : n < FirstBlock})
    BY <1>4, <2>2 DEF GrantedIn
  <2>5. BridgesBefore(LastScanned)' = BridgesBefore(end + 1)
    BY <1>1, <1>7 DEF BridgesBefore
  <2>6. GrantedIn({n \in 0..targetBlock : n < FirstBlock}) = {} =>
            members' = BridgesBefore(LastScanned)'
    BY <1>1, <1>3, <1>6, <1>10, <2>5
  <2>7. QED
    BY <1>1, <1>3, <1>4, <1>5, <1>9, <1>12, <2>3, <2>4, <2>6 DEF ScanningOK, step
<1>14. ReadingOK'
  BY <1>2, <1>4, <1>5 DEF LiveInv, ReadingOK
<1>15. EnvironmentOK' /\ NothingYet'
  BY <1>1, <1>3, <1>5 DEF LiveInv, EnvironmentOK, NothingYet
<1>16. ~Judged'
  BY <1>1 DEF Judged
<1>17. QED
  BY <1>4, <1>13, <1>14, <1>15, <1>16 DEF LiveInv, JudgedOK

(* The exit code is that of what was collected.                            *)
LEMMA JudgeKeeps ==
    ASSUME LiveInv, Judge
    PROVE  LiveInv'
<1>1. /\ pc = "scan" /\ pc' = "done" /\ start > targetBlock
      /\ exitCode' = IF Failed THEN 1 ELSE 0
      /\ UNCHANGED <<chain, settings, read, scan, thrown>>
  BY DEF Judge
<1>2. Scanning /\ Reading /\ Begun
  BY <1>1 DEF Scanning, Reading, Begun
<1>3. ChainOK' /\ BlockNumber' = BlockNumber
  BY <1>1, ChainStays DEF LiveInv
<1>4. Failed' = Failed
  BY <1>1 DEF Failed, read, scan
<1>5. ReadingOK'
  BY <1>1, <1>2, <1>3 DEF LiveInv, ReadingOK, At, read
<1>6. ScanningOK'
  BY <1>1, <1>2, <1>3
     DEF LiveInv, ScanningOK, At, read, scan, LastScanned, BridgesBefore, GrantedIn,
         FirstBlock, getEnvNumber
<1>7. EnvironmentOK' /\ NothingYet'
  BY <1>1, <1>2
     DEF LiveInv, EnvironmentOK, NothingYet, FirstBlock, getEnvNumber, read, scan
<1>8. JudgedOK'
  BY <1>1, <1>4 DEF JudgedOK, read, scan
<1>9. QED
  BY <1>3, <1>5, <1>6, <1>7, <1>8 DEF LiveInv

(* No step of the chain, the script or a failing node breaks the invariant. *)
LEMMA NextLive == LiveInv /\ [LiveNext]_liveVars => LiveInv'
<1> SUFFICES ASSUME LiveInv, [LiveNext]_liveVars PROVE LiveInv'
  OBVIOUS
<1>1. CASE Mine
  BY <1>1, MiningKeeps
<1>2. CASE Script
  BY <1>2, ReadEnvironmentKeeps, ReadProviderKeeps, ReadReserveKeeps, BeginScanKeeps,
     ScanWindowKeeps, JudgeKeeps DEF Script
<1>3. CASE LoseNode
  BY <1>3, ThrowKeeps DEF LoseNode
<1>4. CASE UNCHANGED liveVars
  <2>1. ChainOK' /\ BlockNumber' = BlockNumber
    BY <1>4, ChainStays DEF LiveInv, liveVars
  <2>2. EnvironmentOK' /\ NothingYet' /\ ReadingOK' /\ JudgedOK'
    BY <1>4, <2>1
       DEF LiveInv, EnvironmentOK, NothingYet, ReadingOK, JudgedOK, Failed, At, FirstBlock,
           getEnvNumber, Begun, Reading, Scanning, Judged, liveVars, scriptVars, read, scan
  <2>3. ScanningOK'
    BY <1>4, <2>1
       DEF LiveInv, ScanningOK, At, LastScanned, BridgesBefore, GrantedIn, FirstBlock,
           getEnvNumber, Scanning, Judged, liveVars, scriptVars, read, scan
  <2>4. QED
    BY <2>1, <2>2, <2>3 DEF LiveInv
<1>5. QED
  BY <1>1, <1>2, <1>3, <1>4 DEF LiveNext

(* A verdict that follows from what was collected; a check that was cut    *)
(* short has none, and an exit code that says so.                          *)
LEMMA InvGivesVerdict == LiveInv => VerdictIsOfTarget
<1> SUFFICES ASSUME LiveInv, Judged
             PROVE  LET from == getEnvNumber("from", 0)
                    IN  /\ (exitCode = 0) <=> Assumptions(targetBlock, from)
                        /\ grants = GrantedIn(from .. targetBlock)
                        /\ GrantedIn({n \in 0 .. targetBlock : n < from}) = {} =>
                               members = chain[targetBlock + 1].bridges
  BY DEF VerdictIsOfTarget, Judged, LiveInv, EnvironmentOK
<1> DEFINE reserves == At(targetBlock).reserves
<1>1. Scanning /\ Reading /\ Begun
  BY DEF Scanning, Reading, Begun
<1>2. /\ targetBlock \in Nat /\ FirstBlock \in 0..targetBlock /\ targetBlock <= BlockNumber
      /\ start \in Nat /\ start > targetBlock /\ exitCode = IF Failed THEN 1 ELSE 0
      /\ sentinel = At(targetBlock).sentinel /\ Len(checks) = Len(reserves)
      /\ checks \in Seq({ReserveCheck(r) : r \in ReserveStates})
      /\ \A i \in 1..Len(checks) : checks[i] = ReserveCheck(reserves[i])
      /\ grants = GrantedIn({n \in FirstBlock..targetBlock : n < start})
      /\ members \subseteq grants
      /\ GrantedIn({n \in 0..targetBlock : n < FirstBlock}) = {} =>
            members = BridgesBefore(LastScanned)
  BY <1>1 DEF LiveInv, EnvironmentOK, ReadingOK, ScanningOK, JudgedOK
<1>3. {n \in FirstBlock..targetBlock : n < start} = FirstBlock..targetBlock
  BY <1>2
<1>4. BridgesBefore(LastScanned) = chain[targetBlock + 1].bridges
  BY <1>2 DEF LastScanned, BridgesBefore
<1>5. reserves \in Seq(ReserveStates)
  <2>1. At(targetBlock) \in Blocks
    BY <1>2 DEF LiveInv, ChainOK, At, BlockNumber
  <2>2. QED
    BY <2>1 DEF Blocks
<1>6. (\E check \in ToSet(checks) : Fails(check)) <=> ~ \A r \in ToSet(reserves) : Sound(r)
  <2> HIDE DEF reserves
  <2>1. /\ ToSet(checks) = {checks[i] : i \in 1..Len(reserves)}
        /\ ToSet(reserves) = {reserves[i] : i \in 1..Len(reserves)}
    BY <1>2, <1>5 DEF ToSet
  <2>2. \A i \in 1..Len(reserves) : Fails(checks[i]) <=> ~Sound(reserves[i])
    BY <1>2, ChecksAreSound
  <2>3. QED
    BY <2>1, <2>2
<1>7. exitCode = 0 <=> ~Failed
  BY <1>2
<1>8. Failed <=> ~Assumptions(targetBlock, FirstBlock)
  <2>1. grants = GrantedIn(FirstBlock..targetBlock)
    BY <1>2, <1>3
  <2>2. members # {} => grants # {}
    BY <1>2
  <2>3. At(targetBlock) = chain[targetBlock + 1]
    BY DEF At
  <2>4. QED
    BY <1>2, <1>6, <2>1, <2>2, <2>3 DEF Failed, Assumptions
<1>9. QED
  BY <1>2, <1>3, <1>4, <1>7, <1>8 DEF FirstBlock

(* For every chain, every window and every setting of the environment, and *)
(* whatever is mined or lost while the script reads: a verdict is that of  *)
(* the block it names, and without a verdict the script does not pass.     *)
THEOREM VerdictsAreSound == LiveSpec => []VerdictIsOfTarget
  BY InitLive, NextLive, InvGivesVerdict, PTL DEF LiveSpec
=============================================================================
