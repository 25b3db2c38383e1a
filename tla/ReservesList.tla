----------------------------- MODULE ReservesList -----------------------------
(***************************************************************************)
(* The listing of reserves: PoolConfigurator.initReserves with             *)
(* ConfiguratorLogic.executeInitReserve, Pool.initReserve with             *)
(* PoolLogic.executeInitReserve and ReserveLogic.init, and the guard under *)
(* which the pool takes a configuration.                                   *)
(*                                                                         *)
(* The id of a reserve is its place in the list.  The bitmap of a user     *)
(* speaks of reserves by their ids, and every loop over the collateral and *)
(* the debts of a user goes through the list up to reservesCount.  A       *)
(* mapping reads zero where nothing was written: id 0 is also the id of    *)
(* every asset that is not listed, and the zero address is also what the   *)
(* list holds where it is empty.                                           *)
(***************************************************************************)
EXTENDS Integers

CONSTANTS
    Assets,         \* the contracts that may be listed
    ZeroAddress,
    MaxReserves     \* MAX_RESERVES_COUNT: 128 in the code

ASSUME ListingAssumption ==
    /\ ZeroAddress \notin Assets
    /\ MaxReserves \in Nat

VARIABLES
    reservesList,   \* by id, an asset or the zero address
    reservesCount,
    id,             \* by asset
    initialized,    \* the assets whose aTokenAddress is not zero
    active          \* the assets whose configuration says active

vars == <<reservesList, reservesCount, id, initialized, active>>

Addresses == Assets \cup {ZeroAddress}
Slots     == 0..MaxReserves

Init ==
    /\ reservesList = [i \in Slots |-> ZeroAddress]
    /\ reservesCount = 0
    /\ id = [a \in Addresses |-> 0]
    /\ initialized = {}
    /\ active = {}

-----------------------------------------------------------------------------
(* Mutant: the first reserve is not compared with the asset.               *)
ListedMutant(asset) == id[asset] # 0 \/ reservesList[0] # ZeroAddress

(* _reserves[asset].id != 0 || _reservesList[0] == asset                   *)
Listed(asset) == id[asset] # 0 \/ reservesList[0] = asset

(* Mutant: the search for a hole goes one place too far.                   *)
HolesMutant == {i \in 0..reservesCount : reservesList[i] = ZeroAddress}

(* The places a dropped reserve would have left.                           *)
Holes == {i \in 0..(reservesCount - 1) : reservesList[i] = ZeroAddress}

HasRoom == Holes # {} \/ reservesCount < MaxReserves

(* The first hole, or else the end of the list.                            *)
FreeId == IF Holes = {} THEN reservesCount
          ELSE CHOOSE i \in Holes : \A j \in Holes : i <= j

(* Mutant: the list never grows.                                           *)
NextCountMutant == reservesCount

(* The count grows only when the reserve was appended.                     *)
NextCount == IF Holes = {} THEN reservesCount + 1 ELSE reservesCount

(* A reserve is listed and made active in one transaction; a batch is such *)
(* a step for each of its reserves, or none.                               *)
InitReserve(asset) ==
    /\ asset # ZeroAddress              \* Address.isContract
    /\ asset \notin initialized         \* ReserveLogic.init
    /\ ~Listed(asset)
    /\ HasRoom
    /\ reservesList' = [reservesList EXCEPT ![FreeId] = asset]
    /\ reservesCount' = NextCount
    /\ id' = [id EXCEPT ![asset] = FreeId]
    /\ initialized' = initialized \cup {asset}
    /\ Listed(asset)'                   \* setConfiguration, at the end
    /\ active' = active \cup {asset}

(* Mutant: the zero address is not refused.                                *)
MayConfigureMutant(asset) == Listed(asset)

(* The guard of setConfiguration, which every change of a parameter of a   *)
(* reserve goes through.                                                   *)
MayConfigure(asset) == asset # ZeroAddress /\ Listed(asset)

(* setReserveActive, for any address an admin may pass (that the reserve   *)
(* has no suppliers when it is switched off is PoolConfigurator's matter). *)
SetReserveActive(asset, on) ==
    /\ MayConfigure(asset)
    /\ active' = IF on THEN active \cup {asset} ELSE active \ {asset}
    /\ UNCHANGED <<reservesList, reservesCount, id, initialized>>

(* dropReserve always reverts.                                             *)
Next ==
    \/ \E asset \in Addresses : InitReserve(asset)
    \/ \E asset \in Addresses, on \in BOOLEAN : SetReserveActive(asset, on)

Spec == Init /\ [][Next]_vars

-----------------------------------------------------------------------------
TypeOK ==
    /\ reservesList \in [Slots -> Addresses]
    /\ reservesCount \in 0..MaxReserves
    /\ id \in [Addresses -> Slots]
    /\ initialized \subseteq Assets
    /\ active \subseteq Addresses

(* The list has no holes and no asset twice, and it is the inverse of the  *)
(* ids: the bit of an id in a user's bitmap speaks of one reserve, and the *)
(* loops that stop at reservesCount miss none.                             *)
ListIsDense ==
    /\ \A i \in Slots : reservesList[i] # ZeroAddress <=> i < reservesCount
    /\ \A i \in 0..(reservesCount - 1) :
          /\ reservesList[i] \in initialized
          /\ id[reservesList[i]] = i
    /\ \A asset \in initialized :
          /\ id[asset] < reservesCount
          /\ reservesList[id[asset]] = asset

(* The test for being listed, which cannot tell the id 0 from no id, and   *)
(* the test for having been initialized agree on every asset: no reserve   *)
(* can be initialized twice, none is refused by mistake.                   *)
ListedIsInitialized == \A asset \in Assets : Listed(asset) <=> asset \in initialized

(* "the flag will be 0 for both" inactive and invalid reserves, the        *)
(* comment mintToTreasury relies on: nothing is active that is not listed. *)
OnlyListedAreActive == active \subseteq initialized

(* A reserve keeps its id and its place for good, whatever is listed after *)
(* it: the bitmaps of the users are never reinterpreted.                   *)
IdsArePermanent ==
    [][\A asset \in initialized : /\ asset \in initialized'
                                  /\ id'[asset] = id[asset]
                                  /\ reservesList'[id[asset]] = asset]_vars
=============================================================================
