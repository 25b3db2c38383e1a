---------------------------- MODULE LiveAssumptions ----------------------------
(***************************************************************************)
(* The script check-live-assumptions: it compares what the pool holds at   *)
(* one block, and every grant of the bridge role up to it, with what the   *)
(* rounding patch takes for granted.  It reads in many calls while the     *)
(* chain goes on, and any of them may fail.                                *)
(*                                                                         *)
(* Block n is chain[n + 1].  A block is what the contracts hold after it   *)
(* and the logs of the bridge role in it; the word of a reserve is packed  *)
(* as in ReserveConfigurationMap, a set of bit positions.                  *)
(***************************************************************************)
EXTENDS Naturals, Sequences, SequencesExt, FiniteSetsExt

CONSTANTS
    Accounts,          \* who may be given BRIDGE_ROLE
    ReserveStates,     \* what a reserve may hold: word, stableDebt, unbacked
    Settings,          \* the environment variables of a run
    Unset, Invalid,    \* a variable that is absent, or not a number
    DEFAULT_LOG_STEP,
    PERCENTAGE_FACTOR,
    MaxBlock,          \* bound on the chain
    MaxListed          \* bound on the list of reserves

(* What an environment variable may hold.                                 *)
EnvNumbers == Nat \cup {Unset, Invalid}

ASSUME SettingsAssumption ==
    /\ Unset \notin Nat /\ Invalid \notin Nat /\ Unset # Invalid
    /\ DEFAULT_LOG_STEP \in Nat
    /\ \A s \in Settings : {s.block, s.from, s.step} \subseteq EnvNumbers

VARIABLES
    chain,
    settings,          \* process.env
    pc,
    targetBlock, sentinel, checks,
    start, grants, members,     \* the variables of scanBridgeRole
    exitCode,
    thrown             \* the script ended by an error

read       == <<targetBlock, sentinel, checks>>
scan       == <<start, grants, members>>
scriptVars == <<settings, pc, read, scan, exitCode, thrown>>
liveVars   == <<chain, scriptVars>>

-----------------------------------------------------------------------------
(* The chain.  The role is kept by AccessControl, which logs only a change.*)
Log(topic, account) == [topic |-> topic, account |-> account]

Granted(b, a) == [b EXCEPT !.bridges = @ \cup {a}, !.logs = Append(@, Log("RoleGranted", a))]
Revoked(b, a) == [b EXCEPT !.bridges = @ \ {a}, !.logs = Append(@, Log("RoleRevoked", a))]

RoleSteps(b) == {Granted(b, a) : a \in Accounts \ b.bridges}
                  \cup {Revoked(b, a) : a \in b.bridges}

SentinelSteps(b) == {[b EXCEPT !.sentinel = ~@]}

ReserveSteps(b) ==
    {[b EXCEPT !.reserves[i] = r] : i \in DOMAIN b.reserves, r \in ReserveStates}
      \cup (IF Len(b.reserves) = MaxListed THEN {}
            ELSE {[b EXCEPT !.reserves = Append(@, r)] : r \in ReserveStates})

(* What a block may bring: a call or two of the ACL admin, a new sentinel, *)
(* a change of one reserve or a new one.                                   *)
NextBlocks(last) ==
    LET b == [last EXCEPT !.logs = << >>]
    IN  RoleSteps(b) \cup (UNION {RoleSteps(c) : c \in RoleSteps(b)})
          \cup SentinelSteps(b) \cup ReserveSteps(b)

BlockNumber == Len(chain) - 1

Mine ==
    /\ BlockNumber < MaxBlock
    /\ \E b \in NextBlocks(Last(chain)) : chain' = Append(chain, b)
    /\ UNCHANGED scriptVars

-----------------------------------------------------------------------------
(* Mutant: blockTag is left out, and the call answers for the last block.  *)
AtMutant(n) == Last(chain)

(* A call with blockTag n.                                                 *)
At(n) == chain[n + 1]

(* provider.getLogs                                                        *)
LogsIn(from, to) == FlattenSeq([i \in 1 .. (to + 1 - from) |-> chain[from + i].logs])

getEnvNumber(name, fallback) ==
    IF settings[name] = Unset THEN fallback ELSE settings[name]

isFlagSet(word, bit) == bit \in word

(* The number with these one bits.                                         *)
Value(bits) == MapThenSumSet(LAMBDA b : 2 ^ b, bits)

readUint16(word, startBit) == Value({b \in 0..15 : startBit + b \in word})

ReserveCheck(r) ==
    [liquidationThreshold   |-> readUint16(r.word, 16),
     liquidationBonus       |-> readUint16(r.word, 32),
     stableBorrowingEnabled |-> isFlagSet(r.word, 59),
     stableDebtSupply       |-> r.stableDebt,
     unbacked               |-> r.unbacked]

badCollateralPairing(check) ==
    IF check.liquidationThreshold = 0 THEN check.liquidationBonus # 0
                                      ELSE ~(check.liquidationBonus > PERCENTAGE_FACTOR)

Fails(check) ==
    \/ check.stableBorrowingEnabled
    \/ check.stableDebtSupply # 0
    \/ check.unbacked # 0
    \/ badCollateralPairing(check)

-----------------------------------------------------------------------------
LiveInit ==
    /\ \E r \in ReserveStates :
          chain = <<[sentinel |-> FALSE, bridges |-> {}, logs |-> << >>, reserves |-> <<r>>]>>
    /\ settings \in Settings
    /\ pc = "start"
    /\ targetBlock = 0 /\ sentinel = FALSE /\ checks = << >>
    /\ start = 0 /\ grants = {} /\ members = {}
    /\ exitCode = 0 /\ thrown = FALSE

(* main().catch: process.exit(1).                                          *)
Throw ==
    /\ pc' = "done" /\ exitCode' = 1 /\ thrown' = TRUE
    /\ UNCHANGED <<chain, settings, read, scan>>

GoOn(label) ==
    /\ pc' = label
    /\ UNCHANGED <<chain, settings, exitCode, thrown>>

(* The target is the last block unless one is named.                       *)
ReadEnvironment ==
    /\ pc = "start"
    /\ LET target == getEnvNumber("block", BlockNumber)
           from   == getEnvNumber("from", 0)
       IN  IF Invalid \in {target, from} THEN Throw
           ELSE IF from > target THEN Throw
           ELSE /\ targetBlock' = target
                /\ GoOn("provider")
                /\ UNCHANGED <<sentinel, checks, scan>>

(* The first valid address: of two variables, or of the deployments.  A    *)
(* call at a block the chain has not reached is an error.                  *)
ReadProvider ==
    /\ pc = "provider"
    /\ IF ~settings.providerKnown \/ targetBlock > BlockNumber THEN Throw
       ELSE /\ sentinel' = At(targetBlock).sentinel
            /\ GoOn("reserves")
            /\ UNCHANGED <<targetBlock, checks, scan>>

ReadReserve ==
    /\ pc = "reserves"
    /\ Len(checks) < Len(At(targetBlock).reserves)
    /\ checks' = Append(checks, ReserveCheck(At(targetBlock).reserves[Len(checks) + 1]))
    /\ GoOn("reserves")
    /\ UNCHANGED <<targetBlock, sentinel, scan>>

BeginScan ==
    /\ pc = "reserves"
    /\ Len(checks) = Len(At(targetBlock).reserves)
    /\ IF getEnvNumber("step", DEFAULT_LOG_STEP) = Invalid THEN Throw
       ELSE /\ start' = getEnvNumber("from", 0)
            /\ GoOn("scan")
            /\ UNCHANGED <<read, grants, members>>

(* Mutant: the windows overlap by a block, or never move.                  *)
NextStartMutant(step) == start + step

NextStart(step) == start + step + 1

isGrant(log) == log.topic = "RoleGranted"

(* The accounts given the role, though some may have lost it again.        *)
GrantsOf(logs) == {log.account : log \in {l \in ToSet(logs) : isGrant(l)}}

Applied(held, log) ==
    IF isGrant(log) THEN held \cup {log.account} ELSE held \ {log.account}

(* The role after these logs.                                              *)
Replay(held, logs) ==
    LET after[i \in 0 .. Len(logs)] ==
            IF i = 0 THEN held ELSE Applied(after[i - 1], logs[i])
    IN  after[Len(logs)]

(* One window: the accounts granted, and those not revoked since.          *)
ScanWindow ==
    LET step   == getEnvNumber("step", DEFAULT_LOG_STEP)
        end    == IF start + step < targetBlock THEN start + step ELSE targetBlock
        logs   == LogsIn(start, end)
    IN  /\ pc = "scan"
        /\ start <= targetBlock
        /\ grants' = grants \cup GrantsOf(logs)
        /\ members' = Replay(members, logs)
        /\ start' = NextStart(step)
        /\ GoOn("scan")
        /\ UNCHANGED read

Failed ==
    \/ settings.requireZeroSentinel /\ sentinel
    \/ grants # {}
    \/ members # {}
    \/ \E check \in ToSet(checks) : Fails(check)

Judge ==
    /\ pc = "scan"
    /\ start > targetBlock
    /\ pc' = "done"
    /\ exitCode' = IF Failed THEN 1 ELSE 0
    /\ UNCHANGED <<chain, settings, read, scan, thrown>>

Script == ReadEnvironment \/ ReadProvider \/ ReadReserve \/ BeginScan \/ ScanWindow \/ Judge

(* A call to the node fails.                                               *)
LoseNode == pc # "done" /\ Throw

LiveNext == Mine \/ Script \/ LoseNode

(* The process goes on for as long as it lives; no block is promised.      *)
LiveSpec == LiveInit /\ [][LiveNext]_liveVars /\ WF_liveVars(Script)

-----------------------------------------------------------------------------
(* What the contracts hold, read with their own tables.                    *)
Packing == INSTANCE ReserveConfigurationMap
               WITH data <- {}, Samples <- {}, MaxSetFields <- 0

Sound(r) ==
    LET threshold == Value(Packing!NumberIn(r.word, "liquidationThreshold"))
        bonus     == Value(Packing!NumberIn(r.word, "liquidationBonus"))
    IN  /\ ~Packing!FlagIn(r.word, "stableBorrowing")
        /\ r.stableDebt = 0 /\ r.unbacked = 0
        /\ IF threshold = 0 THEN bonus = 0 ELSE bonus > PERCENTAGE_FACTOR

GrantedIn(blocks) ==
    {a \in Accounts : \E n \in blocks : Log("RoleGranted", a) \in ToSet(chain[n + 1].logs)}

Assumptions(n, from) ==
    /\ settings.requireZeroSentinel => ~chain[n + 1].sentinel
    /\ GrantedIn(from .. n) = {}
    /\ \A r \in ToSet(chain[n + 1].reserves) : Sound(r)

(* A check passes exactly when it was not cut short, wherever it was, and  *)
(* the assumptions held at the block it names, whatever was mined while it *)
(* read.  One that was not cut short names every grant since the first     *)
(* block it looks at and, if none came before that, exactly the bridges of *)
(* that block: a pass then leaves no bridge.                               *)
VerdictIsOfTarget ==
    pc = "done" =>
        LET from == getEnvNumber("from", 0)
        IN  /\ exitCode = 0 <=> ~thrown /\ Assumptions(targetBlock, from)
            /\ ~thrown =>
                  /\ grants = GrantedIn(from .. targetBlock)
                  /\ GrantedIn({n \in 0 .. targetBlock : n < from}) = {} =>
                         members = chain[targetBlock + 1].bridges

(* A check that is started ends, for every log step, zero included, and    *)
(* also when the target it was given is ahead of the chain.                *)
CheckEnds == (pc = "start") ~> (pc = "done")
=============================================================================
