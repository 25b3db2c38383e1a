# A TLA+ specification of the Neverland lending core

These modules specify the contracts of this repository (`contracts/protocol`, an
Aave core-v3 1.19.3 with directed rounding, without stable borrowing and without
bridges), and the program that tests them from outside: the scenario engine with its
oracle, the expected events, and the script that checks a live deployment
(`test-suites/helpers`, `scripts/rounding`). TLC checks them on small instances, and
TLAPS proves the most important facts about the contracts for every value of the
constants. Paths below are relative to `contracts/protocol/` unless they begin with
`test-suites/`, `scripts/` or `helpers/`.

## 1. The system

| part | state it keeps | operations | talks to |
|---|---|---|---|
| Pool and its logic libraries (`pool/Pool.sol`, `libraries/logic/`) | per asset: indexes, rates, time of the last settlement, accrued treasury share, isolation debt; per user: two bitmaps and an eMode category; the categories | supply, withdraw, borrow, repay, repayWithATokens, setUserUseReserveAsCollateral, liquidationCall, setUserEMode, mintToTreasury, finalizeTransfer, flash loans | tokens, strategy, oracle |
| Token ledgers (`tokenization/`) | scaled balances and supplies, allowances, the underlying held by the aToken | mint, burn, transfer, mintToTreasury, transferOnLiquidation, approveDelegation | ask the pool for the index; call back `finalizeTransfer` |
| Rate strategy (`pool/DefaultReserveInterestRateStrategy.sol`) | constants | calculateInterestRates | called at the end of every call on a reserve |
| Configurator (`pool/PoolConfigurator.sol`) | none of its own | one setter per parameter | reads and overwrites a reserve's configuration word in the pool |
| Arithmetic (`libraries/math`, `libraries/helpers/TokenMath.sol`) | none | rounded multiplication, division, interest | everything |
| Bitmaps (`libraries/configuration`) | one word per user, one per reserve | setters, queries | everything |
| Listing (`PoolLogic.executeInitReserve`, `libraries/logic/ConfiguratorLogic.sol`) | the list of reserves, their ids, the count | initReserves, dropReserve (always reverts) | the loops of the pool and the bitmaps rely on it |
| Registry (`configuration/PoolAddressesProviderRegistry.sol`) | two mappings, a list and its indexes | register, unregister | stands alone |
| Scenario oracle (`test-suites/helpers/utils/calculations.ts`, `wadraymath.ts`) | the deployed market's parameters | one expected reserve and one expected user per call | given what was read before a call |
| Scenario engine and actions (`test-suites/helpers/scenario-engine.ts`, `actions.ts`, `utils/helpers.ts`) | the story, the data read before and after a call, three timestamps | read, call, advance the time, read again, compare | the pool through a node, the oracle |
| Event expectations (`test-suites/helpers/utils/tokenization-events.ts`) | none | the events a receipt must hold | the tokens |
| Live check (`scripts/rounding/check-live-assumptions.ts`) | block, reserves read so far, window of the scan, accounts seen | read the environment, the provider, each reserve, the role's logs; verdict | a chain that goes on, through a node |
| Oracle, sentinel, ACL, addresses provider, proxies, incentives, L2 encoding, data provider | small | lookups, initialisation | around the pool |

A call is one EVM transaction: it runs alone and to its end, or reverts and changes
nothing. There is no concurrency inside a call (except the callback of a flash
loan); what interleaves, in any order, are the calls of different users, of
liquidators and of the admins, the reports of the oracle and the passing of time.
The programs outside the chain are the opposite: an action of a story and a live check
are conversations of many calls, between which blocks are mined, time is advanced, and
any call may fail.

What is hard about this code, and what makes each part correct:

- *Rounding.* Nothing is stored in underlying: balances are scaled by an index that
  grows, and every call converts back and forth with a direction of its own. A
  reserve is correct if no call, in any order and at any index, takes value out of
  it, if what the treasury and the suppliers earn is covered by what debtors owe,
  and if leaving completely leaves nothing behind.
- *Summaries that must agree with balances.* Bitmaps say who owes and who has
  collateral, supplies say what balances add up to, rates say what the usage is.
  Each call decides for itself, from rounded values, whether a bit changes, and
  computes rates before the funds move.
- *Promises over a lifetime.* Isolated collateral is the only collateral, siloed
  debt the only debt, debts of a user in a category are in that category, a user
  is healthy after every call: half a dozen calls each keep a part of them, with
  admins changing the parameters in between.
- *A reading that is old.* A story reads, calls and reads again in three different
  blocks, and its oracle must use the right one of three timestamps in each formula; the
  live check must judge one block while the chain goes on. Both write the contracts'
  formulas and bit positions a second time.
- *Remembered indexes.* Each user's tokens remember the index of the last touch, and the
  next call's events are computed from it.
- *Boundaries.* The debt of one unit, the seizure of zero, the fee larger than what
  is left, the last scaled unit, the top bits of a word.

`PROJECT.json` lists every hazard at its line, with the properties that guard it.

## 2. The modules

```
RayMath            rounding, token conversions, interest
  PoolStorage      the variables, their types, bits and balances
    ReserveLogic     settling a reserve, treasury accrual, rates
      GenericLogic     account data, health, isolation, eMode lookups
        SupplyLogic  BorrowLogic  LiquidationLogic  PoolLogic  PoolConfigurator
          Pool             Init, the calls with their inputs, oracle, clock, Spec
            PoolProperties   invariants and action properties
              MCPool           values for TLC
              Pool_proofs, PoolInvariants_proofs, PoolValue_proofs   (with RayMath_proofs)
              FlashLoan        calls in flight around the pool's own calls
                MCFlash  Flash_proofs
UserConfiguration    the user's word, bit by bit    implements  UserSets
ReserveConfigurationMap   a reserve's word          implements  ReserveFields
PoolAddressesProviderRegistry                       implements  ProviderRegistry
  MCRegistry
UserConfiguration, PoolAddressesProviderRegistry
  Encodings_proofs     what is proved about these two
ReservesList         the list of reserves
  MCReservesList
ReservesList, ReserveConfigurationMap, LiveAssumptions (below)
  Reserves_proofs      what is proved about these three

BigNumberMath        the tests' own rounding
  Calculations         interest, balances, rates
    ExpectedData         the expected reserve and user of each call
Pool
  ScenarioActions      what an action reads, expects and compares    (INSTANCE ExpectedData)
    ScenarioEngine       a story as a conversation with the pool
    StableExpectations   what can be said of loans no story can make
      MCScenario
RayMath
  ScaledTokens         both tokens with remembered indexes, allowances, events
    TokenizationEvents   the events expected of each call
      MCTokens
    Tokens_proofs
LiveAssumptions      the live check and its chain    (INSTANCE ReserveConfigurationMap)
  MCLive
```

`FlashLoan` composes the pool with itself: between the two halves of a flash loan, every
call of the pool may happen. `ScenarioEngine` composes the pool with its test oracle, two programs written apart;
`TokenizationEvents` does the same for receipts, and `LiveAssumptions` reads a reserve's
word with the script's bit positions and judges it with the tables of the contracts.

### How state corresponds

`reserve[a]` is `DataTypes.ReserveData` for the asset `a`, `config[a]` its decoded
configuration word, `eModeCategories` the categories. `aBalance`, `aSupply`,
`vBalance`, `vSupply` are the *scaled* balances and supplies of the two tokens,
`cash[a]` the underlying the aToken contract holds and `wallet[a]` what the accounts
hold. `borrowAllowance` is the credit delegation of the debt token.
`usingAsCollateral[u]` and `borrowing[u]` are the two halves of the user's bitmap as
sets (`UserConfiguration`, where a word is the set of the positions of its one bits,
shows that the word implements such sets), `userEMode[u]` the category of the user. `price` and `now` are the world outside.

### How actions correspond

One action per call, and the whole call: settling the reserve (`updateState`), the
token operations, the bits, the rates, the isolation debt and the checks are in one
step, with the guards in the action. A revert is a step that does not happen.
Arithmetic that would underflow in checked Solidity is a guard (`Burnable`,
`amount <= cash[a]`). `ReserveCache` disappears: `UpdatedReserve(a)` is the reserve
after `cache` and `updateState`, and where the code writes one reserve twice (a
liquidation within one asset) the second write is computed from the result of the
first. Parameters that say "everything" are `MAX_UINT`.

A flash loan is the exception: its receiver runs in the middle of the call. `FlashLoan`
takes it apart into a step that lends (`FlashLoanCall`, `FlashLoanSimple`), steps of the
receiver (any `UserCall`, or another loan on top), and one step `Return` for each item of
the call: the settlement and rates of an item returned, or the debt of one that is kept
(`ExecuteBorrow` without releasing anything). `loans` is the stack of calls in flight with
what they still have to take back, and what each read before the callback (the amounts and
the premium). Admins, oracle and clock wait until it is empty. When a step of a transaction
is impossible the whole transaction reverts; such a behaviour stops with the loan in flight
and says nothing about the chain, but its states are states the receiver can see.

| action | code |
|---|---|
| `Supply`, `Withdraw`, `SetUserUseReserveAsCollateral` | `SupplyLogic.executeSupply`, `executeWithdraw`, `executeUseReserveAsCollateral` with their validations |
| `Transfer` | `AToken._transfer` followed by `SupplyLogic.executeFinalizeTransfer`; the pool's caller is then the aToken, which holds no role |
| `Borrow`, `Repay`, `RepayWithATokens`, `ApproveDelegation` | `BorrowLogic`, `VariableDebtToken.mint/burn`, `DebtTokenBase` |
| `LiquidationCall` | `LiquidationLogic.executeLiquidationCall`, both ways to be paid |
| `FlashLoanCall`, `FlashLoanSimple`, `Return` | `FlashLoanLogic.executeFlashLoan`, `executeFlashLoanSimple`, `_handleFlashLoanRepayment` |
| `MintToTreasury`, `SetUserEMode` | `PoolLogic`, `EModeLogic` |
| `SetReserveActive` … `SetAssetEModeCategory`, `SetReserveFlashLoaning`, `UpdateFlashloanPremiumTotal` | one per setter of the configurator |
| `SetPrice`, `Tick` | the feeds behind the oracle, the block timestamp |
| `Register`, `Unregister` | the registry, including the list |
| `Begin`, `Wait`, `Succeed`, `Revert`, `ReadAgain`, `Compare`, `ThrowInvalid`, `NextStory` | the phases of an action of a story: data read, blocks and time travel, the call (`PoolCall`, with one disjunct per action name, each the pool's own action), data read again and expected data computed, `expectEqual` |
| `Accrue`, `Supply` … `ApproveDelegation` (`ScaledTokens`) | the pool serving larger indexes; one action per entry point of the two tokens, with the events in the order they are emitted |
| `ReadEnvironment`, `ReadProvider`, `ReadReserve`, `BeginScan`, `ScanWindow`, `Judge`, `LoseNode`, `Mine` | the script's calls to the node in their order, one window of logs at a time; an error of any of them; the chain |

`Treasury` is an account that receives aTokens and makes no call. A wallet of
underlying belongs to an account; underlying that moves without a call (donations to
the aToken) is left out, which is why `BooksBalance` can be an equation.

The external feeds report any price from a set and never zero; the fallback of the
oracle and the sentinel are not modelled.

## 3. What the runs check

The runs `MCAccounting`, `MCRisk`, `MCExclusion`, `MCFlash` and `MCZeroSeizure` use small
units: a ray and a wad are 1000, a percentage factor is 100, a year is two ticks. So an
index of 1.3 is 1300, a conversion rounds at almost every call, and the interest of a tick
is a matter of units. Indexes start at 1.3 and 1.7, those of a reserve that has been used
and emptied, because at an index of one nothing rounds. Amounts are up to a dozen units.
Only `Assets`, users and the choices of the callers differ from run to run; every action
is whole in each.

| run | question | bounds |
|---|---|---|
| `MCAccounting` | Do the books, the rates, the indexes and the equity of one reserve survive any order of supply, withdraw, borrow, repay, repayment with aTokens, treasury mints and a change of the reserve factor, as time passes? | one asset, two users (symmetric), clock to 3 |
| `MCRisk` | Does every call keep users healthy, and does liquidation (for underlying or aTokens, across assets and within one, with the fee and clipped by the collateral) keep the books and can whatever an unhealthy user owes be liquidated? | two assets, the price of the collateral 600, then 190 or 54 |
| `MCExclusion` | Do isolated collateral, siloed debt and eMode membership survive supplies on behalf, transfers, liquidations, and admins who change ceilings, flags, categories and their parameters while users borrow? | two assets, two users, one category with a feed of its own |
| `MCScenario` | Is what the contracts hold after a call what the oracle derives from the reading before it, in every order of a story's actions? Does a delegatee pay for what it draws? | one asset, two depositors, one borrower and its delegatee, clock to 7, up to one extra tick of time travel per action |
| `MCTokens` | Do receipts hold the events the tests expect, do the events add up to the balances, and does a spender pay for what it moves, whatever interest accrued since each user's last call? | two users (symmetric), three values of each index, up to five scaled units |
| `MCLive` | Is the verdict of the live check that of the block it names, and does every check end? | chain of three blocks with up to two log entries each, two reserves of six contents, nine environments |
| `MCFlash` | Whatever a receiver does with funds it must return or keep as a debt, and whatever the configurator set before: are the rates fresh when the funds are back, is no value lost on the way, can collateral that counts be seized, and is an inactive reserve empty? | two assets, one of them administered, one user who is an authorised borrower and its own receiver, loans nested two deep, a loan of two items (one returned, one kept) and a loan of one, a premium of half the amount |
| `MCZeroSeizure` | *violation*: does a liquidation that seizes nothing leave the liquidator's bits alone? | two assets of coarse value |
| `MCUserConfiguration` | Do the bit tricks of the user's word say what their names say? | five reserves, the last on the top bits of the word |
| `MCRegistry` | Do list and indexes of the registry agree, and implement a set of providers with their ids, after any sequence? | four providers and the zero address, three ids and the invalid id zero |
| `MCReserveConfiguration` | Does any value of any parameter of a reserve's word leak into another one? | all nineteen parameters, at most two of them set at a time, values of no, one sample, the top, all and one bit too many |
| `MCReservesList` | Do ids, list and count of the reserves agree, and can anything be initialised twice or configured without being listed? | four assets and the zero address, room for three |

Why the bounds are enough: the hazards are rounding boundaries and orders of a few
calls. Each needs one or two users (an actor and a victim or a beneficiary), one or
two assets (collateral and debt) and amounts around a few scaled units at an index
with a fraction; `MCAccounting` alone visits reserves with zero to three ticks of
interest at every interleaving. Each property is violated, under the bounds of its
run, by a plausible mistake in one definition (a rounding direction, a dropped guard,
a missing reset); those variants stand beside the definitions, named `...Mutant`.

`MCScenario` has the units of the pool (a ray of 10000, a wad of 1000) so that the tests'
tolerances keep their meaning: three units for amounts and indexes, and one wad unit, ten
ray units, for rates and ratios. Amounts are in the thousands, and the indexes start at
1.1 and 1.2. The year has 20 ticks and the clock stops at 7 (`MaxTime`), which is the only
reason the run may stop (`CHECK_DEADLOCK FALSE`); that is enough for stories of up to six
actions, each with its reading, its call and its second reading at different times.
`CoveredSpec` starts an action only where `OracleCovers`: the oracle itself is not exact
elsewhere (below). `MCTokens` runs with a ray of 10: every conversion rounds. Its two
tokens share no variable but the receipt, so `OneToken` explores them one after the other
(a constraint that loses nothing, as the properties speak of one token or one allowance at
a time), and `WithoutReceipt` leaves the last receipt out of the state, on which no guard
depends; the properties are about steps and see it. It stops at the largest indexes and
balances. In `MCLive` the default log step is 1, so that a scan takes one to three
windows, and the environments cover the defaults, the step zero, a named target behind and
ahead of the chain, a first block after the target, numbers that are none, and an unknown
provider. A finished script stays finished, hence no deadlock check.

In `MCFlash` a second user would add nothing the receiver cannot do itself, since its calls
are those of anyone; a depth of two is where a loan is lent, settled and rated within
another one on the same reserve, and where the outer one's items are settled after it. The
loan of two items pays no premium (the borrower is authorised), the simple one does. A
behaviour that cannot complete its transaction stops, hence no deadlock check.

`LiveSpec` assumes weak fairness of `Script`, the script's own next call: the process goes
on while it lives. Nothing is assumed of the chain (`Mine`) nor of the node failing
(`LoseNode`), which may happen at any call or never. Under it every check ends
(`CheckEnds`), for any log step. Elsewhere no fairness is assumed and no liveness stated:
nothing in the contracts schedules a call, users, liquidators and admins call when they
like, and a revert leaves the state as it was. What must be possible is stated as an
invariant instead (`UnhealthyCanBeLiquidated`).

### The properties

- `EquityNeverFalls`: at one instant, no call lowers cash plus debt less what is owed to
  aTokens and treasury. Exact, in rays.
- `InterestIsShared`: over time, what suppliers and the treasury get is covered by the
  interest of the debtors, up to two terms that the property states for every clock.
  `SharingDust` adds up the roundings one by one: rates are computed from the debt rounded
  up, the treasury's share, the rates and the indexes are rounded half up. `UnbackedInterest`
  is what a reserve pays that owed more than it held together (none, in a reserve that is
  solvent). Without them the statement is false.
- `RatesFresh`, `BooksBalance`, `BorrowingBitsMatchDebts`: rates, supplies and bits agree
  with the balances in every state.
- `IndexesNeverFall`, `TreasuryGetsItsAccrual`, `FullExitLeavesNothing`,
  `BitDropsWithLastUnit`: what a step may not do.
- `HealthyStaysHealthy`: with prices, time and parameters standing still, nobody's call
  makes a healthy user liquidatable, the liquidator's call on another user included.
- `LiquidationPaysItsWay`: what a liquidator takes is worth what it pays and the bonus. It
  speaks of liquidations that go through; whether they can is `UnhealthyCanBeLiquidated`:
  what an unhealthy user owes is not stuck behind the close factor, however little it is, and
  for every offer and every collateral the code charges no more than the offer, and takes a
  seizure and a fee, each rounded up, that fit the balance. A fee that was not limited by
  what the seizure leaves would exceed it (the mutant) and revert the call.
- `IsolationIsKept`, `SiloedDebtIsAlone`, `DebtsStayInCategory`,
  `DelegationIsSpent`, `CollateralStaysSeizable`, `InactiveReserveHasNoSupply`: the promises
  of the modes, of delegation and of the configurator. Isolation and seizability are stated
  as what a step keeps for a user whose collateral bits stand for aTokens
  (`BitsHaveTokens`), not as invariants: the bit of the finding below stands for none, the
  admins look for aTokens before they give an asset a ceiling or take its threshold, and
  after a zero seizure both invariants are indeed false. `DebtsStayInCategory` allows an
  admin to move an asset away from under its debtors, which the code does, and nothing else:
  neither a user who is already outside nor one who enters a category gets such a debt.
- `BitDropsWithLastUnit` and `LiquidationPaysItsWay` speak of every user but the treasury:
  if the treasury itself were liquidated, the fee would come back to it in the same call.
- `SettledRatesAreFresh`: an asset of which nothing is in flight has the rates its storage
  gives, whatever the receiver borrowed, repaid, withdrew or flash-borrowed while it held the
  funds. `LentEquityNeverFalls`: with funds lent counted as assets until they are back, no step
  before, within or after a callback takes value out of a reserve, and the treasury is never
  credited more than the premium that came in.
- `ListIsDense`, `ListedIsInitialized`, `OnlyListedAreActive`, `IdsArePermanent`: an id is one
  reserve for good, and the zeros an unwritten mapping reads are not taken for entries.
- `ReadsBack`, `ImplementsFields`: three tables of constants (masks, positions, largest
  values) fit together; two parameters at a time are enough because a setter only touches
  the bits of one and a leak shows in whichever other one is read.
- `GettersTellTheSets`, `ImplementsSets`: the setters of the user's word toggle one
  member of one of two sets, and the getters, the tricks `n & (n - 1)` and `~(n - 1)` with
  their wrap at zero and at the top bit included, answer questions about those sets.
  `ListIsIndexed`, `ImplementsRegistry`: the registry against a set of providers with ids.
  An id belongs to one provider at a time, unless the zero address was given it before
  (below): `zeroIds`, a history variable that no guard reads, holds the ids it was given.
- `ReserveAsExpected`, `UserAsExpected`: two programs written apart, with different rounding,
  agree on the reserve and on the user after every call of every story, field by field and
  within the tests' tolerance, although reading, call and second reading are at three times.
- `EventsAsExpected`: every receipt holds the events the tests look for.
  `EventsTellTheChange` does not rely on the tests: whoever adds up the `Transfer` events
  keeps every balance as of its last touch, a transfer erring by less than a scaled unit.
  `TransferFromIsPaid`: what the owner loses is paid for in allowance, up to one scaled
  unit.
- `VerdictIsOfTarget`: the script exits with zero exactly when it was not cut short by an
  error, at whichever call, and the assumptions held at the block it names, judged with the
  contracts' own bit tables, whatever was mined while it read. `CheckEnds`: it always ends.

`StableExpectations` covers the part of the oracle no story can compare, because stable
loans and the bridge are refused: named assumptions, evaluated by TLC with `MCScenario`
over reserves with one borrower, say that the expected reserve and the expected user tell
of the same loan after a stable borrow, repayment, swap and rebalance, that a swap keeps
what is owed, and that the fee of backing is shared without a rest. They are tests over
bounded inputs, not properties of behaviours.

### Where code and comments disagree

1. `LiquidationLogic._liquidateATokens` is documented to activate collateral "as in
   standard transfers". A standard transfer of zero changes nothing; a liquidation whose
   seizure rounds to zero marks the liquidator as using a collateral of which it has no
   unit (`MCZeroSeizure`). The bit costs the liquidator nothing in the account data (its
   value is zero), but it counts when isolation is decided.

Remarks on the registry and the oracle, without runs of their own:

- The registry takes an id as free when its provider reads as the zero address, and the zero
  address can itself be registered, since the code checks only the id. After
  registering the zero address and a provider p under id 1, removing the zero address clears
  what `_idToAddressesProvider` holds for id 1, and a third provider can be given id 1
  too, next to p, although `IPoolAddressesProviderRegistry.sol:49` promises that "the id must
  not be used by an already registered PoolAddressesProvider". The model and the proofs
  include the zero address, and the abstract registry says what is left of the promise: an id
  is given twice only if the zero address was given it once.
- `actions.ts:423` expects a delegatee's allowance to fall by the amount borrowed;
  `VariableDebtToken` takes the growth of the rounded debt (1001 for 1000 at an index of
  1.2), capped by the allowance. In the one story kept here that borrows for another the
  index is still one; `MCScenario` delegates the amount that is drawn, where the cap makes
  the two agree.
- The oracle is exact only for stories like those kept in the repository, and
  `OracleCovers` says which. The scaled debt expected of a borrower starts from the
  reserve's, not the user's (`calculations.ts:675`); after a deposit the principal of the
  stable debt is assigned the variable debt; the expected user of a collateral switch
  carries no interest; a repayment above the debt is not capped; the average rate of a
  rebalance mixes a change in rays with a total in wads, which shows with two borrowers
  only; a swap to variable takes the stable debt as it was read. The wallet of a third
  party is not read.
- The live check tests the pairing of threshold and bonus, which the README of the
  repository (`README.md:65`) does not list among its assumptions; its test for active
  members adds nothing to the one for grants, unless it is read as a list for the
  operator.

One remark that is not a disagreement: `executeBorrow` sets the borrowing bit again
when the debt was not zero but the bit was missing. `BorrowingBitsMatchDebts` says this
repair is never needed in the states the code reaches by itself.

## 4. What is proved

All proofs hold for every value of the constants that satisfies the named assumptions:
`UnitsAssumption` (`RayMath`), `StorageAssumption` (`PoolStorage`), `StrategyAssumption`
(`ReserveLogic`), `SuppliersAssumption` (`GenericLogic`), `LiquidationAssumption`
(`LiquidationLogic`), `PoolAssumption` (`Pool`: types of the inputs, indexes of at least
one ray at the start, parameters in the ranges the configurator enforces) and
`FlashAssumption` (`FlashLoan`: types of the inputs) for the pool;
`ListingAssumption`, `IdsAssumption`, `TokensAssumption` and `SettingsAssumption` for the
list, the registry, the tokens and the live check, and
`CountAssumption` for the user's word. In
particular they hold for any number of users and assets, any prices and any clock.

- `TypeCorrect` (`Pool_proofs`): `Spec => []TypeOK`. The content is that nothing
  underflows: `TypeOK` is inductive as it stands, and each call needs its own argument why
  what it subtracts is there: the guard that checks it, a burn bounded by the balance, the
  treasury share bounded by the interest, the fee bounded by what the seizure leaves
  (`FeeFits`), the debt that covers a seizure clipped by the collateral.
- `IndexesOnlyGrow` (`Pool_proofs`): `Spec => IndexesNeverFall`, from the same lemmas: every
  successor reserve is one that has been settled (`SettledReserve`), with growth factors of
  at least one ray, and rounding half up never takes a product below a factor.
- `BitsAreDebts` (`PoolInvariants_proofs`): `Spec => []BorrowingBitsMatchDebts`. The step
  that matters is repayment and liquidation: the bit is cleared when the *rounded* debt that
  remains is zero. The debt conversion rounds up, so a positive scaled debt is a positive
  debt (`NoDebtIsHidden`), and paying the whole rounded debt burns the whole scaled one
  (`DrainTakesAll`), so both directions follow, with the type invariant as the
  strengthening (an index is at least one ray).
- `InactiveReservesAreEmpty` (`PoolInvariants_proofs`):
  `Spec => []InactiveReserveHasNoSupply`. Only calls on an active reserve mint or burn
  (`mintToTreasury`, open to anyone, skips inactive ones), and only a reserve without supply
  and without accrual is switched off. The type invariant is all the strengthening needed.

- `FlashTypeCorrect`, `FlashBitsAreDebts`, `FlashInactiveReservesAreEmpty` (`Flash_proofs`): the
  type invariant and both invariants above under `FlashSpec`, for any depth of nesting and any
  lists of items. A step of a receiver is a step of `Next`, so the lemmas of the pool apply to
  it with loans in flight; `LendSound`, `RepaymentSound` and `ReturnSound` add the two halves.
  The strengthening `LoansOK` says that a call in flight is of accounts and never without
  items; an item that is kept is `ExecuteBorrow`, proved once for both of its callers.
- `ListStaysDense`, `GuardsAgree`, `OnlyListedStayActive`, `IdsStay` (`Reserves_proofs`, from
  `ListingAssumption`): the properties of the list, for any number of assets and any maximum.
  The strengthening adds that assets not listed have id 0; on such a list the search for a hole
  finds none (`DenseAppends`), so every reserve is appended.
- `WordsReadBack`, `WordImplements` (`Reserves_proofs`): the packed configuration word gives
  back every valid value that is written, and implements nineteen independent parameters, for
  any values the setters are called with (`Samples`) and any number of parameters set
  (`MaxSetFields`). It rests on two facts about the three tables of constants: each mask
  clears exactly the bits from its start position up to the width its largest value allows
  (`TablesAgree`), and no two parameters share a bit (`FieldsAreApart`). Then a shifted value
  fits its own bits (`ShiftedFits`) and a setter leaves all others (`SetterReplaces`).
- `VerdictsAreSound` (`Reserves_proofs`): a verdict of the live check is that of the block it
  names, for any chain, settings and length of the windows, and however the chain goes on
  while the script reads, and without a verdict the exit code is one. The invariant `LiveInv`
  says that blocks are never rewritten and that their logs tell the changes of the role
  (`ChainOK`); that what has been read is what the target block holds (`ReadingOK`); and that grants and members are those of the blocks
  scanned so far (`ScanningOK`), which needs that windows join without a gap or an overlap.
  Members are a replay of logs: `ReplayConcat` and `WindowIsRead` say that replaying window by
  window is replaying block by block. `ChecksAreSound` says that the 16 bits the script reads
  are the bits the tables of the contracts name. Members are exact only if no grant came
  before the first block of the scan, and the property says so.
- `ListStaysIndexed`, `RegistryImplements` (`Encodings_proofs`): the list of providers and its
  indexes are inverses of each other, also when the provider that is removed is the last one,
  and the registry implements a set of providers with ids of their own but for those the zero
  address was ever given. Any address may register, the zero address included. The
  strengthening adds that a provider with an id outside of `zeroIds` is the one the id leads
  back to; the refinement follows from the same invariant.
- `UserConfigTypeCorrect`, `WordImplementsSets`, `GettersTellSets` (`Encodings_proofs`): for
  any number of reserves, the user's word implements a set of collaterals and a set of debts,
  and every getter tells what its name says of them. The setters reduce to one fact: no two
  reserves and no two kinds share a bit (`BitsOfReserves`). The getters rest on what the
  borrow of `n - 1` does below the lowest bit (`LowestIsLeast`, `LowestBitTricks`), on the
  loop that shifts that bit down two at a time (`ShiftsCounted`), and on a mask cutting one of
  the sets out of the word (`MasksCutSets`).
- `TransferFromPays` (`Tokens_proofs`): for every index, amount and allowance that is not the
  infinite one, a `transferFrom` lowers the allowance by at least the amount, and the owner's
  balance falls by at most one scaled unit more than that. The content is arithmetic: the
  difference of two balances rounded down, against an amount rounded up to scaled units.
- `EventsAreAsExpected`, `EventsTellBalances` (`Tokens_proofs`): the events of every call
  contain what the tests look for, and the Transfer events tell what balances change by. The
  strengthening is `BothLedgersOK`: both ledgers are unsigned and no index is below a ray. For
  the first, the tests' integer roundings are shown to be the tokens' (`TestsRoundAlike`,
  where the usual `(a + b - 1) / b` is rounding up). For the second, the sum over a receipt
  that is put together is that of its parts (`NetConcat`); mints and burns give exactly what
  is left minus what was told (`MintsGive`, `BurnsGive`), while a transfer names the amount
  and moves a scaled amount rounded up, which is where the scaled unit comes from
  (`TransferLoss`, for both sides).

- *Equity, rates and accrual* (`PoolValue_proofs`): `EquityIsKept`, `RatesStayFresh` and
  `AccrualIsPaid` prove `EquityNeverFalls`, `RatesFresh` and `TreasuryGetsItsAccrual`. They
  follow from one fact per reserve and step (`FairStep`, proved for every call in
  `NextIsFair`): the reserve is left alone (`Idle`); or it is settled as of now, rated for
  the cash and debt it holds afterwards, and what comes in is worth what goes out at the
  settled indexes (`Settled`, `FairExchange`); or its treasury is paid. The exchange is fair
  because each conversion rounds for the pool (`RoundingFavoursPool`), including the second
  write of a liquidation within one asset. The instant matters: settling again within it
  changes nothing (`SettledStays`), and that is why equity before and after can be compared.
- *Interest* (`PoolValue_proofs`): `InterestStaysShared` proves `InterestIsShared` for every
  clock, every unit and every strategy. The strengthening is `EarnsByRates`: a reserve earns
  nothing, or by the rates of the cash, the debt and the reserve factor it has now, since
  every call that changes them settles and rates in the same step (`NextIsFair` again) and
  the first call on a new reserve is the one that rates it. What is left is arithmetic. The
  liquidity rate is the borrow rate times utilisation times the suppliers' share
  (`SuppliersRate`), and utilisation times supply is the debt, so what suppliers earn in a
  span of time is at most their share of simple interest on the debt (`IncomeIndexAtMost`);
  debts grow by at least simple interest, because they are compounded
  (`DebtIndexCovers`); and the treasury is credited at most the rest (`TreasuryAtMostShare`).
  Each rounding on the way is one summand of `SharingDust` (`SharesAdd`). `EarnsByRates`
  is why the reserve factor must be stored only after the reserve was settled.
- *Exits and liquidations* (`PoolValue_proofs`): `ExitIsComplete`, `BitsDropInTime`
  and `LiquidationsArePaid` prove `FullExitLeavesNothing`, `BitDropsWithLastUnit` and
  `LiquidationPaysItsWay`. The content is which calls can lower a balance at all, and that
  the comparison each makes, of amounts or of scaled units, tells the last unit.
  `UnhealthyIsLiquidatable` proves `UnhealthyCanBeLiquidated` from the type invariant and
  `BorrowingBitsMatchDebts`: a bit stands for a debt, and the rule for debts that are too small
  to be halved applies exactly when the half would burn nothing (`FullOfferBurns`); a
  collateral that limits the seizure pays for no more than the debt it fell short of, though
  its price is rounded down and then up (`NeedAtMostCover`); and what is worth at most a balance
  is, rounded up to scaled units, still in it (`WorthIsInBalance`), which leaves the fee what
  the code limits it to (`FeeFits`).
- *Health* (`PoolValue_proofs`): `HealthIsKept` proves `HealthyStaysHealthy`, for every user
  and whoever makes the call. Healthy means that the threshold-weighted collateral covers the
  debt in base currency, and three arguments share the work. Who loses collateral either is
  the account whose position the call checks (`WeakenedIsChecked`) or was unhealthy when it
  was liquidated. Everybody else keeps collateral and debt, and at one instant a settlement
  moves no index (`IndexesStay`), so nobody is worth less than before. A borrower is checked
  against the average LTV of the collateral, and that covers the thresholds
  (`WithinLtvIsCovered`) because no asset and no category lends more than its threshold
  (`LtvBelowThreshold`, part of `SoundParameters`); the debt that is checked
  counts the asset that is borrowed as the mint will leave it, rounding and all
  (`DebtAfterBorrow`). The values are sums over a user's reserves, compared summand by
  summand (`SumGrows`).
- *Sums* (`PoolInvariants_proofs`): `BooksStayBalanced` proves `BooksBalance` for any finite
  set of accounts. The totals are folds of the community modules; that a fold over a finite
  set takes out one element at a time is proved from the definition of the fold, by
  well-founded induction on the cardinality of the subsets of one fixed set (`SubsetInduction`
  to `SumUpdate`), which needs no operator as a parameter. Credits and debits then move one
  summand. This is what `IsFiniteSet(Users)` and `IsFiniteSet(Assets)` in
  `StorageAssumption` are for.
- *Modes* (`PoolInvariants_proofs`): `SiloedStaysAlone`, `IsolationStays`, `CategoryIsKept`,
  `SeizabilityStays`, `CreditIsSpent`. The strengthening is where the
  configurator comes in: it looks at *supplies* before it makes an asset siloed or isolated
  or takes its threshold, the promise is about *users*, and only the sums connect the two
  (`TotalCovers`: a supply of zero is nobody's balance). So siloed debt needs
  `BooksBalance` and `BorrowingBitsMatchDebts`, and seizability needs `SoundParameters`
  besides: a category or an asset with a threshold has a bonus that pays
  (`ParametersStaySound`). `IsolatedWithTokens` says what isolation is worth as an
  invariant: along a behaviour in which bits always stand for tokens, isolated collateral
  is always alone.
- *Flash loans* (`Flash_proofs`): `FlashBooksBalance`, `FlashSeizabilityStays`,
  `SettledRatesStayFresh` and `LentEquityIsKept` prove `BooksBalance`,
  `CollateralStaysSeizable`, `SettledRatesAreFresh` and `LentEquityNeverFalls` under
  `FlashSpec`, for any nesting and any lists of items. The strengthening is `ItemsDistinct`
  (no call in flight names an asset twice): only then is what is lent a sum over the calls
  that lending increases (`LendLoans`) and each return decreases (`ReturnLoans`) by exactly
  the item's amount. A return brings that amount in cash with the premium, of which the
  treasury is credited at most what came in (`RepaymentKeepsValue`), or as a debt worth at
  least the amount (`DebtKeepsValue`).
- *Promises in flight* (`Flash_proofs`): what is proved of the pool is proved of flash loans
  and of their receivers too. A step of a receiver is a step of `Next`, so the step lemmas of
  the pool apply to it as they are; what is new is the two halves of a flash loan. They leave
  collateral, its bits, categories, prices and settings alone (`LoansLeavePositions`), move no
  index at one instant (`LoansKeepIndexes`) and open at most one debt, validated like a
  borrow although its funds left before the receiver ran. From that, `FlashHealthIsKept`,
  `FlashSiloedStaysAlone`, `FlashCategoryIsKept`, `FlashIsolationStays` and
  `FlashUnhealthyIsLiquidatable` carry the modes and health over, and `FlashStepsKeepPromises`
  the promises about single steps (indexes, accrual, full exits, bits, liquidations).
  `FlashInterestStaysShared` proves `InterestIsShared` whenever no loan is in flight, from
  reserves earning by the rates of their storage when nothing of them is lent
  (`SettledEarnByRates`). `FlashCreditIsSpent` is the counterpart of `CreditIsSpent`: an item
  kept as a debt of somebody else takes its whole amount off the allowance *at the return*,
  where the receiver may have used that allowance up; the step is then disabled and the whole
  call reverts. `EquityNeverFalls` and `RatesFresh` do not hold in flight, as funds are out
  that no rate knows of; `LentEquityNeverFalls` and `SettledRatesAreFresh` are what does.

`RayMath_proofs` holds the arithmetic: bounds of each rounding, the round trip of the
treasury's accrual (`AccrualRoundTrip`), draining, monotonicity of debt, growth.

Some definitions are written the way they are because of the proofs. `LiquidationCall`
updates `cash` with nested `EXCEPT`s, as the two assets may be the same one and the prover
reads `@` in a multiple update wrongly then; TLC sees the same function. Sums are folds over
functions rather than over sets of records; `Replay` (`LiveAssumptions`) and `Net`
(`TokenizationEvents`) are recursive functions over a sequence, as their proofs go along it.

Only model-checked, and why:

- `ReserveAsExpected`, `UserAsExpected`: two programs agree within a tolerance, and only for
  the amounts of stories; there is no statement for every value of the constants.
- `CheckEnds`, which is a liveness property and out of the prover's reach.
- `BitsComeWithTokens` is false (the finding).

## 5. What is not modelled

- *Flash loans*: calls without items (they do nothing) and the code of receivers, which is
  whatever calls it makes; the protocol's share of the premium, stored but no longer read.
- *Sentinel, oracle fallback, access control, addresses provider, proxies and initialisers,
  upgrades of the tokens of a reserve, permits*: planned, see below.
- *Changing the rate strategy* of a live reserve: the strategy is a constant here.
- *Width of the words*: checked casts to `uint128` and the overflow guards of the
  multiplication; the values of the runs are far from them.
- *Stable debt, bridge*: refused by the code on every path. *L2 encoding, data provider,
  telemetry, incentives hook*: no state the protocol reads back.
- *Scenario tests*: approvals of the underlying (taken as given), several assets and several
  borrowers in one story (the oracle is not exact there, see above), the messages of reverts.
- *Events*: those of a mint to the treasury and of a transfer on liquidation, and the stable
  ones of `tokenization-events.ts`, which no call emits.
- *Live check*: reorganisations, an ACL manager or a pool replaced between blocks, several
  deployments in one file.
- *Release scripts, type declarations, deployment configuration*: no state, nothing to interleave.

## 6. Plan

The order followed the importance of the behaviour: arithmetic and one reserve, then two
assets and liquidation, the modes, the configurator, the stand-alone data structures, and
the programs that test and watch the contracts, and last the calls in flight of flash loans.
What comes next:

1. A ghost ledger for the isolation debt; the strategy as a variable, with `RatesFresh`
   weakened accordingly; two borrowers in `MCScenario` with the oracle's borrow repaired.
2. `PriceOracleSentinel` (with its grace period, the one place where progress depends only
   on time), `AaveOracle`, `PoolAddressesProvider` with `VersionedInitializable`
   (and with them the upgrades of the tokens).
3. An abstract bank, deposits and debts in underlying, that the reserve implements.
