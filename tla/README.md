# Verification of royalty_pool

TLA+ models of this repository's Move packages and of the simulator its audit was made with, the
TLC runs that model-check them, and TLAPS proofs about both. Paths are relative to the
repository's root; `AU/` stands for `audits/2026-09-09-royalty-math-verification/`.

## 1. The system

### Components, state and operations

| Component | Source | State | Operations |
|---|---|---|---|
| royalty pool | `sources/pool.move` | balance, staked shares, cumulative index, carry, last settle's timestamp | `new_*`, `share`, `deposit`, `settle`, `recover_coins`, `register_stake`, `unregister_stake`, `claim_royalties`, `pending_royalties` |
| stake | `sources/stake.move` | principal, map from pool to debt | `new`, `destroy`, registration accessors |
| the chain (external) | Sui framework | clock, the commit's settled snapshot, withdraws made, funds and coins at an address | commits, transfers |
| events | both | what an indexer has rebuilt | one event per state change |
| pinned pool, stake and routed stake | `AU/royalty-sim/move/` | the same accounting before the timestamp guard; wrappers derived from a parent work | `deposit`, `settle`, `recover_coins`, `register_stake`, `unregister_stake`, `claim_rewards`; `new`, `register`, `unregister`, `unstake`, `restake`, `sweep` |
| release revenue distributor | `AU/manual-move-tests/rrd/` | funds at the release's address | `redeem_and_distribute`, `redeem_all_and_distribute`, `receive_and_distribute` |
| simulator | `AU/royalty-sim/src/model/` | a world of pools, stakes, routed stakes, releases, with ghosts | `World::apply` on each `Op`, `check_all` after it |
| fuzzer | `AU/royalty-sim/src/fuzz.rs` | op list, live stakes, shares under the cap | `run_one`, `replay`, `shrink` |
| scenario runner | `AU/royalty-sim/src/scenario.rs` | the world of a file | `run_scenario` |
| differential generator, command line | `AU/royalty-sim/src/movegen.rs`, `main.rs` | the generated modules in `routed-stake/tests/gen` | `generate`; `diff`: clear the directory, write a module per file, run the package's tests, read the output |
| oracle, probes, prover specifications, tests, second copies | `AU/oracle`, `audits/2026-09-16-*`, `AU/prover-pool-specs`, `tests/`, `AU/manual-move-tests/move` | none | - |

### Interactions

A stake is registered in pools and passed to them by mutable reference: the pool writes the
stake's debt, and `stake::destroy` reads what every pool wrote. A pool's address collects funds
that anyone sends; only a consensus commit makes them redeemable, and only one withdraw per
address and commit is accepted. A routed stake claims from one pool and deposits into another in
one call. A distributor pays recordings; that money reaches a pool only through calls of other
packages, which are not here. The simulator mirrors the pinned packages, the fuzzer drives the
simulator, the scenario runner runs what the fuzzer dumped and what was written by hand. The
generator replays a file on the simulator, writes down what it saw as assertions of Move tests,
and `diff` takes a test that passed for an agreement between the simulator and the packages.

### What is hard

- **Shared objects.** Calls of different people on one pool interleave in any order; `settle` is
  open to everyone, and a second withdraw in one commit fails a whole transaction.
- **Time.** The clock is constant within a commit and may repeat across commits; the settled
  balance is a snapshot of the commit's start.
- **Rounding.** Index, carry, debt and payout are all floored; the divisor changes between folds.
- **Order inside a handler.** settle before debt, settle before payout, claim before deposit.
- **Limits.** One read returns at most `u64::MAX`; the index may overflow.
- **Failure halfway.** Move's transactions roll back; the simulator has to do so by itself.
- **What a test can see.** The unit VM shows no settled funds, a Move function has 255 local
  slots and a package an arena limit: the generator replaces calls, samples its assertions, and
  may break the build of a whole batch.
- **No automatic progress.** Funds move only when somebody makes a permissionless call.

### What makes each part correct

- pool: the divisor is the sum of the registered shares; the pool never owes more than it holds,
  to the unit; every exit can be paid; nobody's call lowers another's credit; a lifetime's payout
  does not depend on when claims were made.
- guard: no call is failed by another's withdraw; waiting funds reach the stakes.
- events: an indexer that sees only events rebuilds the state.
- several pools: a stake's map and the pools' divisors agree; pools do not disturb each other.
- routed stakes: rewards reach only the parent's pool; a wrapper can always be drained.
- distributor: revenue is conserved, larger splits never fall behind, and what remains is dust.
- simulator: none of its checks reports; a failed op leaves no trace.
- fuzzer: its account of the world is the world's; what it minimises reports.
- generator and `diff`: an AGREE means that the chain did what the simulator does; a scenario that
  should agree does, whatever else is in the batch and in the directory.

## 2. Modules

| Module | Models | Rests on |
|---|---|---|
| `RoyaltyPool` | one pool with its stakes and its address | |
| `RoyaltyPoolHistory` | the same with history: paid, index at joining, deposits since, forfeited | `RoyaltyPool` |
| `RoyaltyLedger` | abstract: an account per member, credited at each payment | |
| `SettlementGuard` | abstract: the timestamp and the accumulator, no accounting, fair | |
| `RoyaltyPoolRefinement` | the pool implements both | the three above |
| `RoyaltyPoolNewcomer` | one sentence of the repository's README | `RoyaltyPool` |
| `RoyaltyPoolEvents` | events of each call, and a replica | `RoyaltyPool` |
| `RoyaltyPools` | several pools, `new`, `share`, shared stakes; each is a `RoyaltyPool` | `RoyaltyPool` by INSTANCE |
| `RoutedStakes` | pinned pool, stake and routed stake; each pool is a `RoyaltyLedger` | `RoyaltyLedger` by INSTANCE |
| `ReleaseDistribution` | the distributor | |
| `SimWorld` | the simulator's world, its aborts and its checks | |
| `SimFuzz` | fuzzer, replay, shrink, and what a dumped scenario reports | `SimWorld` by INSTANCE |
| `SimDiff` | scenario runner with expect blocks, generator, `diff`; the chain is a second `SimWorld` that may deviate | `SimWorld` by INSTANCE |
| `SumTheorems` | facts of quotients and sums that the proofs share | |
| `RoyaltyPoolProofs` | proofs (section 4) about the pool, its history, its refinements and its events | those four modules |
| `RoyaltyPoolsProofs`, `RoutedStakesProofs`, `ReleaseDistributionProofs`, `SimWorldProofs`, `SimFuzzProofs`, `SimDiffProofs` | proofs | the module of the name; `SimFuzzProofs` on `SimWorldProofs` by INSTANCE |

`MC*` modules give the constants of a TLC instance; `MCRoyaltyPool` joins events and refinements,
so that one exploration of the pool answers for all three. Operators named `...Fault` are not part
of a model: each is a bug that could have been written in place of the definition after it, and
PROJECT.json names, for each property, one that the property notices.

### State and actions against the code

`RoyaltyPool`. The pool's variables are the fields of `RoyaltyPool` under the code's names,
except `index` (`cumulative_royalty_per_share`); `amount` and `debt` are the fields of `Stake`
for this pool, `registered` the keys of its map. `settled`, `redeemed`, `arriving`, `coins` and
`now` are the chain's. Each action is one committed call, and an abort is a guard, since a Sui
transaction is atomic; a transaction of several calls is a run of consecutive actions.
`Settling` is the `settle` that begins `settle`, `register_stake` and `unregister_stake`, stamp
first, then the test for staked shares, then the redeem and the fold. `pending_royalties` is
`Pending`. The sum of all stakes is bounded by `ShareSupply` because a stake wraps shares that
exist.

`RoyaltyPools` adds what one pool cannot show: an address at which an object is claimed once, a
pool between `new` and `share`, and one map per stake. `RoutedStakes` keys registrations by
currency as the pinned code does, lets an exit happen only with nothing to claim, and has a
`settle` that redeems whenever it is called: a second one in a commit fails, as does its
transaction. The parent a caller hands over is an argument of the wrapper's actions.

`ReleaseDistribution` keeps what waits at the release's address, what each recording received
and, as history, what each track was sent.

`SimWorld` has one operator per method of `pool.rs`, `stake.rs`, `routed.rs` and
`distributor.rs`; its value is the world the method leaves, whether it failed, and the abort's
location and code (`abort.rs`) or the number it returned, a half-done change included.
`apply_inner` dispatches an op as `world.rs` does, a wrong id first, and `After` is
`World::apply`'s snapshot. The `check_*` operators are those of `invariants.rs`; rationals are
multiples of `1/Scale`. `SimFuzz` takes random draws as choices and an abstract predicate for "a
check reports", since with the modelled pool none does; `OneOp` and `TwoOps` apply what one
iteration of `run_one` draws, to an account that was written before.

`SimDiff` keeps the text of a generated test as what it does: a list of calls, each with what is
asserted of which pool and of the call's value. `Level`, `Fields`, `Asserted` and `PoolAsserts`
are the assertion levels of `movegen.rs`, `Call` its replacement of a settle by a deposit,
`Unsupported` and the two error paths of `Emitted` what it refuses, `generate` the choice between
one test and a prefix with an abort test. `InUnitVM` and `OnChain` run a call, `Passes` a test.
The actions are the steps of `cmd_diff`: clear the directory, write a module per file, run
`sui move test` (which may print nothing, panic, or time a test out), read the lines. The Move
packages are taken to do what `SimWorld` does except in one op of the first file, where they
leave a pool with another balance or carry, abort, or accept what should abort.

## 3. Runs

| Run | Question | Bounds | Distinct states |
|---|---|---|---|
| core | types, divisor, solvency, exits, withdraw guard, carry, credit; the replica is the state; the pool implements `RoyaltyLedger` and `SettlementGuard` | 2 stakes, supply 3, precision 2, index 4, funds 2, time 2 | 50,011 |
| history | exact lifetime totals, conservation to the unit, the README's floor, no windfall, residue | precision 3, funds 1, index 5 | 45,339 |
| guard | liveness of the address, no second withdraw | funds 4, read limit 2 | 180 |
| pools | two pools, two stakes: maps and divisors agree, each pool is a `RoyaltyPool` | supply 2, precision 1, funds 1 | 80,630 |
| routed | divisors, solvency, sweeps never blocked, rewards stay routed, each pool is a ledger | recording, composition and stray pool, a holder, a wrapper, supply 2, precision 3, currency 2 | 88,334 |
| release | conservation, order of tracks, remainders, draining | splits 2, 4, 4 of 10, read limit 6, currency 12 | 5,660 |
| simulator | I-A1, A2, B1, B2, B4, B8, C1, C4-exact never report | 2 pools of one currency, a stake, a wrapper, two parents, a release, `u64` maximum 3, deposits 4 | 175,757 |
| fuzz | generator's account, what is minimised | amounts and deposits 1 or 3, supply 3, 10 ops | 90,883 |
| diff | what AGREE, SKIP and DISAGREE mean | 2 pools, a stake, two routed stakes, files of up to 7 ops, batches of up to 2 files, one deviation | 406,038 |
| newcomer | finding: README on registering | supply 2, precision 2, funds 2 | violation |
| replay | finding: doc of `replay` | as fuzz with 8 ops | violation |
| granularity | finding: doc of the assertion levels | files of 4 ops, `SITE_BUDGET` 12, 2 balance checks | violation |

### Why the bounds are enough to mean something

Two stakes with supply 3 give unequal shares (1 and 2), a divisor that does not divide the
precision (rounding and carry happen), a divisor that grows and shrinks between folds, and an
exit down to none. Funds up to twice the read limit make a settle leave something behind.
Two timestamps make commits with an equal and with an advanced clock. The index bound stands for
the width at which `fold` aborts, so aborts are reached too. In `history` the precision equals
the supply, so that the floor's premise holds and rounding still occurs with the other divisors.
`guard` abstracts the clock to "a new timestamp or not": it is not bounded in time, so liveness
is about behaviours that go on for ever. `routed` needs a pool of the right share type derived
from someone else (stray) for a caller to try, and the pool it sweeps to both with and without
stakes. In `simulator` the maximum is below what is deposited: deposits, settles and sweeps fail
after they have changed something; a release leaves a remainder, and tracklists that do not add up
are tried. In `fuzz` the supply is the maximum, as in the stress profile;
deposits overflow, so ops abort inside runs. Symmetry over stakes is used in safety runs and
steps only, never with fairness.

`diff` explores every file of one or two ops of an alphabet of fifteen (refused and failing ops
included), those of three that begin with a registration or a routed stake, and files that go on
from a routed stake with something to sweep and from swept funds that are parked with a stake
registered. A file expects what the simulator does, or nothing. `SITE_BUDGET` is large enough for
short files to be asserted in full and small enough that others are sampled. Files of a batch
share the start of a name, an identifier, the name of a test, or nothing; one overruns the locals. Two modules of an
earlier run are in the directory, which with one of the batch would be more than `ArenaLimit`.
Only pools of files move, one op at a time, so files of this length already combine an op that is
sampled or not with one that aborts, deviates or is tested as another.

Deadlock is allowed only in `fuzz` and `replay`, where a run of the fuzzer ends, and in `diff` and
`granularity`, where the command does.

### Fairness

`SettlementGuard`: weak fairness of a commit whose clock has advanced (Sui's clock is set in
every commit and goes forward in time), of `settle` and of `recover_coins` (a crank: both are
permissionless, total and need nothing but system objects, and the repository's README tells
tooling to make them). No fairness is assumed of holders. `QuietAddressDrains` has the premise
that nothing more arrives and a stake stays registered.

`ReleaseDistribution`: weak fairness of commits and of receiving delivered coins, strong fairness
of the crank `redeem_all_and_distribute`. Weak fairness would not do: an admin's partial redeem
early in each commit takes part of the snapshot and the crank's redeem of all of it is then
rejected until the next commit, so the crank is enabled again and again and never for good.

Nothing else is claimed to happen eventually.

### What an AGREE means

`AgreeMeansSame` has premises, and each is a limit of the harness rather than of the model. The
scenario passes on the simulator. No other file of the batch has a test whose name begins with its
own (`Apart`: `main.rs` looks names up as substrings, and files by identifier). The op in which the chain
deviates is not a settle (`InSettle`): one of parked funds is tested as a deposit, and one of
funds the simulator does not know of as an empty one, so a `settle` that is wrong goes unnoticed.
Under them an AGREE speaks of the ops up to the first expected abort: they ended alike, abort for
abort, and if the file was short enough to be asserted in full, every pool that an op changed was
the simulator's, carry included. Of a longer file it speaks only of how the ops ended and of the
sampled balances; `granularity` is what that leaves out.

### Findings

- **newcomer** (`sources/pool.move:106`). The README says that registering settles first, so that
  waiting funds go to the stakes registered before. Where the timestamp is already stamped the
  settle is skipped, and funds that became redeemable in a commit with the same clock value are
  shared with the newcomer.
- **replay** (`AU/royalty-sim/src/fuzz.rs:338`). `replay` ends at an op that aborts, which
  `run_one` keeps and passes by, so the list of a reporting run may not replay and is then not
  shrunk. `MinimizedReproduces` shows what still holds: the dumped scenario reports when
  `run_scenario` runs it, since that goes past aborts.
- **granularity** (`AU/royalty-sim/src/movegen.rs:574`). The doc of `assert_pool_state` and
  `AU/royalty-sim/NOTES.md` say that every op of a long test still gets the balance check; since
  the number of assertions is capped, ops between sampled ones get none, and an op's assertions
  are on its own pools. A balance that is wrong for a while is not seen.

Met while modelling, without a run: the pinned `pool.move:30` calls `settle` total, while a
second one in a commit fails (what the current guard adds); `scenario.rs:259-261` says that a
scenario stops at the first unexpected result, and it goes on; `fuzz.rs:300` mends the account
after a failed `register`, which no profile can reach, as the cap is never above `u64::MAX`;
I-A1 of `invariants.rs:568` compares a total with the sum it was made from; `movegen.rs:16-18`
says that the pool of a route must not be in `setup.pools`, where `build_world` needs it, and two
`routed_new` for one pool, which the simulator accepts, give two pools on the chain, so that a
scenario with both may DISAGREE (`PassingAgrees` excepts it, `RoutesApart`);
`full_site_cost` counts three assertions beside the stakes' where a full assertion now has five
(`movegen.rs:541`, `138-160`); a test whose last op is `pending`, `new_stake`, `destroy_stake` or
`routed_new` ends without the full assertion that `VERIFICATION.md:170` and comments promise of
the last op.

## 4. Proofs

Each theorem holds for every value of the constants that the module's named assumption allows:
finite sets of stakes, pools, holders, routed stakes and tracks, naturals for bounds, a precision that
is not zero, for a release a tracklist whose splits sum to the whole (`SplitsSumToWhole`), for
the simulator that stakes and routed stakes have ids of their own and that `Scale` is a multiple of
every divisor (`ScaleDivides`, so that its rationals are integers; its tracklists may sum to
anything), for the fuzzer that the amounts it draws are not zero, and for `diff` that a command line
names a file and a file's name is a sequence of words (`BatchesAssumption`). Nothing else is assumed.

| Theorem | Proves, for all constants | Module |
|---|---|---|
| `TypeCorrect`, `DivisorIsExact`, `NeverInsolvent`, `ExitAlwaysPayable`, `WithdrawsNeverCollide`, `CarryFits`, `CreditIsNeverTaken` | run core's invariants and its action property | `RoyaltyPoolProofs` |
| `PoolImplementsLedger`, `PoolImplementsGuard` | the pool implements both abstractions | the same |
| `GuardPreventsSecondWithdraw` | run guard's invariant, of whatever implements the guard | the same |
| `EventsRebuildThePool` | `ReplicaExact` | the same |
| `ClaimingOftenLosesNothing`, `EveryUnitAccounted`, `FractionGuaranteed`, `NoCarryWindfall`, `ExitPaysTheRest`, `ResidueIsBounded` | all of run history | the same |
| `RegistrationsAlwaysMatch`, `EachPoolIsARoyaltyPool` | all of run pools | `RoyaltyPoolsProofs` |
| `RoutedDivisorsExact`, `RoutedPoolsSolvent`, `RewardsReachTheParent`, `EachPoolImplementsTheLedger`, `SweepsAlwaysAccepted` | run routed; of `SweepNeverBlocked`, the guard | `RoutedStakesProofs` |
| `RevenueConserved`, `NoTrackOvertakes`, `RemainderStaysSmall` | run release, but for liveness | `ReleaseDistributionProofs` |
| `ChecksB1AndB2NeverReport`, `NoOpMakesCurrency`, `DriftIsAllThatDiffers`, `PayoutsFollowTheIndex`, `ResiduesBounded` | all of run simulator | `SimWorldProofs` |
| `AccountIsTheWorlds`, `DumpsReproduce` | all of run fuzz | `SimFuzzProofs` |
| `VerdictsAreOwn` | of run diff, `VerdictIsOwn` | `SimDiffProofs` |

`InductiveInvariant`, `HistoryInvariant`, `PoolsInvariant`, `RoutedInvariant`,
`ReleaseInvariant`, `SimulatorInvariant`, `FuzzerInvariant` and `HarnessInvariant` are what the others of their module follow from. Each
of these modules has one lemma per action (or per kind of action), with a step for every conjunct
it disturbs, and one that puts them together by cases of the next-state relation.

**The pool.** Solvency alone is not inductive. A fold raises all accounts by the divisor times the
index's increment, which is within the deposit only if the divisor *is* the sum of the registered
shares (`StakedSharesExact`); that a destroyed or a new stake does not change this needs the types
(an unregistered stake has no debt, a dead one no shares); the carry stays below the supply
because the divisor does (`StakesWithinSupply`). The withdraw guard needs `WithdrawIsStamped`: a
withdraw made in this commit has stamped its timestamp. `FoldStep` is the arithmetic of one fold,
`SettlingStep` that of the settle three calls share. That every exit is payable follows from
solvency by `PendingCovered`: the sum of floors is at most the floor of the sum. `CreditKeptStep`
needs the invariant only to know that increments are not negative and that claims are of the
claimer's own credit.

**The history.** `HInv` says of each registration that its debt is its shares times the index at
joining plus the units paid since (`DebtIsHistory`), from which exactness, the exit's payout and
the residue follow by division; that the index has moved by at least `PRECISION / ShareSupply` for
each unit that came in (`IndexKeepsPace`, for the floor); and that what it was credited, with the
carry, is below what came in by less than one carry's worth (`CreditCameIn`, for the windfall). The
last needs the carry: a fold turns it into credit, so without the carry in the statement the bound
would weaken at each fold. `Conservation` is inductive given the pool's invariant.

**The refinements.** A ledger account is the pool's credit, `amount * index - debt`. A fold is one
payment: every account grows by its shares times the same rate, and the ledger's divisor and
carry are the pool's; a call that settles first is one step of the ledger, whose joins and leaves
begin with a payment. The guard needs `WithinRoom`, that what waits at the
address fits its bound. Initial states map to initial states, and every action to the abstract
action of its kind or to a stutter. Fairness is not part of what is proved to be implemented.

**Events.** `Current` is the replica the state calls for. Each call's proof applies its events in
order: after a fold's `Deposited` the replica is the pool as the fold left it (`ApplyTheFold`),
and the event that follows adds what the rest of the call did. An event emitted before the field
it carries was final, or a `Deposited` after the event of its call, would fail there.

**Several pools.** `PoolsInv` adds to `RegistrationsMatchPools` that an address where nothing was
claimed holds the fields of a new pool: claiming it is then a stutter of the `RoyaltyPool` there.
A call at one pool is that pool's action and leaves the others' view alone (`ApartStutters`,
`EntryWritten`, `EntryRemoved`: one key of one stake's map); a new or destroyed stake and a
commit are actions of all of them at once. So the pool's theorems speak of each of several pools.

**Routed stakes.** A pool's view is its object, the shares and the credits of the positions
registered with it, and `ViewOK` says that they agree. Every call changes each view in one of five
ways (`ViewStep`): not at all, a payment, a join, a leave, or a reward taken; `sweep` takes a
reward from one view and pays another. `ViewStep` preserves `ViewOK` and is a step of the ledger,
given that payments stay below the currency's supply, for which `WorldOK` conserves the currency
of the whole world. `HoldingsOK` says that a position without shares is registered nowhere, as
`unstake` needs. `SweepNeverBlocked` speaks of `ENABLED`; what is proved is that the guard of a
sweep holds (`SweepsAlwaysAccepted`: the claim is payable because credits fit in the balance, and a
pool that cannot take a deposit has it parked) and that a sweep is this guard and an assignment to
every variable (`SweepIsAccepted`), which together say the same.

**The distributor.** Amounts are floors of shares of the same total, so a larger split gets no
less in any one call, hence in the sum of calls; floors leave less than one unit per track
(`RoundedParts`). `Conservation` needs that what is withdrawn in a commit is within its snapshot.

**The simulator.** An op is a function of the world, so the proof is about worlds, with one lemma
per method and no primes before the last section. `WorldOK` says of each pool that its object, the
shares registered with it and their credits meet (`MeterOK`: the scaled balance is the credits, the
carry and what exits forfeited; the divisor is the shares; the exact index is the floored one and
the drift), of each registration that its debt is the index at registration and the units paid
(`Lifetime`), and that a routed stake finds its own position under its id (`StakesKnown`, without
which `routed_new` could meet a stranger's). `Good` says of a method's result that it failed, and
the snapshot then discards it, or that it keeps `WorldOK` and moves the currency it says and no
more. A sweep is a claim followed by a payment into another pool; the worlds between
satisfy `WorldOK` too. A split of the exact index divides because `Scale` is a multiple of the
divisor; floors leave less than one unit per track, so a distribution never fails half-way.
The proof showed that two arms of `apply_inner` overlapped, where TLA+ leaves the choice open: an
op with a wrong id is now told apart before the others, as `world.rs` does.

**The fuzzer.** `FuzzInv` says that the op list of a run, run as a scenario, gives the run's world
and its report, that the world's books balance and its stakes are numbered as they were made, and,
unless the run is over, that its account is exact. The account is written before the ops that may
fail, so exactness is not kept by each op but by the pair: the proof takes the simulator's ops one
at a time and says whose shares each adds to or takes from a pool (`DepositRoll`, `RegisterRoll` and
their like in `SimWorldProofs`, cited through an INSTANCE), that a claim of a stake that is
registered succeeds, whatever its pool went through (`ClaimSucceeds`), and hence that the exit after
it does. That what is minimised reproduces needs no invariant of the pool: a list that `replay`
takes to a report holds no op that fails before its end, `run_scenario` then goes through the same
worlds, and every list `shrink` passes through is one of these or the whole run's. Passes and
replays are recursive functions, unfolded step by step by induction on their length.

**The harness.** `VerdictIsOwn` is about which lines a substring search can find. `HarnessInv` says
that, once the directory is cleared, every module in it is one of this run's files as generated,
that every generated file has a module under its identifier (its own or one that replaced it), and
that every line of the output is a test's in one of them. What `generate` puts into a test's body
stays closed; what is used is that a file has a test, that its tests' names start with its
identifier, and that none of them starts another (`TestsOfAFile`). A line that a search for one of
the file's names finds then starts with its identifier, so `Apart` makes it the file's own. The
proof showed that `Apart` as it had been checked, on names of files only, is not enough: a file `a`
that expects an abort has a test `a_abort`, which is also what a file named `a_abort` calls its
own. It now speaks of the names of the tests of other files.

`SumTheorems` proves the facts about `SumFunction` that all this needs (it unfolds, is linear, is
not negative, changes by what an entry changes, is the sum over groups, and over a part where the
rest is zero), and the facts about
quotients. The sum is a fold whose definition chooses an element; the lemmas go by induction on a
finite set written as a set of naturals, as the library's induction theorems take an operator as a
parameter.

**Only model-checked**: liveness (`QuietAddressDrains` and the others); `SweepNeverBlocked` in its
`ENABLED` form; `AgreeMeansSame` and `PassingAgrees`, which compare runs of one file through four
folds (the simulator, the generator, the unit VM, the chain); the sentences that the violation runs
refute.

## 5. Not modelled

The oracle and the probes (straight-line sums over given inputs), prover specifications and tests,
and the second copies of the packages. Of modelled parts:

- admin caps (a caller's right to act), views other than `pending_royalties`, events of the pinned
  packages and of the distributor, `cumulative_deposits` of the pinned pool (analytics; nothing
  reads it);
- of the simulator, widths of `u128` and `u256`, telemetry, and the checks I-B5 and I-C4, which
  follow from the exact ones;
- of the scenario runner, JSON parsing, and expected amounts of a distribution, which no generated
  test can have;
- of the fuzzer, the campaign loop, seeds and weights (draws are choices);
- of the generator, the text of a test: `take_shared`, `return_shared`, cleanup and the accumulator
  root a test creates when it settles; of the command line, `run`, `gen-move`, `fuzz` and `sample`,
  each one call of what is modelled, and `--out`;
- several deviations of the chain in one batch. One is enough for a verdict to be wrong; two could
  also cancel out.

## 6. Plan

Done, in this order: pool, history, guard, ledger and refinement, events, several pools, proofs
of the pool; routed stakes, distributor, simulator, fuzzer; abort codes and releases in the
simulator, scenario runner, differential generator and `diff`.

No module is planned: what is left is straight-line, text, or outside the repository.

Of the invariants that a run checks, two of the differential harness have no theorem,
`AgreeMeansSame` and `PassingAgrees`: every op of the simulator would have to be shown to do the same
to two worlds that differ in parked funds and in the pools made so far.
