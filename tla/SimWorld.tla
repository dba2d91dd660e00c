-------------------------------- MODULE SimWorld --------------------------------
(***************************************************************************)
(* The Rust simulator of the 2026-09-09 audit (royalty-sim/src/model): a   *)
(* World of pools, stakes, routed stakes and releases to which one op is   *)
(* applied at a time.  An op may fail halfway, with a pool or a stake      *)
(* already changed; apply restores the snapshot it took.  Pools and        *)
(* registrations carry ghosts, and invariants.rs checks them after every   *)
(* op: those checks are the properties here.                               *)
(*                                                                         *)
(* The value of an op is what it leaves of the world, whether it failed,   *)
(* why it did or what it returned.  Rationals are kept as multiples of     *)
(* 1 / Scale; u256 and u128 overflow is left out.                          *)
(***************************************************************************)
EXTENDS Integers, FiniteSets, Functions, Folds

CONSTANTS
    PoolIds,
    StakeIds,
    RoutedIds,
    ReleaseIds,
    Parents,       \* parents of routed stakes, and those an op may name instead
    CurrencyOf,    \* currency of each pool
    Amounts,       \* shares of a new stake
    Splits,        \* tracklists a new release is tried with
    BPS,           \* what the splits of a release add up to, 10_000 in the code
    MaxU64,        \* where a balance and a divisor overflow
    P,
    Scale,         \* a multiple of every divisor
    MaxDeposits,   \* bound on what comes in from outside
    MaxExits       \* bound on the exits of each pool

\* Routed stakes have ids of their own, so the position under one is found there only.
ASSUME ConstantsAssumption ==
    /\ IsFiniteSet(PoolIds) /\ IsFiniteSet(StakeIds)
    /\ IsFiniteSet(RoutedIds) /\ IsFiniteSet(ReleaseIds)
    /\ StakeIds \cap RoutedIds = {}
    /\ Amounts \subseteq Nat
    /\ \A splits \in Splits : IsFiniteSet(DOMAIN splits) /\ splits \in [DOMAIN splits -> Nat]
    /\ P \in Nat \ {0} /\ BPS \in Nat \ {0}
    /\ MaxU64 \in Nat /\ Scale \in Nat /\ MaxDeposits \in Nat /\ MaxExits \in Nat

ASSUME ScaleDivides == \A n \in 1..MaxU64 : Scale % n = 0

VARIABLES
    world,         \* World
    minted,        \* history: deposited, or sent to a release, from outside
    paidOut        \* history: claimed by owners of stakes, sent to recordings

vars == <<world, minted, paidOut>>

NewPool ==
    [balance |-> 0, staked_shares |-> 0, index |-> 0, carry |-> 0, parked |-> 0,
     forfeited |-> 0, exits |-> 0, ideal |-> 0, drift |-> 0, fold_shares |-> 0]

\* A stake of any owner is found by its id; routed stakes hold theirs under their own.
NewWorld(pools) ==
    [pools |-> [p \in pools |-> NewPool], stakes |-> [x \in {} |-> 0],
     routed |-> [r \in {} |-> 0], releases |-> [r \in {} |-> 0]]

Init == world = NewWorld(PoolIds) /\ minted = 0 /\ paidOut = 0

Exists(w, x) == x \in DOMAIN w.stakes
With(f, x, v) == [y \in DOMAIN f \cup {x} |-> IF y = x THEN v ELSE f[y]]
Without(f, x) == Restrict(f, DOMAIN f \ {x})

--------------------------------------------------------------------------------
(* abort.rs: codes are unique within a module of the chain only *)

PoolAbort ==
    [NoStakedShares |-> 1, AlreadyRegistered |-> 2, NotRegistered |-> 3,
     PoolIdMismatch |-> 4, LastClaimIndexMismatch |-> 5, InvalidValue |-> 6]
StakeAbort == [ZeroBalance |-> 0, PoolsRegistered |-> 1]
RoutedAbort == [NotDerivedFromParent |-> 0, NoStake |-> 1, StakeExists |-> 2]
InvalidTrackSplitsSum == 20

\* Codes of what has none on chain: checked arithmetic, and an op with a wrong id.
NoValue == -1
Failed(w, where, code) ==
    [failed |-> TRUE, world |-> w, why |-> [location |-> where, code |-> code]]
Overflow(w) == Failed(w, "ARITHMETIC_ERROR", -1)
Malformed(w) == Failed(w, "WorldError", -2)

Returns(w, value) == [failed |-> FALSE, world |-> w, value |-> value]
Done(w) == Returns(w, NoValue)

\* The question mark of Rust: what follows is done to what a success left.
AndThen(result, Continue(_, _)) ==
    IF result.failed THEN result ELSE Continue(result.world, result.value)

--------------------------------------------------------------------------------
(* pool.rs *)

UnfoldedFault(q, v) == v * P
Numerator(q, v) == v * P + q.carry

StaleCarryFault(q, v) == q.carry

CarryAfter(q, v) == Numerator(q, v) % q.staked_shares

Folded(q, v) ==
    [q EXCEPT !.index = @ + (Numerator(q, v) \div q.staked_shares),
              !.carry = CarryAfter(q, v),
              !.balance = @ + v,
              !.ideal = @ + ((v * Scale) \div q.staked_shares),
              !.drift = @ + (((CarryAfter(q, v) - q.carry) * Scale) \div q.staked_shares),
              !.fold_shares = q.staked_shares]

Deposit(w, p, v) ==
    LET q == w.pools[p] IN
    IF q.staked_shares = 0 THEN Failed(w, "pool", PoolAbort.NoStakedShares)
    ELSE IF v = 0 THEN Failed(w, "pool", PoolAbort.InvalidValue)
    ELSE IF q.balance + v > MaxU64 THEN Overflow(w)
    ELSE Done([w EXCEPT !.pools[p] = Folded(q, v)])

\* The parked funds are taken before the deposit that may fail.
Settle(w, p) ==
    LET v == w.pools[p].parked IN
    IF w.pools[p].staked_shares = 0 \/ v = 0 THEN Returns(w, 0)
    ELSE AndThen(Deposit([w EXCEPT !.pools[p].parked = 0], p, v),
                 LAMBDA after, none : Returns(after, v))

HasRegistration(w, x, p) == CurrencyOf[p] \in DOMAIN w.stakes[x].registrations
Registration(w, x, p) == w.stakes[x].registrations[CurrencyOf[p]]
RegisteredIn(w, x, p) == HasRegistration(w, x, p) /\ Registration(w, x, p).pool = p

Owed(w, x, p) == w.stakes[x].amount * w.pools[p].index - Registration(w, x, p).debt

calculate_reward(w, x, p) == Owed(w, x, p) \div P

\* The checks that claim and unregister begin with.
AsRegistered(w, x, p, result) ==
    IF ~HasRegistration(w, x, p) THEN Failed(w, "pool", PoolAbort.NotRegistered)
    ELSE IF Registration(w, x, p).pool # p THEN Failed(w, "pool", PoolAbort.PoolIdMismatch)
    ELSE result

NewRegistration(w, p, n) ==
    [pool |-> p, debt |-> n * w.pools[p].index, index |-> w.pools[p].index, paid |-> 0]

Register(w, p, x) ==
    LET n == w.stakes[x].amount IN
    IF HasRegistration(w, x, p) THEN Failed(w, "pool", PoolAbort.AlreadyRegistered)
    ELSE IF w.pools[p].staked_shares + n > MaxU64 THEN Overflow(w)
    ELSE Done([w EXCEPT
           !.stakes[x].registrations = With(@, CurrencyOf[p], NewRegistration(w, p, n)),
           !.pools[p].staked_shares = @ + n])

UndrainedFault(w, x, p) == TRUE
Drained(w, x, p) == calculate_reward(w, x, p) = 0

Unregister(w, p, x) ==
    AsRegistered(w, x, p,
        IF ~Drained(w, x, p) THEN Failed(w, "pool", PoolAbort.LastClaimIndexMismatch)
        ELSE Done([w EXCEPT
               !.pools[p].forfeited = @ + Owed(w, x, p),
               !.pools[p].exits = @ + 1,
               !.pools[p].staked_shares = @ - w.stakes[x].amount,
               !.stakes[x].registrations = Without(@, CurrencyOf[p])]))

WholeCreditFault(w, x, p) == w.stakes[x].amount * w.pools[p].index

DebtAfterClaim(w, x, p) == Registration(w, x, p).debt + calculate_reward(w, x, p) * P

\* Every check comes before the first change.
Claim(w, p, x) ==
    AsRegistered(w, x, p,
        LET reward == calculate_reward(w, x, p) IN
        IF reward > w.pools[p].balance THEN Overflow(w)
        ELSE Returns([w EXCEPT
               !.stakes[x].registrations[CurrencyOf[p]].debt = DebtAfterClaim(w, x, p),
               !.stakes[x].registrations[CurrencyOf[p]].paid = @ + reward,
               !.pools[p].balance = @ - reward], reward))

Pending(w, p, x) == IF RegisteredIn(w, x, p) THEN calculate_reward(w, x, p) ELSE 0

--------------------------------------------------------------------------------
(* stake.rs and routed.rs *)

NewStake(w, x, n) ==
    IF n = 0 THEN Failed(w, "stake", StakeAbort.ZeroBalance)
    ELSE Done([w EXCEPT !.stakes =
                 With(@, x, [amount |-> n, registrations |-> [c \in {} |-> 0]])])

DestroyStake(w, x) ==
    IF w.stakes[x].registrations # [c \in {} |-> 0]
    THEN Failed(w, "stake", StakeAbort.PoolsRegistered)
    ELSE Returns([w EXCEPT !.stakes = Without(@, x)], w.stakes[x].amount)

\* A routed stake keeps the parent it was made for and the pool of its route.
RoutedNew(w, r, parent, n, d) ==
    NewStake([w EXCEPT !.routed = With(@, r, [parent |-> parent, pool |-> d])], r, n)

AsParent(w, r, parent, result) ==
    IF w.routed[r].parent # parent
    THEN Failed(w, "routed_stake", RoutedAbort.NotDerivedFromParent)
    ELSE result

OnPosition(w, r, result) ==
    IF ~Exists(w, r) THEN Failed(w, "routed_stake", RoutedAbort.NoStake) ELSE result

RoutedRegister(w, r, parent, p) == AsParent(w, r, parent, OnPosition(w, r, Register(w, p, r)))

RoutedUnregister(w, r, parent, p) ==
    AsParent(w, r, parent, OnPosition(w, r, Unregister(w, p, r)))

\* The stake is taken out before destroy finds it registered.
RoutedUnstake(w, r, parent) ==
    AsParent(w, r, parent, OnPosition(w, r,
        [DestroyStake(w, r) EXCEPT !.world.stakes = Without(@, r)]))

RoutedRestake(w, r, parent, n) ==
    AsParent(w, r, parent,
        IF Exists(w, r) THEN Failed(w, "routed_stake", RoutedAbort.StakeExists)
        ELSE NewStake(w, r, n))

Forward(w, d, v) ==
    IF v = 0 THEN Done(w)
    ELSE IF w.pools[d].staked_shares > 0 THEN Deposit(w, d, v)
    ELSE IF w.pools[d].parked + v > MaxU64 THEN Overflow(w)
    ELSE Done([w EXCEPT !.pools[d].parked = @ + v])

\* The claim is made before the deposit that may fail.
RoutedSweep(w, r, p) ==
    LET d == w.routed[r].pool IN
    IF d = p THEN Malformed(w)
    ELSE OnPosition(w, r,
        AndThen(Claim(w, p, r), LAMBDA after, v : Forward(after, d, v)))

--------------------------------------------------------------------------------
(* distributor.rs and the releases of world.rs *)

Total(s) == FoldFunction(+, 0, s)

Distribution(total, splits) == [i \in DOMAIN splits |-> (total * splits[i]) \div BPS]

ReleaseNew(w, r, splits) ==
    IF Total(splits) # BPS THEN Failed(w, "release", InvalidTrackSplitsSum)
    ELSE Done([w EXCEPT !.releases = With(@, r, [splits |-> splits, balance |-> 0])])

ReleaseFund(w, r, v) ==
    IF w.releases[r].balance + v > MaxU64 THEN Overflow(w)
    ELSE Done([w EXCEPT !.releases[r].balance = @ + v])

\* What flooring leaves stays on the release; amounts beyond the total underflow.
ReleaseDistribute(w, r) ==
    LET total == w.releases[r].balance
        sent == Total(Distribution(total, w.releases[r].splits)) IN
    IF total = 0 THEN Done(w)
    ELSE IF sent > total THEN Overflow(w)
    ELSE Returns([w EXCEPT !.releases[r].balance = total - sent], sent)

--------------------------------------------------------------------------------
(* world.rs *)

\* An op that names an unknown stake, routed stake or release, or makes one again.
NamesWrongId(w, op) ==
    CASE op.op = "new_stake" -> Exists(w, op.stake)
      [] op.op = "routed_new" -> op.routed \in DOMAIN w.routed
      [] op.op = "release_new" -> op.release \in DOMAIN w.releases
      [] op.op \in {"destroy_stake", "register", "unregister", "claim", "pending"} ->
           ~Exists(w, op.stake)
      [] op.op \in {"release_fund", "release_distribute"} ->
           op.release \notin DOMAIN w.releases
      [] op.op \in {"deposit", "settle"} -> FALSE
      [] OTHER -> op.routed \notin DOMAIN w.routed

apply_inner(w, op) ==
    IF NamesWrongId(w, op) THEN Malformed(w) ELSE
    CASE op.op = "deposit"             -> Deposit(w, op.pool, op.value)
      [] op.op = "settle"              -> Settle(w, op.pool)
      [] op.op = "register"            -> Register(w, op.pool, op.stake)
      [] op.op = "unregister"          -> Unregister(w, op.pool, op.stake)
      [] op.op = "claim"               -> Claim(w, op.pool, op.stake)
      [] op.op = "pending"             -> Returns(w, Pending(w, op.pool, op.stake))
      [] op.op = "new_stake"           -> NewStake(w, op.stake, op.amount)
      [] op.op = "destroy_stake"       -> DestroyStake(w, op.stake)
      [] op.op = "routed_new"          ->
           RoutedNew(w, op.routed, op.parent, op.amount, op.routed_pool)
      [] op.op = "routed_register"     -> RoutedRegister(w, op.routed, op.parent, op.stake_pool)
      [] op.op = "routed_unregister"   -> RoutedUnregister(w, op.routed, op.parent, op.stake_pool)
      [] op.op = "routed_unstake"      -> RoutedUnstake(w, op.routed, op.parent)
      [] op.op = "routed_restake"      -> RoutedRestake(w, op.routed, op.parent, op.amount)
      [] op.op = "routed_sweep"        -> RoutedSweep(w, op.routed, op.stake_pool)
      [] op.op = "release_new"         -> ReleaseNew(w, op.release, op.splits)
      [] op.op = "release_fund"        -> ReleaseFund(w, op.release, op.value)
      [] op.op = "release_distribute"  -> ReleaseDistribute(w, op.release)

NotRestoredFault(result) == result.world

\* apply: a failed op leaves the snapshot.
After(result) == IF result.failed THEN world ELSE result.world

\* Bounds on what is explored.
Within(op) ==
    /\ op.op \in {"deposit", "release_fund"} => minted + op.value <= MaxDeposits
    /\ op.op = "unregister" => world.pools[op.pool].exits < MaxExits
    /\ op.op = "routed_unregister" => world.pools[op.stake_pool].exits < MaxExits

Apply(op) ==
    LET result == apply_inner(world, op) IN
    /\ Within(op)
    /\ world' = After(result)
    /\ minted' = minted + IF ~result.failed /\ op.op \in {"deposit", "release_fund"}
                          THEN op.value ELSE 0
    /\ paidOut' = paidOut + IF ~result.failed /\ op.op \in {"claim", "release_distribute"}
                               /\ result.value > 0
                            THEN result.value ELSE 0

PoolOps ==
    [op : {"deposit"}, pool : PoolIds, value : 0..MaxDeposits]
      \cup [op : {"settle"}, pool : PoolIds]

StakeOps ==
    [op : {"new_stake"}, stake : StakeIds, amount : Amounts]
      \cup [op : {"destroy_stake"}, stake : StakeIds]
      \cup [op : {"register", "unregister", "claim", "pending"},
             pool : PoolIds, stake : StakeIds]

RoutedOps ==
    [op : {"routed_new"}, routed : RoutedIds, parent : Parents, amount : Amounts,
     routed_pool : PoolIds]
      \cup [op : {"routed_register", "routed_unregister"}, routed : RoutedIds,
             parent : Parents, stake_pool : PoolIds]
      \cup [op : {"routed_unstake"}, routed : RoutedIds, parent : Parents]
      \cup [op : {"routed_restake"}, routed : RoutedIds, parent : Parents, amount : Amounts]
      \cup [op : {"routed_sweep"}, routed : RoutedIds, stake_pool : PoolIds]

ReleaseOps ==
    [op : {"release_new"}, release : ReleaseIds, splits : Splits]
      \cup [op : {"release_fund"}, release : ReleaseIds, value : 1..MaxDeposits]
      \cup [op : {"release_distribute"}, release : ReleaseIds]

Next ==
    \/ \E op \in PoolOps : Apply(op)
    \/ \E op \in StakeOps : Apply(op)
    \/ \E op \in RoutedOps : Apply(op)
    \/ \E op \in ReleaseOps : Apply(op)

Spec == Init /\ [][Next]_vars

--------------------------------------------------------------------------------
(* invariants.rs: the checks made after every op *)

registrations_in_pool(p) == {x \in DOMAIN world.stakes : RegisteredIn(world, x, p)}

check_b1(p) ==
    SumFunction([x \in registrations_in_pool(p) |-> calculate_reward(world, x, p)])
      <= world.pools[p].balance

check_b2(p) ==
    LET q == world.pools[p]
        owed == [x \in registrations_in_pool(p) |-> Owed(world, x, p)] IN
    /\ \A x \in DOMAIN owed : owed[x] >= 0
    /\ q.balance * P = SumFunction(owed) + q.carry + q.forfeited

check_b4(p) ==
    LET q == world.pools[p] IN
    IF q.fold_shares = 0 THEN q.carry = 0 ELSE q.carry < q.fold_shares

check_b8(p) ==
    LET q == world.pools[p] IN q.exits > 0 => q.forfeited < P * q.exits

check_accumulator_identity(p) ==
    world.pools[p].ideal * P - world.pools[p].drift = world.pools[p].index * Scale

check_c4_exact(p) ==
    \A x \in registrations_in_pool(p) :
        LET reg == Registration(world, x, p)
            moved == world.pools[p].index - reg.index IN
        /\ moved >= 0
        /\ reg.paid + calculate_reward(world, x, p)
             = (world.stakes[x].amount * moved) \div P

\* I-A2: what a distribution leaves is less than a unit per track.
check_distribution(r) ==
    LET release == world.releases[r]
        result == ReleaseDistribute(world, r) IN
    release.balance > 0 =>
        ~result.failed /\ result.world.releases[r].balance < Cardinality(DOMAIN release.splits)

--------------------------------------------------------------------------------
(* Properties *)

\* The simulator's solvency and conservation checks never report: the scaled balance
\* is what is owed, the carry and what exits forfeited, to the unit.
ConservationExact == \A p \in PoolIds : check_b1(p) /\ check_b2(p)

\* What apply, I-A1 and I-C1 promise: no op, failed or not, makes or loses currency, and
\* a sweep that fails in the second pool leaves the first as it was.
WorldConserves ==
    minted = paidOut
      + SumFunction([p \in PoolIds |-> world.pools[p].balance + world.pools[p].parked])
      + SumFunction([r \in DOMAIN world.releases |-> world.releases[r].balance])

\* I-C4-exact/a never reports: the floored index differs from the exact one by the
\* carry drift alone, however the divisor changed between folds.
AccumulatorIdentity == \A p \in PoolIds : check_accumulator_identity(p)

\* I-C4-exact/b never reports: a registration was paid, and is pending, its floored
\* share of the index's whole movement, however often it claimed.
PayoutIdentity == \A p \in PoolIds : check_c4_exact(p)

\* I-B4, I-B8 and I-A2 never report: the carry is below the divisor of the last fold, an
\* exit forfeits less than one unit, and any release can be distributed at any time,
\* leaving less than one unit per track.
CarryAndResidueBounded ==
    /\ \A p \in PoolIds : check_b4(p) /\ check_b8(p)
    /\ \A r \in DOMAIN world.releases : check_distribution(r)
================================================================================
