-------------------------------- MODULE SimFuzz --------------------------------
(***************************************************************************)
(* The fuzzer of the audit's simulator (royalty-sim/src/fuzz.rs): run_one  *)
(* draws ops for one pool, keeping its own account of the live stakes and  *)
(* of the shares under the profile's supply cap; replay runs an op list    *)
(* from an empty world, and shrink drops ops while replay still reports.   *)
(* Random draws are choices; Violating stands for an invariant that some   *)
(* defect of the simulated pool would break.                               *)
(***************************************************************************)
EXTENDS Integers, FiniteSets, SequencesExt

CONSTANTS
    Pool,
    AmountBuckets, DepositBuckets, MaxLive, Supply,   \* the profile
    OpCount,
    MaxU64, P, Scale,
    Violating(_)                                      \* a check reports in this world

ASSUME ConstantsAssumption ==
    /\ AmountBuckets \subseteq Nat \ {0} /\ DepositBuckets \subseteq Nat
    /\ MaxLive \in Nat /\ Supply \in Nat /\ OpCount \in Nat
    /\ MaxU64 \in Nat /\ P \in Nat \ {0} /\ Scale \in Nat

ASSUME ScaleDivides == \A n \in 1..MaxU64 : Scale % n = 0

VARIABLES
    world,
    ops,                \* the op list of the run
    live,               \* stakes the generator takes for registered
    total_registered,   \* shares it counts against the supply
    violated            \* a check reported and ended the run

vars == <<world, ops, live, total_registered, violated>>

Sim == INSTANCE SimWorld WITH
    PoolIds <- {Pool}, StakeIds <- 1..OpCount, RoutedIds <- {}, ReleaseIds <- {},
    Parents <- {}, CurrencyOf <- [p \in {Pool} |-> 0], Amounts <- AmountBuckets,
    Splits <- {}, BPS <- 1, MaxDeposits <- 0, MaxExits <- 0, minted <- 0, paidOut <- 0

NewWorld == Sim!NewWorld({Pool})

Init ==
    /\ world = NewWorld
    /\ ops = <<>> /\ live = {} /\ total_registered = 0 /\ violated = FALSE

--------------------------------------------------------------------------------
(* Ops and replay *)

DepositOp(v) == [op |-> "deposit", pool |-> Pool, value |-> v]
NewStakeOp(s, n) == [op |-> "new_stake", stake |-> s, amount |-> n]
StakeOp(name, s) == [op |-> name, pool |-> Pool, stake |-> s]

\* replay ends at the first error, an unknown id or an abort, and at the first report.
ReplayOne(st, raw) ==
    LET result == Sim!apply_inner(st.world, raw) IN
    IF st.end # "none" THEN st
    ELSE [world |-> result.world,
          end   |-> IF Sim!NamesWrongId(st.world, raw) THEN "unknown"
                    ELSE IF result.failed THEN "abort"
                    ELSE IF Violating(result.world) THEN "violation" ELSE "none"]

Replayed(list) ==
    LET run[n \in 0..Len(list)] ==
          IF n = 0 THEN [world |-> NewWorld, end |-> "none"]
          ELSE ReplayOne(run[n - 1], list[n])
    IN  run[Len(list)]

replay(list) == Replayed(list).end

AnyEndFault(list, i) == Len(list) > 1 /\ replay(RemoveAt(list, i)) # "none"

StillReports(list, i) == Len(list) > 1 /\ replay(RemoveAt(list, i)) = "violation"

Dropped(list, i) == IF StillReports(list, i) THEN RemoveAt(list, i) ELSE list

DropLastFirst(list) ==
    LET pass[n \in 0..Len(list)] ==
          IF n = 0 THEN list ELSE Dropped(pass[n - 1], Len(list) + 1 - n)
    IN  pass[Len(list)]

\* Passes until one removes nothing: every other one shortens the list, and further ones
\* change nothing, so there are no more to make than the list has ops.
shrink(list) ==
    LET passes[n \in 0..Len(list)] ==
          IF n = 0 THEN list ELSE DropLastFirst(passes[n - 1])
    IN  passes[Len(list)]

\* A scenario file that the fuzzer dumped has no expect blocks: each op is applied to
\* what the last one left, an abort fails the scenario and does not end it.
ScenarioOp(st, raw) ==
    LET result == Sim!apply_inner(st.world, raw)
        reports == ~result.failed /\ Violating(result.world) IN
    [world    |-> IF result.failed THEN st.world ELSE result.world,
     passed   |-> st.passed /\ ~result.failed /\ ~reports,
     reported |-> st.reported \/ reports]

run_scenario(list) ==
    LET run[n \in 0..Len(list)] ==
          IF n = 0 THEN [world |-> NewWorld, passed |-> TRUE, reported |-> FALSE]
          ELSE ScenarioOp(run[n - 1], list[n])
    IN  run[Len(list)]

--------------------------------------------------------------------------------
(* run_one *)

Room == IF total_registered > Supply THEN 0 ELSE Supply - total_registered

RegisterUnavailable == Room = 0 \/ Cardinality(live) >= MaxLive

Available(kind) == IF kind = "register" THEN ~RegisterUnavailable ELSE live # {}

\* What is drawn instead of a kind whose precondition does not hold.
Drawn(kind) ==
    IF Available(kind) THEN kind
    ELSE IF live = {} /\ ~RegisterUnavailable THEN "register"
    ELSE "deposit"

NextStakeId == Cardinality(DOMAIN world.stakes) + 1

\* Each op of a step is applied and kept, aborted or not; a failed register undoes the
\* account that was made in advance.
ApplyOne(st, raw) ==
    LET result == Sim!apply_inner(st.world, raw)
        after == IF result.failed THEN st.world ELSE result.world
        undone == raw.op = "register" /\ result.failed IN
    IF st.violated \/ Len(st.ops) = OpCount THEN st
    ELSE [world    |-> after,
          ops      |-> Append(st.ops, raw),
          live     |-> IF undone THEN st.live \ {raw.stake} ELSE st.live,
          total    |-> IF undone THEN st.total - after.stakes[raw.stake].amount ELSE st.total,
          violated |-> ~result.failed /\ Violating(after)]

\* A step begins with the account as it will be once its ops have succeeded.
Begun(nowLive, total) ==
    [world |-> world, ops |-> ops, live |-> nowLive, total |-> total, violated |-> violated]

Ended(st) ==
    /\ world' = st.world
    /\ ops' = st.ops
    /\ live' = st.live
    /\ total_registered' = st.total
    /\ violated' = st.violated

OneOp(raw) == Ended(ApplyOne(Begun(live, total_registered), raw))

TwoOps(first, second, nowLive, total) ==
    Ended(ApplyOne(ApplyOne(Begun(nowLive, total), first), second))

DrawDeposit(v) == OneOp(DepositOp(v))

DrawClaim(s) == OneOp(StakeOp("claim", s))

Capped(n) == IF n > Room THEN Room ELSE n

DrawRegister(n) ==
    TwoOps(NewStakeOp(NextStakeId, Capped(n)), StakeOp("register", NextStakeId),
           live \cup {NextStakeId}, total_registered + Capped(n))

KeptFault(s) == total_registered

Released(s) == total_registered - world.stakes[s].amount

DrawUnregister(s) ==
    TwoOps(StakeOp("claim", s), StakeOp("unregister", s), live \ {s}, Released(s))

Next ==
    /\ ~violated
    /\ Len(ops) < OpCount
    /\ \E kind \in {"deposit", "claim", "register", "unregister"} :
          \/ Drawn(kind) = "deposit" /\ \E v \in DepositBuckets : DrawDeposit(v)
          \/ Drawn(kind) = "claim" /\ \E s \in live : DrawClaim(s)
          \/ Drawn(kind) = "register" /\ \E n \in AmountBuckets : DrawRegister(n)
          \/ Drawn(kind) = "unregister" /\ \E s \in live : DrawUnregister(s)

Spec == Init /\ [][Next]_vars

--------------------------------------------------------------------------------
(* Properties *)

Cut == violated \/ Len(ops) = OpCount

\* Between steps the generator's account is the world's: the live stakes are the
\* registered ones and the shares under the cap are the pool's divisor, although it is
\* written before the ops run and is mended only for a failed register.
BookkeepingExact ==
    ~Cut =>
        /\ live = {s \in DOMAIN world.stakes : Sim!RegisteredIn(world, s, Pool)}
        /\ total_registered = world.pools[Pool].staked_shares
        /\ total_registered <= Supply

\* What run_fuzz dumps of a run that reported is a scenario that reports when it is run,
\* although shrink judges its candidates by replay, which ends at an abort that the run
\* and run_scenario both go past: what shrink shortened replays, and what it could not
\* shorten is the run's own list.
MinimizedReproduces ==
    violated =>
        LET minimized == shrink(ops) IN
        /\ run_scenario(minimized).reported
        /\ minimized # ops => replay(minimized) = "violation"

\* fuzz.rs on replay: it returns the first violation "or a structural error if the op
\* list no longer refers to valid ids".  The list of a run refers to valid ids, so the
\* replay of a run that reported reports.
ReplayReproduces == violated => replay(ops) = "violation"
================================================================================
