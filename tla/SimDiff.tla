-------------------------------- MODULE SimDiff --------------------------------
(***************************************************************************)
(* The differential harness of the audit: scenario.rs runs a scenario file *)
(* on the simulator, movegen.rs writes Move tests for it, and the diff     *)
(* command of main.rs installs them, runs the package's tests and reads    *)
(* AGREE or DISAGREE out of their output.                                  *)
(*                                                                         *)
(* A file lists ops of SimWorld, each with what it expects.  A test is a   *)
(* list of calls with what is asserted after each.  The chain behaves as   *)
(* the simulator does but for one deviation, which the harness is there to *)
(* find.  Names and identifiers are sequences of words.                    *)
(***************************************************************************)
EXTENDS Integers, FiniteSets, SequencesExt

CONSTANTS
    PoolIds, RoutedIds,        \* of any file; all its pools are in its setup
    Parent, WrongParent,       \* what wrong_parent makes a routed op name
    MaxU64, P, Scale,          \* SimWorld's
    SITE_BUDGET,               \* assertions of a test that asserts everything
    ASSERT_SITE_BUDGET,        \* ops of a longer test that assert a balance
    LocalSlots,                \* statements and assertions of a Move function
    ArenaLimit,                \* modules the Move compiler takes
    Batches,                   \* the command lines explored: sequences of files
    Leftovers,                 \* what earlier runs left in the directory
    Deviations(_)              \* of the chain, in the ops of a file

\* A command line names files, and a file's name is a sequence of words.  The command line
\* without files, on which nothing is done, is left out.
ASSUME BatchesAssumption ==
    \A batch \in Batches :
        /\ batch \in Seq(Range(batch)) \ {<<>>}
        /\ \A file \in Range(batch) : file.name.words \in Seq(STRING)

VARIABLES
    stage,       \* of the diff command
    paths,       \* the files on the command line
    deviation,   \* of the chain, in an op of the first file
    gen_dir,     \* the modules in routed-stake/tests/gen, by identifier
    planned,     \* what generate returned for each file so far
    output,      \* the lines that `sui move test` printed
    verdicts     \* what diff printed for each file

vars == <<stage, paths, deviation, gen_dir, planned, output, verdicts>>

Sim == INSTANCE SimWorld WITH
    StakeIds <- {}, ReleaseIds <- {}, Parents <- {Parent, WrongParent},
    CurrencyOf <- [p \in PoolIds |-> 0], Amounts <- {}, Splits <- {}, BPS <- 1,
    MaxDeposits <- 0, MaxExits <- 0, world <- 0, minted <- 0, paidOut <- 0

--------------------------------------------------------------------------------
(* scenario.rs *)

NotExpected == -3

Starting(pools, file) ==
    [Sim!NewWorld(pools) EXCEPT !.stakes = [s \in DOMAIN file.stakes |->
        [amount |-> file.stakes[s], registrations |-> [c \in {} |-> 0]]]]

build_world(file) == Starting(PoolIds, file)

Applied(w, result) == IF result.failed THEN w ELSE result.world

\* What is made of an op's result.
Try(w, raw, Of(_)) == Of(Sim!apply_inner(w, raw))

\* An expected reward is whatever number an op returns.
MeetsExpect(e, result) ==
    IF result.failed THEN result.why.location # "WorldError" /\ result.why.code = e.abort
    ELSE e.abort = NotExpected /\ e.reward \in {NotExpected, result.value}

\* The checks of the world after each op are SimWorld's properties, and pass.
RunOp(st, raw) ==
    Try(st.world, raw, LAMBDA result :
        [world  |-> Applied(st.world, result),
         passed |-> st.passed /\ MeetsExpect(raw.expect, result)])

run_scenario(file) ==
    FoldLeft(RunOp, [world |-> build_world(file), passed |-> TRUE], file.ops)

--------------------------------------------------------------------------------
(* movegen.rs: what a test asserts *)

\* Every run of other characters becomes one underscore, letters lose their case.
ident(name) == name.words

Stakes(file) ==
    Cardinality(DOMAIN file.stakes)
      + Cardinality({i \in DOMAIN file.ops : file.ops[i].op = "new_stake"})

AtLeastOne(n) == IF n = 0 THEN 1 ELSE n

Dense(file, end) == end * (3 + AtLeastOne(Stakes(file))) <= SITE_BUDGET

Stride(end) == AtLeastOne((end + ASSERT_SITE_BUDGET - 1) \div ASSERT_SITE_BUDGET)

Level(file, end, i) ==
    IF Dense(file, end) \/ i = end THEN "Full"
    ELSE IF (i - 1) % Stride(end) = 0 THEN "Balance"
    ELSE "None"

WithoutCarryFault(level) ==
    CASE level = "Full"    -> {"balance", "staked_shares", "index"}
      [] level = "Balance" -> {"balance"}
      [] level = "None"    -> {}

Fields(level) ==
    CASE level = "Full"    -> {"balance", "staked_shares", "index", "carry"}
      [] level = "Balance" -> {"balance"}
      [] level = "None"    -> {}

Observed(w, p, level) == [f \in Fields(level) |-> w.pools[p][f]]

\* Stakes of the file are asserted; a routed stake's only where the op took it.
Asserted(w, p, routed, level) ==
    {x \in (DOMAIN w.stakes \ RoutedIds) \cup routed :
        level = "Full" /\ Sim!Exists(w, x) /\ Sim!RegisteredIn(w, x, p)}

assert_pool_state(w, p, routed, level) ==
    [pool    |-> p,
     fields  |-> Observed(w, p, level),
     pending |-> [x \in Asserted(w, p, routed, level) |-> Sim!calculate_reward(w, x, p)]]

--------------------------------------------------------------------------------
(* movegen.rs: one op *)

Named(w, raw) ==
    CASE raw.op \in {"new_stake", "destroy_stake", "routed_new"} -> {}
      [] raw.op = "routed_register" -> {raw.stake_pool}
      [] raw.op = "routed_sweep"    -> {raw.stake_pool, w.routed[raw.routed].pool}
      [] OTHER -> {raw.pool}

Changed(w, raw) == IF raw.op = "pending" THEN {} ELSE Named(w, raw)

\* Whose stake the assertions on a pool of the op may read.
TakenWith(p, raw) ==
    IF raw.op \in {"routed_register", "routed_sweep"} /\ raw.stake_pool = p
    THEN {raw.routed} ELSE {}

Unsupported(w, made, raw) ==
    \/ raw.op \in {"routed_unregister", "routed_unstake", "routed_restake",
                   "release_new", "release_fund", "release_distribute"}
    \/ raw.op = "routed_register" /\ raw.parent = WrongParent
    \/ ~(Named(w, raw) \subseteq made)

NothingParkedFault(w, p) == w.pools[p].parked = 0

\* Only then is the settle that the test makes the one the op means.
GenuineSettle(w, p) == w.pools[p].parked = 0 \/ w.pools[p].staked_shares = 0

\* The unit VM never shows settled funds: what settle would take is deposited.
Call(w, raw) ==
    IF raw.op = "settle" /\ ~GenuineSettle(w, raw.pool)
    THEN [op |-> "deposit", pool |-> raw.pool, value |-> w.pools[raw.pool].parked]
    ELSE raw

\* A genuine settle is held to an unchanged balance at any level.
PoolAsserts(w, raw, result, level) ==
    IF result.failed THEN {}
    ELSE {assert_pool_state(result.world, p, TakenWith(p, raw), level) : p \in Changed(w, raw)}
           \cup IF raw.op = "settle" /\ GenuineSettle(w, raw.pool)
                THEN {assert_pool_state(w, raw.pool, {}, "Balance")} ELSE {}

\* The value the test asserts of the call's.
ReturnAssert(w, raw, result, level) ==
    IF \/ raw.op = "pending"
       \/ raw.op = "claim" /\ ~result.failed /\ level = "Full"
       \/ raw.op = "settle" /\ GenuineSettle(w, raw.pool)
    THEN {result.value}
    ELSE {}

emit_op(w, raw, result, level) ==
    [call    |-> Call(w, raw),
     asserts |-> PoolAsserts(w, raw, result, level),
     returns |-> ReturnAssert(w, raw, result, level)]

--------------------------------------------------------------------------------
(* movegen.rs: a test, and the module of a file *)

RoutedPools(ops) == {ops[i].routed_pool : i \in {j \in DOMAIN ops : ops[j].op = "routed_new"}}

\* The pool of a routed stake is made by the op that makes the routed stake.
routed_pool_ids(file) == RoutedPools(file.ops)

Bails(st, raw, result, final) ==
    \/ result.failed /\ (~final \/ result.why.location = "WorldError")
    \/ Unsupported(st.world, st.made, raw)

Emitted(st, raw, level, final) ==
    Try(st.world, raw, LAMBDA result :
        IF st.error \/ Bails(st, raw, result, final) THEN [st EXCEPT !.error = TRUE]
        ELSE [world |-> Applied(st.world, result),
              made  |-> st.made \cup RoutedPools(<<raw>>),
              body  |-> Append(st.body, emit_op(st.world, raw, result, level)),
              error |-> FALSE])

\* The first `end` ops, the last of which may abort if the test is an abort's.
build_test_fn(file, end, abort) ==
    FoldLeft(LAMBDA st, i : Emitted(st, file.ops[i], Level(file, end, i), abort /\ i = end),
             [world |-> build_world(file), made |-> PoolIds \ routed_pool_ids(file),
              body |-> <<>>, error |-> FALSE],
             [i \in 1..end |-> i])

Aborts(file) == {i \in DOMAIN file.ops : file.ops[i].expect.abort # NotExpected}

AbortAt(file) == Min(Aborts(file))

\* The dry run keeps the module of the latest abort up to the expected one.
Location(file) ==
    FoldLeft(LAMBDA st, raw :
                 Try(st.world, raw, LAMBDA result :
                     [world |-> Applied(st.world, result),
                      where |-> IF result.failed THEN result.why.location ELSE st.where]),
             [world |-> build_world(file), where |-> "none"],
             SubSeq(file.ops, 1, AbortAt(file))).where

NoAbort == [location |-> "none", code |-> NotExpected]

Test(file, suffix, built, expects) ==
    [fn |-> ident(file.name) \o suffix, body |-> built.body, expects |-> expects]

WholeTest(file, whole) ==
    [error |-> whole.error, tests |-> {Test(file, <<>>, whole, NoAbort)}]

AbortTests(file, prefix, abort, location) ==
    [error |-> \/ prefix.error \/ abort.error
               \/ location \in {"none", "WorldError", "ARITHMETIC_ERROR"},
     tests |-> {Test(file, <<"abort">>, abort,
                     [location |-> location, code |-> file.ops[AbortAt(file)].expect.abort])}
                 \cup IF AbortAt(file) = 1 THEN {}
                      ELSE {Test(file, <<"prefix">>, prefix, NoAbort)}]

\* The ops from the first that is expected to abort on are in no test but that op's.
generate(file) ==
    IF Aborts(file) = {} THEN WholeTest(file, build_test_fn(file, Len(file.ops), FALSE))
    ELSE AbortTests(file, build_test_fn(file, AbortAt(file) - 1, FALSE),
                    build_test_fn(file, AbortAt(file), TRUE), Location(file))

--------------------------------------------------------------------------------
(* The chain *)

NoDeviation == [at |-> 0]

\* What op i does on the chain instead.
Deviating(w, result, i, d) ==
    IF d.at # i THEN result
    ELSE CASE d.as = "aborts" -> Sim!Failed(w, "pool", Sim!PoolAbort.NoStakedShares)
           [] d.as = "accepts" -> IF result.failed THEN Sim!Done(w) ELSE result
           [] OTHER ->
                IF result.failed \/ d.pool \notin DOMAIN result.world.pools THEN result
                ELSE [result EXCEPT !.world.pools[d.pool][d.as] = @ + 1]

\* A routed stake and the pool of its route are made under one parent.
OnChain(w, raw) ==
    Sim!apply_inner(IF raw.op # "routed_new" THEN w
                    ELSE [w EXCEPT !.pools = Sim!With(@, raw.routed_pool, Sim!NewPool)], raw)

\* What is sent to a pool's address in the unit VM is gone.
Forgotten(w) == [w EXCEPT !.pools = [p \in DOMAIN @ |-> [@[p] EXCEPT !.parked = 0]]]

\* In the unit VM no funds ever settle.
InUnitVM(w, call) ==
    IF call.op = "settle" THEN Sim!Returns(w, 0) ELSE OnChain(Forgotten(w), call)

Holds(result, statement) ==
    /\ \A a \in statement.asserts :
          /\ \A f \in DOMAIN a.fields : result.world.pools[a.pool][f] = a.fields[f]
          /\ \A x \in DOMAIN a.pending :
                Sim!Pending(result.world, a.pool, x) = a.pending[x]
    /\ statement.returns \subseteq {result.value}

Stepped(st, statement, result) ==
    IF st.ends # NoAbort THEN st
    ELSE IF result.failed THEN [st EXCEPT !.ends = result.why]
    ELSE [world |-> result.world,
          ends  |-> IF Holds(result, statement) THEN NoAbort
                    ELSE [location |-> "unit_test", code |-> 0]]

Step(st, statement, i, d) ==
    Stepped(st, statement, Deviating(st.world, InUnitVM(st.world, statement.call), i, d))

\* A deposit that stands for a settle shows nothing of what settle does.
Shown(file, test, i, d) == IF test.body[i].call.op = file.ops[i].op THEN d ELSE NoDeviation

\* A test that expects an abort and gets to its end aborts there, with no module's code.
Passes(file, test, d) ==
    FoldLeft(LAMBDA st, i : Step(st, test.body[i], i, Shown(file, test, i, d)),
             [world |-> Starting(PoolIds \ routed_pool_ids(file), file), ends |-> NoAbort],
             [i \in DOMAIN test.body |-> i]).ends = test.expects

Slots(test) ==
    Len(test.body) + MapThenSumSet(
        LAMBDA i : LET asserted == test.body[i] IN
            Cardinality(asserted.returns) + MapThenSumSet(
                LAMBDA x : Cardinality(DOMAIN x.fields) + Cardinality(DOMAIN x.pending),
                asserted.asserts),
        DOMAIN test.body)

--------------------------------------------------------------------------------
(* main.rs: cmd_diff *)

Init ==
    /\ stage = "clear"
    /\ gen_dir \in Leftovers
    /\ paths \in Batches
    /\ deviation \in Deviations(paths[1])
    /\ planned = <<>> /\ output = {} /\ verdicts = <<>>

Clear ==
    /\ stage = "clear"
    /\ stage' = "plan"
    /\ gen_dir' = [m \in {} |-> 0]
    /\ UNCHANGED <<paths, deviation, planned, output, verdicts>>

\* A file that cannot be generated writes nothing, one of the same identifier is replaced.
Plan ==
    LET file == paths[Len(planned) + 1] IN
    /\ stage = "plan"
    /\ planned' = Append(planned, generate(file))
    /\ gen_dir' = IF Last(planned').error THEN gen_dir
                  ELSE Sim!With(gen_dir, ident(file.name),
                                [file |-> file, tests |-> Last(planned').tests])
    /\ stage' = IF Len(planned') = Len(paths) THEN "test" ELSE "plan"
    /\ UNCHANGED <<paths, deviation, output, verdicts>>

DeviationOf(file) == IF file = paths[1] THEN deviation ELSE NoDeviation

Overrun == \E m \in DOMAIN gen_dir : \E t \in gen_dir[m].tests : Slots(t) > LocalSlots

Line(m, test, timedOut) ==
    [module |-> m, fn |-> test.fn,
     says   |-> IF <<m, test.fn>> \in timedOut THEN "TIMEOUT"
                ELSE IF Passes(gen_dir[m].file, test, DeviationOf(gen_dir[m].file))
                THEN "PASS" ELSE "FAIL"]

TestNames == UNION {{<<m, t.fn>> : t \in gen_dir[m].tests} : m \in DOMAIN gen_dir}

\* A panic is told apart by its text; a package with too many modules prints no test.
SuiMoveTest ==
    /\ stage = "test"
    /\ stage' = IF Overrun THEN "unbuilt" ELSE "report"
    /\ \E timedOut \in {{}} \cup {{name} : name \in TestNames} :
          output' = IF Overrun \/ Cardinality(DOMAIN gen_dir) > ArenaLimit THEN {}
                    ELSE UNION {{Line(m, t, timedOut) : t \in gen_dir[m].tests} :
                                m \in DOMAIN gen_dir}
    /\ UNCHANGED <<paths, deviation, gen_dir, planned, verdicts>>

\* Both searches are for a substring, so a longer name of the same start matches.
PassedLine(m, fn) ==
    \E l \in output : l.module = m /\ IsPrefix(fn, l.fn) /\ l.says = "PASS"

Mentions(fn) == {l \in output : IsPrefix(fn, l.fn) /\ l.says \in {"PASS", "FAIL"}}

UnlessFailedFault(m, fn) == \A l \in Mentions(fn) : l.says # "FAIL"

Agrees(m, fn) ==
    \/ PassedLine(m, fn)
    \/ Mentions(fn) # {} /\ \A l \in Mentions(fn) : l.says # "FAIL"

Verdict(i) ==
    IF planned[i].error THEN "SKIP"
    ELSE IF \A t \in planned[i].tests : Agrees(ident(paths[i].name), t.fn) THEN "AGREE"
    ELSE "DISAGREE"

Report ==
    /\ stage = "report"
    /\ stage' = "done"
    /\ verdicts' = [i \in DOMAIN paths |-> Verdict(i)]
    /\ UNCHANGED <<paths, deviation, gen_dir, planned, output>>

Next == Clear \/ Plan \/ SuiMoveTest \/ Report

Spec == Init /\ [][Next]_vars

--------------------------------------------------------------------------------
(* Properties *)

\* The ops that tests call, and those of them that succeed.
Tested(file) == 1..(IF Aborts(file) = {} THEN Len(file.ops) ELSE AbortAt(file))
Kept(file) == {n \in Tested(file) : file.ops[n].expect.abort = NotExpected}

\* The ops of a file on the simulator, and on the real chain, where funds do settle.
Ended(w, result) == [world |-> Applied(w, result), result |-> result]

Simulated(file, n) ==
    FoldLeft(LAMBDA st, i :
                 Try(st.world, file.ops[i], LAMBDA result : Ended(st.world, result)),
             [world |-> build_world(file)], [i \in 1..n |-> i])

OnTheChain(file, n) ==
    FoldLeft(LAMBDA st, i :
                 Ended(st.world, Deviating(st.world, OnChain(st.world, file.ops[i]), i,
                                           DeviationOf(file))),
             [world |-> Starting(PoolIds \ routed_pool_ids(file), file)], [i \in 1..n |-> i])

SameEnd(r1, r2) == r1.failed = r2.failed /\ (r1.failed => r1.why = r2.why)

Same(sim, chain, raw, fields) ==
    \A p \in Changed(sim.world, raw), f \in fields :
        sim.world.pools[p][f] = chain.world.pools[p][f]

\* What the doc of movegen.rs leaves out: ops, and aborts that are no module's.
LeftOut(file, n, sim) ==
    \/ Unsupported(sim.world,
                   (PoolIds \ routed_pool_ids(file)) \cup RoutedPools(SubSeq(file.ops, 1, n - 1)),
                   file.ops[n])
    \/ n \notin Kept(file) /\ sim.result.why.location = "ARITHMETIC_ERROR"

\* The generator makes the pool of a route anew with each routed stake, the simulator does not.
RoutesApart(file) ==
    \A i, j \in Tested(file) :
        i # j /\ file.ops[i].op = "routed_new" /\ file.ops[j].op = "routed_new" =>
            file.ops[i].routed_pool # file.ops[j].routed_pool

OutOfScope(file) == \E n \in Tested(file) : LeftOut(file, n, Simulated(file, n))

Finished(i) == stage = "done" /\ i \in DOMAIN verdicts

\* No test that is made of another file has a name that starts with this file's.
Apart(i) ==
    \A j \in DOMAIN paths \ {i} : ~planned[j].error =>
        \A t \in planned[j].tests : ~IsPrefix(ident(paths[i].name), t.fn)

\* A settle of parked funds is called in no test.
InSettle(file) == deviation.at \in DOMAIN file.ops /\ file.ops[deviation.at].op = "settle"

SameAfter(file, n, sim, chain) ==
    /\ SameEnd(sim.result, chain.result)
    /\ n \in Kept(file) /\ Dense(file, Cardinality(Kept(file))) =>
          Same(sim, chain, file.ops[n], {"balance", "staked_shares", "index", "carry"})

\* An AGREE on a scenario that passes on the simulator means what NOTES.md takes it to:
\* each op aborted on the chain where it does in the simulator, in the same module with
\* the same code, and a scenario that asserts everything left every pool that an op
\* changed as the simulator has it, carry included.
AgreeMeansSame ==
    \A i \in DOMAIN paths :
        LET file == paths[i] IN
        Finished(i) /\ verdicts[i] = "AGREE" /\ run_scenario(file).passed
          /\ Apart(i) /\ ~InSettle(file) =>
            \A n \in Tested(file) :
                SameAfter(file, n, Simulated(file, n), OnTheChain(file, n))

\* A scenario that passes on the simulator and routes no two stakes to one pool, on a
\* chain that does not deviate, is never a DISAGREE: not for funds that a sweep parked, not
\* for what is left in the directory, not for another scenario of the batch that fails to
\* build.  It is a SKIP only for what the generator's doc leaves out.
PassingAgrees ==
    \A i \in DOMAIN paths :
        LET file == paths[i] IN
        /\ Finished(i) /\ run_scenario(file).passed /\ DeviationOf(file) = NoDeviation
        /\ Apart(i) /\ RoutesApart(file)
        /\ \A l \in output : l.says # "TIMEOUT"
        => verdicts[i] = IF OutOfScope(file) THEN "SKIP" ELSE "AGREE"

\* An AGREE is never read off what another scenario's tests printed: each of the file's
\* own tests is in the directory as generated, and passed in this run.
VerdictIsOwn ==
    \A i \in DOMAIN paths :
        LET m == ident(paths[i].name) IN
        Finished(i) /\ verdicts[i] = "AGREE" /\ Apart(i) =>
            /\ gen_dir[m].file = paths[i]
            /\ \A t \in planned[i].tests : [module |-> m, fn |-> t.fn, says |-> "PASS"] \in output

\* movegen.rs on the levels: intermediate ops "still get the cheap balance check, so a
\* disagreement anywhere is still caught".  After an AGREE, then, no balance of a pool
\* differed after the op that changed it.
DisagreementsCaught ==
    \A i \in DOMAIN paths :
        LET file == paths[i] IN
        Finished(i) /\ verdicts[i] = "AGREE" /\ run_scenario(file).passed =>
            \A n \in Kept(file) :
                Same(Simulated(file, n), OnTheChain(file, n), file.ops[n], {"balance"})
================================================================================
