------------------------------- MODULE MCSimDiff -------------------------------
(***************************************************************************)
(* TLC instance of SimDiff: files of up to three ops, files that go on     *)
(* from a routed stake with something to sweep, and a few batches.         *)
(***************************************************************************)
EXTENDS SimDiff, TLC

CONSTANTS a, b, s, t, r, r2

Ops ==
    {[op |-> "deposit", pool |-> a, value |-> 1],
     [op |-> "deposit", pool |-> b, value |-> 2],
     [op |-> "settle", pool |-> b],
     [op |-> "register", pool |-> a, stake |-> s],
     [op |-> "register", pool |-> b, stake |-> s],
     [op |-> "claim", pool |-> b, stake |-> s],
     [op |-> "pending", pool |-> a, stake |-> s],
     [op |-> "unregister", pool |-> b, stake |-> s],
     [op |-> "new_stake", stake |-> t, amount |-> 0],
     [op |-> "destroy_stake", stake |-> s],
     [op |-> "routed_new", routed |-> r, parent |-> Parent, amount |-> 1, routed_pool |-> b],
     [op |-> "routed_new", routed |-> r2, parent |-> Parent, amount |-> 1, routed_pool |-> b],
     [op |-> "routed_register", routed |-> r, parent |-> Parent, stake_pool |-> a],
     [op |-> "routed_register", routed |-> r, parent |-> WrongParent, stake_pool |-> a],
     [op |-> "routed_unstake", routed |-> r, parent |-> Parent],
     [op |-> "routed_sweep", routed |-> r, stake_pool |-> a]}

RoutedStart ==
    <<[op |-> "routed_new", routed |-> r, parent |-> Parent, amount |-> 1, routed_pool |-> b],
      [op |-> "routed_register", routed |-> r, parent |-> Parent, stake_pool |-> a],
      [op |-> "deposit", pool |-> a, value |-> 1]>>

\* What is swept is parked, and a stake registered afterwards lets it be settled.
ParkedStart ==
    RoutedStart \o <<[op |-> "routed_sweep", routed |-> r, stake_pool |-> a],
                     [op |-> "register", pool |-> b, stake |-> s]>>

Nothing == [reward |-> NotExpected, abort |-> NotExpected]

\* A file as one writes it down from what the simulator does, or with nothing expected.
Recorded(file) ==
    LET Expected(result) ==
            IF result.failed THEN [Nothing EXCEPT !.abort = result.why.code]
            ELSE IF result.value # Sim!NoValue THEN [Nothing EXCEPT !.reward = result.value]
            ELSE Nothing
        Record(st, raw) ==
            Try(st.world, raw, LAMBDA result :
                [world |-> Applied(st.world, result),
                 ops   |-> Append(st.ops, raw @@ [expect |-> Expected(result)])]) IN
    [file EXCEPT !.ops = FoldLeft(Record, [world |-> build_world(file), ops |-> <<>>], @).ops]

Unexpecting(file) == [file EXCEPT !.ops = [i \in DOMAIN @ |-> @[i] @@ [expect |-> Nothing]]]

Scenario(words, spelling, ops) ==
    [name |-> [words |-> words, spelling |-> spelling],
     stakes |-> (s :> 2), ops |-> ops]

File(ops) == Scenario(<<"x">>, "x", ops)

Starts == {raw \in Ops : raw.op \in {"register", "routed_new"}}
Short ==
    {File(ops) : ops \in UNION {[1..n -> Ops] : n \in 1..2}}
      \cup {File(<<first>> \o ops) : first \in Starts, ops \in [1..2 -> Ops]}
Routed ==
    {File(start \o ops) : start \in {RoutedStart, ParkedStart},
                          ops \in UNION {[1..n -> Ops] : n \in 1..2}}
Files == {Recorded(f) : f \in Short \cup Routed} \cup {Unexpecting(f) : f \in Routed}

Paid == <<[op |-> "register", pool |-> a, stake |-> s], [op |-> "deposit", pool |-> a, value |-> 1]>>
Refused == <<[op |-> "deposit", pool |-> a, value |-> 1]>>
Mates ==
    {Recorded(Scenario(words, "mate", ops)) :
        words \in {<<"y">>, <<"x", "y">>, <<"x", "abort">>, <<"x">>}, ops \in {Paid, Refused}}

\* Each pending asserts a value: too many for one function.
Long ==
    Recorded(Scenario(<<"z">>, "z",
        [i \in 1..20 |-> [op |-> "pending", pool |-> a, stake |-> s]]))

MCBatches ==
    {<<f>> : f \in Files}
      \cup {<<Recorded(File(ops)), m>> : ops \in {Paid, Refused, RoutedStart}, m \in Mates \cup {Long}}

\* Files of one pool and one stake, too long to assert everything.
LongBatches ==
    LET ops == {raw \in Ops : raw.op \in {"register", "deposit", "pending"} /\ raw.pool = a} IN
    {<<Recorded(File(f))>> : f \in [1..4 -> ops]}

Installed(f) == [m \in {ident(f.name)} |-> [file |-> f, tests |-> generate(f).tests]]
\* With one of its own, a batch would have more modules than the compiler takes.
MCLeftovers ==
    {Installed(Recorded(Scenario(<<"u">>, "u", Paid)))
       @@ Installed(Recorded(Scenario(<<"v">>, "v", Refused)))}

MCDeviations(file) ==
    {NoDeviation}
      \cup [at : DOMAIN file.ops, as : {"balance", "carry"}, pool : PoolIds]
      \cup [at : DOMAIN file.ops, as : {"aborts", "accepts"}]
================================================================================
