------------------------------ MODULE SimFuzzProofs ------------------------------
(***************************************************************************)
(* What the fuzzer dumps of a run that reported is a scenario that reports *)
(* when it is run, and the account that run_one keeps in advance is the    *)
(* world's at every draw, for any profile and any length of the run.  The  *)
(* checks that Violating stands for are arbitrary here.                    *)
(***************************************************************************)
EXTENDS SimFuzz, SumTheorems

Ops ==
  {DepositOp(v) : v \in DepositBuckets}
    \cup {NewStakeOp(s, n) : s \in 1..OpCount, n \in Nat}
    \cup {StakeOp(name, s) : name \in {"register", "claim", "unregister"}, s \in 1..OpCount}

--------------------------------------------------------------------------------
(* An op list, one op at a time.  Each fold is a recursive function chosen for its      *)
(* equation: that there is one is proved first.                                         *)

Replays(list, g) ==
  /\ g[0] = [world |-> NewWorld, end |-> "none"]
  /\ \A n \in 1..Len(list) : g[n] = ReplayOne(g[n - 1], list[n])

Runs(list, g) ==
  /\ g[0] = [world |-> NewWorld, passed |-> TRUE, reported |-> FALSE]
  /\ \A n \in 1..Len(list) : g[n] = ScenarioOp(g[n - 1], list[n])

Drops(list, g) ==
  /\ g[0] = list
  /\ \A n \in 1..Len(list) : g[n] = Dropped(g[n - 1], Len(list) + 1 - n)

Shrinks(list, g) ==
  /\ g[0] = list
  /\ \A n \in 1..Len(list) : g[n] = DropLastFirst(g[n - 1])

LEMMA ReplayedSteps ==
  ASSUME NEW list, Len(list) \in Nat
  PROVE  \E g : Replays(list, g) /\ Replayed(list) = g[Len(list)]
<1> DEFINE N == Len(list)
           first == [world |-> NewWorld, end |-> "none"]
           Body(g, n) == IF n = 0 THEN first ELSE ReplayOne(g[n - 1], list[n])
           Upto(m, g) == g = [n \in 0..m |-> Body(g, n)]
           T == {m \in Nat : \E g : Upto(m, g)}
<1> HIDE DEF first
<1>1. 0 \in T
  <2>1. Upto(0, [n \in 0..0 |-> first])
    OBVIOUS
  <2> QED BY <2>1
<1>2. ASSUME NEW m \in T PROVE m + 1 \in T
  <2>1. PICK g : Upto(m, g)
    OBVIOUS
  <2> DEFINE h == [n \in 0..(m + 1) |-> IF n = m + 1 THEN ReplayOne(g[m], list[m + 1]) ELSE g[n]]
  <2>2. m + 1 \in Nat /\ Upto(m + 1, h)
    <3>1. ASSUME NEW n \in 0..(m + 1) PROVE h[n] = Body(h, n)
      <4>1. CASE n = m + 1
        BY <4>1
      <4>2. CASE n # m + 1
        <5>1. n \in 0..m /\ g[n] = Body(g, n)
          BY <2>1, <4>2
        <5>2. h[n] = g[n] /\ (n # 0 => h[n - 1] = g[n - 1])
          BY <4>2, <5>1
        <5> QED BY <5>1, <5>2
      <4> QED BY <4>1, <4>2
    <3> QED BY <3>1
  <2> HIDE DEF Upto, h
  <2> QED BY <2>2
<1>3. T = Nat
  <2> T \in SUBSET Nat
    OBVIOUS
  <2> HIDE DEF T
  <2> QED BY <1>1, <1>2, NatSetInduction
<1>4. \E g : Upto(N, g)
  BY <1>3
<1> DEFINE run == CHOOSE g : Upto(N, g)
<1>5. Upto(N, run) /\ Replayed(list) = run[N]
  BY <1>4 DEF Replayed, first
<1> HIDE DEF run
<1>6. Replays(list, run)
  <2>1. run[0] = first
    BY <1>5
  <2>2. \A n \in 1..N : run[n] = ReplayOne(run[n - 1], list[n])
    BY <1>5
  <2> QED BY <2>1, <2>2 DEF Replays, first
<1> QED BY <1>5, <1>6

LEMMA ScenarioSteps ==
  ASSUME NEW list, Len(list) \in Nat
  PROVE  \E g : Runs(list, g) /\ run_scenario(list) = g[Len(list)]
<1> DEFINE N == Len(list)
           first == [world |-> NewWorld, passed |-> TRUE, reported |-> FALSE]
           Body(g, n) == IF n = 0 THEN first ELSE ScenarioOp(g[n - 1], list[n])
           Upto(m, g) == g = [n \in 0..m |-> Body(g, n)]
           T == {m \in Nat : \E g : Upto(m, g)}
<1> HIDE DEF first
<1>1. 0 \in T
  <2>1. Upto(0, [n \in 0..0 |-> first])
    OBVIOUS
  <2> QED BY <2>1
<1>2. ASSUME NEW m \in T PROVE m + 1 \in T
  <2>1. PICK g : Upto(m, g)
    OBVIOUS
  <2> DEFINE h == [n \in 0..(m + 1) |-> IF n = m + 1 THEN ScenarioOp(g[m], list[m + 1]) ELSE g[n]]
  <2>2. m + 1 \in Nat /\ Upto(m + 1, h)
    <3>1. ASSUME NEW n \in 0..(m + 1) PROVE h[n] = Body(h, n)
      <4>1. CASE n = m + 1
        BY <4>1
      <4>2. CASE n # m + 1
        <5>1. n \in 0..m /\ g[n] = Body(g, n)
          BY <2>1, <4>2
        <5>2. h[n] = g[n] /\ (n # 0 => h[n - 1] = g[n - 1])
          BY <4>2, <5>1
        <5> QED BY <5>1, <5>2
      <4> QED BY <4>1, <4>2
    <3> QED BY <3>1
  <2> HIDE DEF Upto, h
  <2> QED BY <2>2
<1>3. T = Nat
  <2> T \in SUBSET Nat
    OBVIOUS
  <2> HIDE DEF T
  <2> QED BY <1>1, <1>2, NatSetInduction
<1>4. \E g : Upto(N, g)
  BY <1>3
<1> DEFINE run == CHOOSE g : Upto(N, g)
<1>5. Upto(N, run) /\ run_scenario(list) = run[N]
  BY <1>4 DEF run_scenario, first
<1> HIDE DEF run
<1>6. Runs(list, run)
  <2>1. run[0] = first
    BY <1>5
  <2>2. \A n \in 1..N : run[n] = ScenarioOp(run[n - 1], list[n])
    BY <1>5
  <2> QED BY <2>1, <2>2 DEF Runs, first
<1> QED BY <1>5, <1>6

LEMMA PassSteps ==
  ASSUME NEW list, Len(list) \in Nat
  PROVE  \E g : Drops(list, g) /\ DropLastFirst(list) = g[Len(list)]
<1> DEFINE N == Len(list)
           first == list
           Body(g, n) == IF n = 0 THEN first ELSE Dropped(g[n - 1], Len(list) + 1 - n)
           Upto(m, g) == g = [n \in 0..m |-> Body(g, n)]
           T == {m \in Nat : \E g : Upto(m, g)}
<1> HIDE DEF first
<1>1. 0 \in T
  <2>1. Upto(0, [n \in 0..0 |-> first])
    OBVIOUS
  <2> QED BY <2>1
<1>2. ASSUME NEW m \in T PROVE m + 1 \in T
  <2>1. PICK g : Upto(m, g)
    OBVIOUS
  <2> DEFINE h == [n \in 0..(m + 1) |->
                      IF n = m + 1 THEN Dropped(g[m], Len(list) + 1 - (m + 1)) ELSE g[n]]
  <2>2. m + 1 \in Nat /\ Upto(m + 1, h)
    <3>1. ASSUME NEW n \in 0..(m + 1) PROVE h[n] = Body(h, n)
      <4>1. CASE n = m + 1
        BY <4>1
      <4>2. CASE n # m + 1
        <5>1. n \in 0..m /\ g[n] = Body(g, n)
          BY <2>1, <4>2
        <5>2. h[n] = g[n] /\ (n # 0 => h[n - 1] = g[n - 1])
          BY <4>2, <5>1
        <5> QED BY <5>1, <5>2
      <4> QED BY <4>1, <4>2
    <3> QED BY <3>1
  <2> HIDE DEF Upto, h
  <2> QED BY <2>2
<1>3. T = Nat
  <2> T \in SUBSET Nat
    OBVIOUS
  <2> HIDE DEF T
  <2> QED BY <1>1, <1>2, NatSetInduction
<1>4. \E g : Upto(N, g)
  BY <1>3
<1> DEFINE run == CHOOSE g : Upto(N, g)
<1>5. Upto(N, run) /\ DropLastFirst(list) = run[N]
  BY <1>4 DEF DropLastFirst, first
<1> HIDE DEF run
<1>6. Drops(list, run)
  <2>1. run[0] = first
    BY <1>5
  <2>2. \A n \in 1..N : run[n] = Dropped(run[n - 1], Len(list) + 1 - n)
    BY <1>5
  <2> QED BY <2>1, <2>2 DEF Drops, first
<1> QED BY <1>5, <1>6

LEMMA ShrinkSteps ==
  ASSUME NEW list, Len(list) \in Nat
  PROVE  \E g : Shrinks(list, g) /\ shrink(list) = g[Len(list)]
<1> DEFINE N == Len(list)
           first == list
           Body(g, n) == IF n = 0 THEN first ELSE DropLastFirst(g[n - 1])
           Upto(m, g) == g = [n \in 0..m |-> Body(g, n)]
           T == {m \in Nat : \E g : Upto(m, g)}
<1> HIDE DEF first
<1>1. 0 \in T
  <2>1. Upto(0, [n \in 0..0 |-> first])
    OBVIOUS
  <2> QED BY <2>1
<1>2. ASSUME NEW m \in T PROVE m + 1 \in T
  <2>1. PICK g : Upto(m, g)
    OBVIOUS
  <2> DEFINE h == [n \in 0..(m + 1) |-> IF n = m + 1 THEN DropLastFirst(g[m]) ELSE g[n]]
  <2>2. m + 1 \in Nat /\ Upto(m + 1, h)
    <3>1. ASSUME NEW n \in 0..(m + 1) PROVE h[n] = Body(h, n)
      <4>1. CASE n = m + 1
        BY <4>1
      <4>2. CASE n # m + 1
        <5>1. n \in 0..m /\ g[n] = Body(g, n)
          BY <2>1, <4>2
        <5>2. h[n] = g[n] /\ (n # 0 => h[n - 1] = g[n - 1])
          BY <4>2, <5>1
        <5> QED BY <5>1, <5>2
      <4> QED BY <4>1, <4>2
    <3> QED BY <3>1
  <2> HIDE DEF Upto, h
  <2> QED BY <2>2
<1>3. T = Nat
  <2> T \in SUBSET Nat
    OBVIOUS
  <2> HIDE DEF T
  <2> QED BY <1>1, <1>2, NatSetInduction
<1>4. \E g : Upto(N, g)
  BY <1>3
<1> DEFINE run == CHOOSE g : Upto(N, g)
<1>5. Upto(N, run) /\ shrink(list) = run[N]
  BY <1>4 DEF shrink, first
<1> HIDE DEF run
<1>6. Shrinks(list, run)
  <2>1. run[0] = first
    BY <1>5
  <2>2. \A n \in 1..N : run[n] = DropLastFirst(run[n - 1])
    BY <1>5
  <2> QED BY <2>1, <2>2 DEF Shrinks, first
<1> QED BY <1>5, <1>6

\* An op more is one more step of the scenario.
LEMMA ScenarioAppend ==
  ASSUME NEW list \in Seq(Ops), NEW raw \in Ops
  PROVE  run_scenario(Append(list, raw)) = ScenarioOp(run_scenario(list), raw)
<1> DEFINE longer == Append(list, raw)
           N == Len(list)
<1>1. /\ N \in Nat /\ Len(longer) = N + 1 /\ longer[N + 1] = raw
      /\ \A n \in 1..N : longer[n] = list[n]
  OBVIOUS
<1> HIDE DEF longer, N
<1>2. PICK g : Runs(list, g) /\ run_scenario(list) = g[N]
  BY <1>1, ScenarioSteps DEF N
<1>3. PICK h : Runs(longer, h) /\ run_scenario(longer) = h[N + 1]
  <2>1. Len(longer) \in Nat
    BY <1>1
  <2> QED BY <1>1, <2>1, ScenarioSteps
<1> DEFINE T == {n \in Nat : n <= N => h[n] = g[n]}
<1>4. 0 \in T
  BY <1>2, <1>3 DEF Runs
<1>5. ASSUME NEW n \in T PROVE n + 1 \in T
  <2> SUFFICES ASSUME n + 1 <= N PROVE h[n + 1] = g[n + 1]
    OBVIOUS
  <2>1. n + 1 \in 1..N /\ n + 1 \in 1..Len(longer) /\ (n + 1) - 1 = n /\ h[n] = g[n]
    BY <1>1
  <2>2. h[n + 1] = ScenarioOp(h[n], longer[n + 1])
    BY <1>3, <2>1 DEF Runs
  <2>3. g[n + 1] = ScenarioOp(g[n], list[n + 1])
    BY <1>2, <2>1 DEF Runs, N
  <2> QED BY <1>1, <2>1, <2>2, <2>3
<1>6. T = Nat
  <2> T \in SUBSET Nat
    OBVIOUS
  <2> HIDE DEF T
  <2> QED BY <1>4, <1>5, NatSetInduction
<1>7. h[N] = g[N]
  BY <1>1, <1>6
<1>8. h[N + 1] = ScenarioOp(h[N], raw)
  <2>1. N + 1 \in 1..Len(longer) /\ (N + 1) - 1 = N
    BY <1>1
  <2>2. h[N + 1] = ScenarioOp(h[(N + 1) - 1], longer[N + 1])
    BY <1>3, <2>1 DEF Runs
  <2> QED BY <1>1, <2>1, <2>2
<1> QED BY <1>2, <1>3, <1>7, <1>8 DEF longer, N

\* A list of no ops is the empty world.
LEMMA ScenarioEmpty ==
  run_scenario(<<>>) = [world |-> NewWorld, passed |-> TRUE, reported |-> FALSE]
<1>1. Len(<<>>) = 0 /\ 0 \in Nat
  OBVIOUS
<1>2. PICK g : Runs(<<>>, g) /\ run_scenario(<<>>) = g[0]
  BY <1>1, ScenarioSteps
<1> QED BY <1>2 DEF Runs

\* A replay that ends with a report has run the same ops as the scenario up to there.
LEMMA ReplayedReports ==
  ASSUME NEW list, Len(list) \in Nat, replay(list) = "violation"
  PROVE  run_scenario(list).reported
<1> DEFINE N == Len(list)
<1>1. PICK g : Replays(list, g) /\ Replayed(list) = g[N]
  BY ReplayedSteps
<1>2. PICK h : Runs(list, h) /\ run_scenario(list) = h[N]
  BY ScenarioSteps
<1> DEFINE Follows(n) == /\ g[n].end = "none" => h[n].world = g[n].world
                         /\ g[n].end = "violation" => h[n].reported
           T == {n \in Nat : n <= N => Follows(n)}
<1> N \in Nat
  OBVIOUS
<1> HIDE DEF N
<1>3. 0 \in T
  <2>1. g[0].end = "none" /\ g[0].world = NewWorld /\ h[0].world = NewWorld
    BY <1>1, <1>2 DEF Replays, Runs
  <2> QED BY <2>1
<1>4. ASSUME NEW n \in T PROVE n + 1 \in T
  <2> SUFFICES ASSUME n + 1 <= N PROVE Follows(n + 1)
    OBVIOUS
  <2> DEFINE raw == list[n + 1]
             result == Sim!apply_inner(g[n].world, raw)
  <2>1. n + 1 \in 1..N /\ (n + 1) - 1 = n /\ Follows(n)
    OBVIOUS
  <2>2. g[n + 1] = ReplayOne(g[n], raw)
    BY <1>1, <2>1 DEF Replays, N
  <2>3. h[n + 1] = ScenarioOp(h[n], raw)
    BY <1>2, <2>1 DEF Runs, N
  <2>4. CASE g[n].end # "none"
    <3>1. g[n + 1] = g[n]
      BY <2>2, <2>4 DEF ReplayOne
    <3>2. h[n].reported => h[n + 1].reported
      <4> DEFINE own == Sim!apply_inner(h[n].world, raw)
      <4>1. h[n + 1].reported = (h[n].reported \/ (~own.failed /\ Violating(own.world)))
        BY <2>3 DEF ScenarioOp
      <4> HIDE DEF own
      <4> QED BY <4>1
    <3> QED BY <2>1, <2>4, <3>1, <3>2
  <2>5. CASE g[n].end = "none"
    <3>1. h[n].world = g[n].world
      BY <2>1, <2>5
    <3>2. /\ g[n + 1].world = result.world
          /\ g[n + 1].end = IF Sim!NamesWrongId(g[n].world, raw) THEN "unknown"
                            ELSE IF result.failed THEN "abort"
                            ELSE IF Violating(result.world) THEN "violation" ELSE "none"
      BY <2>2, <2>5 DEF ReplayOne
    <3>3. /\ h[n + 1].world = IF result.failed THEN h[n].world ELSE result.world
          /\ h[n + 1].reported = (h[n].reported \/ (~result.failed /\ Violating(result.world)))
      BY <2>3, <3>1 DEF ScenarioOp
    <3> HIDE DEF result
    <3>4. g[n + 1].end = "none" => ~result.failed
      BY <3>2
    <3>5. g[n + 1].end = "violation" => ~result.failed /\ Violating(result.world)
      BY <3>2
    <3> QED BY <3>2, <3>3, <3>4, <3>5
  <2> QED BY <2>4, <2>5
<1>5. T = Nat
  <2> T \in SUBSET Nat
    OBVIOUS
  <2> HIDE DEF T
  <2> QED BY <1>3, <1>4, NatSetInduction
<1>6. Follows(N)
  BY <1>5
<1>7. g[N].end = "violation"
  BY <1>1 DEF replay
<1> QED BY <1>2, <1>6, <1>7

--------------------------------------------------------------------------------
(* What shrink may make of a list *)

\* Either nothing was dropped, or what is left replays to a report.
Shrunk(list, cur) ==
  /\ cur \in Seq(Ops)
  /\ cur = list \/ replay(cur) = "violation"

LEMMA Joined ==
  ASSUME NEW S, NEW front \in Seq(S), NEW rest \in Seq(S)
  PROVE  front \o rest \in Seq(S) /\ Len(front \o rest) = Len(front) + Len(rest)
OBVIOUS

LEMMA DroppedShrunk ==
  ASSUME NEW list \in Seq(Ops), NEW cur, Shrunk(list, cur), NEW i \in 1..Len(cur)
  PROVE  /\ Shrunk(list, Dropped(cur, i))
         /\ Len(Dropped(cur, i)) >= Len(cur) - 1
<1> DEFINE fewer == RemoveAt(cur, i)
<1>1. cur \in Seq(Ops) /\ Len(cur) \in Nat
  BY DEF Shrunk
<1>2. fewer \in Seq(Ops) /\ Len(fewer) = Len(cur) - 1
  <2> DEFINE front == SubSeq(cur, 1, i - 1)
             rest == SubSeq(cur, i + 1, Len(cur))
  <2>1. /\ front \in Seq(Ops) /\ Len(front) = i - 1
        /\ rest \in Seq(Ops) /\ Len(rest) = Len(cur) - i
    BY <1>1
  <2>2. fewer = front \o rest
    BY DEF RemoveAt
  <2> HIDE DEF front, rest, fewer
  <2>3. front \o rest \in Seq(Ops) /\ Len(front \o rest) = Len(front) + Len(rest)
    BY <2>1, Joined
  <2> QED BY <1>1, <2>1, <2>2, <2>3
<1> HIDE DEF fewer
<1>3. CASE StillReports(cur, i)
  <2>1. Dropped(cur, i) = fewer /\ replay(fewer) = "violation"
    BY <1>3 DEF Dropped, StillReports, fewer
  <2> QED BY <1>1, <1>2, <2>1 DEF Shrunk
<1>4. CASE ~StillReports(cur, i)
  BY <1>1, <1>4 DEF Dropped
<1> QED BY <1>3, <1>4

LEMMA PassShrunk ==
  ASSUME NEW list \in Seq(Ops), NEW cur, Shrunk(list, cur)
  PROVE  Shrunk(list, DropLastFirst(cur))
<1> DEFINE N == Len(cur)
<1>1. cur \in Seq(Ops) /\ N \in Nat
  BY DEF Shrunk
<1>2. PICK g : Drops(cur, g) /\ DropLastFirst(cur) = g[N]
  BY <1>1, PassSteps
<1> DEFINE T == {n \in Nat : n <= N => Shrunk(list, g[n]) /\ Len(g[n]) >= N - n}
<1> HIDE DEF N
<1>3. 0 \in T
  BY <1>1, <1>2 DEF Drops, N
<1>4. ASSUME NEW n \in T PROVE n + 1 \in T
  <2> SUFFICES ASSUME n + 1 <= N
               PROVE  Shrunk(list, g[n + 1]) /\ Len(g[n + 1]) >= N - (n + 1)
    OBVIOUS
  <2> DEFINE at == g[n]
             i == N + 1 - (n + 1)
  <2>1. Shrunk(list, at) /\ Len(at) \in Nat /\ Len(at) >= N - n
    BY <1>1 DEF Shrunk
  <2>2. g[n + 1] = Dropped(at, i)
    <3>1. n + 1 \in 1..N /\ (n + 1) - 1 = n
      BY <1>1
    <3> QED BY <1>2, <3>1 DEF Drops, N
  <2>3. i \in 1..Len(at)
    BY <1>1, <2>1
  <2> HIDE DEF at, i
  <2>4. Shrunk(list, Dropped(at, i)) /\ Len(Dropped(at, i)) >= Len(at) - 1
    BY <2>1, <2>3, DroppedShrunk
  <2>5. Len(Dropped(at, i)) \in Nat
    BY <2>4 DEF Shrunk
  <2> QED BY <1>1, <2>1, <2>2, <2>4, <2>5
<1>5. T = Nat
  <2> T \in SUBSET Nat
    OBVIOUS
  <2> HIDE DEF T
  <2> QED BY <1>3, <1>4, NatSetInduction
<1> QED BY <1>1, <1>2, <1>5

\* shrink returns the list it was given or one that replays to a report.
LEMMA ShrinkShrunk ==
  ASSUME NEW list \in Seq(Ops)
  PROVE  Shrunk(list, shrink(list))
<1> DEFINE N == Len(list)
<1>1. N \in Nat
  OBVIOUS
<1>2. PICK g : Shrinks(list, g) /\ shrink(list) = g[N]
  BY <1>1, ShrinkSteps
<1> DEFINE T == {n \in Nat : n <= N => Shrunk(list, g[n])}
<1> HIDE DEF N
<1>3. 0 \in T
  BY <1>2 DEF Shrinks, Shrunk
<1>4. ASSUME NEW n \in T PROVE n + 1 \in T
  <2> SUFFICES ASSUME n + 1 <= N PROVE Shrunk(list, g[n + 1])
    OBVIOUS
  <2>1. n + 1 \in 1..N /\ (n + 1) - 1 = n /\ Shrunk(list, g[n])
    BY <1>1
  <2>2. g[n + 1] = DropLastFirst(g[n])
    BY <1>2, <2>1 DEF Shrinks, N
  <2> QED BY <2>1, <2>2, PassShrunk
<1>5. T = Nat
  <2> T \in SUBSET Nat
    OBVIOUS
  <2> HIDE DEF T
  <2> QED BY <1>3, <1>4, NatSetInduction
<1> QED BY <1>1, <1>2, <1>5

--------------------------------------------------------------------------------
(* The world of a run is one of SimWorld's, with one pool and no routed stakes *)

W == INSTANCE SimWorldProofs WITH
    PoolIds <- {Pool}, StakeIds <- 1..OpCount, RoutedIds <- {}, ReleaseIds <- {},
    Parents <- {}, CurrencyOf <- [p \in {Pool} |-> 0], Amounts <- AmountBuckets,
    Splits <- {}, BPS <- 1, MaxDeposits <- 0, MaxExits <- 0, minted <- 0, paidOut <- 0

\* The profile gives the simulator constants that its theorems assume of them.
LEMMA SimConstants == W!ConstantsAssumption
<1>1. IsFiniteSet({Pool}) /\ IsFiniteSet({})
  BY FS_Singleton, FS_EmptySet
<1>2. IsFiniteSet(1..OpCount)
  BY ConstantsAssumption, FS_Interval
<1>3. W!IsFiniteSet({Pool}) /\ W!IsFiniteSet(1..OpCount) /\ W!IsFiniteSet({})
  BY <1>1, <1>2 DEF IsFiniteSet, W!IsFiniteSet
<1> QED BY <1>3, ConstantsAssumption DEF W!ConstantsAssumption

LEMMA SimScale == W!ScaleDivides
BY ScaleDivides DEF W!ScaleDivides

LEMMA SameResults ==
  ASSUME NEW w, NEW where, NEW code, NEW value
  PROVE  /\ Sim!Failed(w, where, code) = W!Failed(w, where, code)
         /\ Sim!Overflow(w) = W!Overflow(w) /\ Sim!Malformed(w) = W!Malformed(w)
         /\ Sim!Returns(w, value) = W!Returns(w, value) /\ Sim!Done(w) = W!Done(w)
BY DEF Sim!Failed, W!Failed, Sim!Overflow, W!Overflow, Sim!Malformed, W!Malformed,
       Sim!Returns, W!Returns, Sim!Done, W!Done, Sim!NoValue, W!NoValue

LEMMA SameEntries ==
  ASSUME NEW w, NEW x
  PROVE  /\ Sim!HasRegistration(w, x, Pool) = W!HasRegistration(w, x, Pool)
         /\ Sim!Registration(w, x, Pool) = W!Registration(w, x, Pool)
         /\ Sim!RegisteredIn(w, x, Pool) = W!RegisteredIn(w, x, Pool)
         /\ Sim!Owed(w, x, Pool) = W!Owed(w, x, Pool)
         /\ Sim!calculate_reward(w, x, Pool) = W!calculate_reward(w, x, Pool)
         /\ Sim!Drained(w, x, Pool) = W!Drained(w, x, Pool)
         /\ Sim!DebtAfterClaim(w, x, Pool) = W!DebtAfterClaim(w, x, Pool)
BY DEF Sim!HasRegistration, W!HasRegistration, Sim!Registration, W!Registration,
       Sim!RegisteredIn, W!RegisteredIn, Sim!Owed, W!Owed, Sim!calculate_reward,
       W!calculate_reward, Sim!Drained, W!Drained, Sim!DebtAfterClaim, W!DebtAfterClaim

LEMMA SameDeposit ==
  ASSUME NEW w, NEW v
  PROVE  Sim!Deposit(w, Pool, v) = W!Deposit(w, Pool, v)
<1>1. \A q : Sim!Folded(q, v) = W!Folded(q, v)
  BY DEF Sim!Folded, W!Folded, Sim!Numerator, W!Numerator, Sim!CarryAfter, W!CarryAfter
<1> QED BY <1>1, SameResults DEF Sim!Deposit, W!Deposit, Sim!PoolAbort, W!PoolAbort

LEMMA SameRegister ==
  ASSUME NEW w, NEW x
  PROVE  Sim!Register(w, Pool, x) = W!Register(w, Pool, x)
<1>1. \A n : Sim!NewRegistration(w, Pool, n) = W!NewRegistration(w, Pool, n)
  BY DEF Sim!NewRegistration, W!NewRegistration
<1>2. \A f, c, e : Sim!With(f, c, e) = W!With(f, c, e)
  BY DEF Sim!With, W!With
<1> QED BY <1>1, <1>2, SameResults, SameEntries
        DEF Sim!Register, W!Register, Sim!PoolAbort, W!PoolAbort

LEMMA SameAsRegistered ==
  ASSUME NEW w, NEW x, NEW result
  PROVE  Sim!AsRegistered(w, x, Pool, result) = W!AsRegistered(w, x, Pool, result)
BY SameResults, SameEntries
   DEF Sim!AsRegistered, W!AsRegistered, Sim!PoolAbort, W!PoolAbort

LEMMA SameUnregister ==
  ASSUME NEW w, NEW x
  PROVE  Sim!Unregister(w, Pool, x) = W!Unregister(w, Pool, x)
<1> DEFINE c == [p \in {Pool} |-> 0][Pool]
           after == W!Exited(w, Pool, x, W!Owed(w, x, Pool), w.stakes[x].amount, c)
           refused == W!Failed(w, "pool", W!PoolAbort.LastClaimIndexMismatch)
           result == IF ~W!Drained(w, x, Pool) THEN refused ELSE W!Done(after)
<1>1. W!Unregister(w, Pool, x) = W!AsRegistered(w, x, Pool, result)
  BY DEF W!Unregister, W!Exited
<1>2. Sim!Unregister(w, Pool, x) = Sim!AsRegistered(w, x, Pool, result)
  <2>1. \A f, d : Sim!Without(f, d) = W!Without(f, d)
    BY DEF Sim!Without, W!Without, Sim!Restrict, W!Restrict
  <2>2. /\ Sim!Owed(w, x, Pool) = W!Owed(w, x, Pool)
        /\ Sim!Drained(w, x, Pool) = W!Drained(w, x, Pool)
    BY SameEntries
  <2>3. Sim!Failed(w, "pool", Sim!PoolAbort.LastClaimIndexMismatch) = refused
    BY SameResults DEF Sim!PoolAbort, W!PoolAbort
  <2>4. Sim!Done(after) = W!Done(after)
    BY SameResults
  <2> HIDE DEF refused
  <2> QED BY <2>1, <2>2, <2>3, <2>4 DEF Sim!Unregister, W!Exited
<1> HIDE DEF result
<1> QED BY <1>1, <1>2, SameAsRegistered

LEMMA SameClaim ==
  ASSUME NEW w, NEW x
  PROVE  Sim!Claim(w, Pool, x) = W!Claim(w, Pool, x)
<1> DEFINE c == [p \in {Pool} |-> 0][Pool]
           v == W!calculate_reward(w, x, Pool)
           after == W!Claimed(w, Pool, x, c, W!DebtAfterClaim(w, x, Pool), v)
           result == IF v > w.pools[Pool].balance THEN W!Overflow(w) ELSE W!Returns(after, v)
<1>1. W!Claim(w, Pool, x) = W!AsRegistered(w, x, Pool, result)
  BY DEF W!Claim, W!Claimed
<1>2. Sim!Claim(w, Pool, x) = Sim!AsRegistered(w, x, Pool, result)
  <2>1. /\ Sim!calculate_reward(w, x, Pool) = v
        /\ Sim!DebtAfterClaim(w, x, Pool) = W!DebtAfterClaim(w, x, Pool)
    BY SameEntries
  <2>2. Sim!Overflow(w) = W!Overflow(w) /\ Sim!Returns(after, v) = W!Returns(after, v)
    BY SameResults
  <2> HIDE DEF v
  <2> QED BY <2>1, <2>2 DEF Sim!Claim, W!Claimed
<1> HIDE DEF result
<1> QED BY <1>1, <1>2, SameAsRegistered

LEMMA SameNewStake ==
  ASSUME NEW w, NEW x, NEW n
  PROVE  Sim!NewStake(w, x, n) = W!NewStake(w, x, n)
BY SameResults DEF Sim!NewStake, W!NewStake, Sim!StakeAbort, W!StakeAbort, Sim!With, W!With

\* apply_inner of each op that the fuzzer draws.
LEMMA DrawnOps ==
  ASSUME NEW w, NEW v, NEW x, NEW n
  PROVE  /\ Sim!apply_inner(w, DepositOp(v)) = W!Deposit(w, Pool, v)
         /\ Sim!apply_inner(w, NewStakeOp(x, n)) = IF x \in DOMAIN w.stakes THEN W!Malformed(w)
                                                   ELSE W!NewStake(w, x, n)
         /\ Sim!apply_inner(w, StakeOp("register", x)) = IF x \in DOMAIN w.stakes
              THEN W!Register(w, Pool, x) ELSE W!Malformed(w)
         /\ Sim!apply_inner(w, StakeOp("claim", x)) = IF x \in DOMAIN w.stakes
              THEN W!Claim(w, Pool, x) ELSE W!Malformed(w)
         /\ Sim!apply_inner(w, StakeOp("unregister", x)) = IF x \in DOMAIN w.stakes
              THEN W!Unregister(w, Pool, x) ELSE W!Malformed(w)
<1>1. Sim!apply_inner(w, DepositOp(v)) = Sim!Deposit(w, Pool, v)
  BY DEF DepositOp, Sim!apply_inner, Sim!NamesWrongId
<1>2. Sim!apply_inner(w, NewStakeOp(x, n)) = IF x \in DOMAIN w.stakes THEN Sim!Malformed(w)
                                             ELSE Sim!NewStake(w, x, n)
  BY DEF NewStakeOp, Sim!apply_inner, Sim!NamesWrongId, Sim!Exists
<1>3. Sim!apply_inner(w, StakeOp("register", x)) = IF x \in DOMAIN w.stakes
        THEN Sim!Register(w, Pool, x) ELSE Sim!Malformed(w)
  BY DEF StakeOp, Sim!apply_inner, Sim!NamesWrongId, Sim!Exists
<1>4. Sim!apply_inner(w, StakeOp("claim", x)) = IF x \in DOMAIN w.stakes
        THEN Sim!Claim(w, Pool, x) ELSE Sim!Malformed(w)
  BY DEF StakeOp, Sim!apply_inner, Sim!NamesWrongId, Sim!Exists
<1>5. Sim!apply_inner(w, StakeOp("unregister", x)) = IF x \in DOMAIN w.stakes
        THEN Sim!Unregister(w, Pool, x) ELSE Sim!Malformed(w)
  BY DEF StakeOp, Sim!apply_inner, Sim!NamesWrongId, Sim!Exists
<1> QED BY <1>1, <1>2, <1>3, <1>4, <1>5, SameResults, SameDeposit, SameNewStake, SameRegister,
           SameClaim, SameUnregister

\* A deposit and a registration that succeed, a new stake with shares, which always does.
LEMMA DepositStep ==
  ASSUME NEW w, W!WorldOK(w), NEW v \in Nat, ~W!Deposit(w, Pool, v).failed
  PROVE  LET r == W!Deposit(w, Pool, v).world
         IN  W!WorldOK(r) /\ W!SameRoll(w, r, Pool)
<1>1. W!Good(w, W!Deposit(w, Pool, v), v)
  BY SimConstants, SimScale, W!DepositKeeps
<1>2. W!SameRoll(w, W!Deposit(w, Pool, v).world, Pool)
  BY SimConstants, SimScale, W!DepositRoll
<1> QED BY <1>1, <1>2 DEF W!Good

LEMMA NewStakeStep ==
  ASSUME NEW w, W!WorldOK(w), NEW x \in 1..OpCount, x \notin DOMAIN w.stakes,
         NEW n \in Nat, n > 0
  PROVE  LET result == W!NewStake(w, x, n)
             r == result.world
         IN  /\ ~result.failed /\ W!WorldOK(r) /\ DOMAIN r.stakes = DOMAIN w.stakes \cup {x}
             /\ W!Roll(r, Pool) = W!Roll(w, Pool) /\ r.pools = w.pools
             /\ r.stakes[x].amount = n
<1>1. ~W!Exists(w, x) /\ w \in W!Worlds /\ x \in W!Ids
  BY DEF W!Exists, W!WorldOK, W!Ids
<1>2. W!Good(w, W!NewStake(w, x, n), 0)
  BY <1>1, SimConstants, SimScale, W!NewStakeKeeps
<1>3. /\ ~W!NewStake(w, x, n).failed
      /\ DOMAIN W!NewStake(w, x, n).world.stakes = DOMAIN w.stakes \cup {x}
      /\ W!Roll(W!NewStake(w, x, n).world, Pool) = W!Roll(w, Pool)
      /\ W!NewStake(w, x, n).world.pools = w.pools
      /\ W!NewStake(w, x, n).world.stakes[x].amount = n
  BY <1>1, SimConstants, SimScale, W!NewStakeRoll
<1> QED BY <1>2, <1>3 DEF W!Good

LEMMA RegisterStep ==
  ASSUME NEW w, W!WorldOK(w), NEW x \in DOMAIN w.stakes, ~W!Register(w, Pool, x).failed
  PROVE  LET r == W!Register(w, Pool, x).world
         IN  /\ W!WorldOK(r) /\ DOMAIN r.stakes = DOMAIN w.stakes
             /\ W!Roll(r, Pool) = W!Roll(w, Pool) \cup {x}
             /\ r.pools[Pool].staked_shares
                  = w.pools[Pool].staked_shares + w.stakes[x].amount
<1>1. W!Exists(w, x)
  BY DEF W!Exists
<1>2. W!Good(w, W!Register(w, Pool, x), 0)
  BY <1>1, SimConstants, SimScale, W!RegisterKeeps
<1>3. /\ DOMAIN W!Register(w, Pool, x).world.stakes = DOMAIN w.stakes
      /\ W!Roll(W!Register(w, Pool, x).world, Pool) = W!Roll(w, Pool) \cup {x}
      /\ W!Register(w, Pool, x).world.pools[Pool].staked_shares
           = w.pools[Pool].staked_shares + w.stakes[x].amount
  BY <1>1, SimConstants, SimScale, W!RegisterRoll
<1> QED BY <1>2, <1>3 DEF W!Good

\* What run_one takes for certain of a registered stake: its claim succeeds, and then it
\* may leave.
LEMMA ClaimStep ==
  ASSUME W!WorldOK(world), NEW x \in W!Roll(world, Pool)
  PROVE  LET result == W!Claim(world, Pool, x)
         IN  /\ ~result.failed /\ W!WorldOK(result.world)
             /\ W!SameRoll(world, result.world, Pool) /\ W!Drained(result.world, x, Pool)
<1>1. W!Exists(world, x)
  BY DEF W!Exists, W!Roll
<1>2. ~W!Claim(world, Pool, x).failed
  BY SimConstants, SimScale, W!ClaimSucceeds
<1>3. W!Good(world, W!Claim(world, Pool, x), -W!Claim(world, Pool, x).value)
  BY <1>1, SimConstants, SimScale, W!ClaimKeeps
<1>4. /\ W!SameRoll(world, W!Claim(world, Pool, x).world, Pool)
      /\ W!Drained(W!Claim(world, Pool, x).world, x, Pool)
  BY <1>1, <1>2, SimConstants, SimScale, W!ClaimRoll
<1> QED BY <1>2, <1>3, <1>4 DEF W!Good

LEMMA UnregisterStep ==
  ASSUME NEW w, W!WorldOK(w), NEW x \in W!Roll(w, Pool), W!Drained(w, x, Pool)
  PROVE  LET result == W!Unregister(w, Pool, x)
             r == result.world
         IN  /\ ~result.failed /\ W!WorldOK(r) /\ DOMAIN r.stakes = DOMAIN w.stakes
             /\ W!Roll(r, Pool) = W!Roll(w, Pool) \ {x}
             /\ r.pools[Pool].staked_shares
                  = w.pools[Pool].staked_shares - w.stakes[x].amount
<1>1. W!Exists(w, x)
  BY DEF W!Exists, W!Roll
<1>2. W!Good(w, W!Unregister(w, Pool, x), 0)
  BY <1>1, SimConstants, SimScale, W!UnregisterKeeps
<1>3. /\ ~W!Unregister(w, Pool, x).failed
      /\ DOMAIN W!Unregister(w, Pool, x).world.stakes = DOMAIN w.stakes
      /\ W!Roll(W!Unregister(w, Pool, x).world, Pool) = W!Roll(w, Pool) \ {x}
      /\ W!Unregister(w, Pool, x).world.pools[Pool].staked_shares
           = w.pools[Pool].staked_shares - w.stakes[x].amount
  BY SimConstants, SimScale, W!UnregisterRoll
<1> QED BY <1>2, <1>3 DEF W!Good

--------------------------------------------------------------------------------
(* A run's state, as a record *)

\* The op list, run as a scenario, gives the run's world and its report.
Traced(st) ==
  /\ st.ops \in Seq(Ops) /\ Len(st.ops) <= OpCount
  /\ run_scenario(st.ops).world = st.world
  /\ run_scenario(st.ops).reported = st.violated

\* The world's books balance, and its stakes are numbered as they were made.
Numbered(st) ==
  /\ W!WorldOK(st.world)
  /\ \E k \in 0..Len(st.ops) : DOMAIN st.world.stakes = 1..k

Over(st) == st.violated \/ Len(st.ops) = OpCount

Account(st) ==
  /\ st.live = W!Roll(st.world, Pool)
  /\ st.total = st.world.pools[Pool].staked_shares
  /\ st.total <= Supply

Sound(st) == Traced(st) /\ Numbered(st) /\ (~Over(st) => Account(st))

FuzzInv == Sound(Begun(live, total_registered))

LEMMA EndedSound ==
  ASSUME NEW st, Ended(st), Sound(st)
  PROVE  FuzzInv'
<1> DEFINE now == Begun(live, total_registered)
<1>1. /\ now'.world = st.world /\ now'.ops = st.ops /\ now'.live = st.live
      /\ now'.total = st.total /\ now'.violated = st.violated
  BY DEF Ended, Begun
<1> HIDE DEF now
<1>2. Sound(now')
  BY <1>1 DEF Sound, Traced, Numbered, Over, Account
<1> QED BY <1>2 DEF FuzzInv, now

\* What one op makes of a run that goes on.
LEMMA Applied ==
  ASSUME NEW st, ~Over(st), NEW raw
  PROVE  LET result == Sim!apply_inner(st.world, raw)
             next == ApplyOne(st, raw)
         IN  /\ next.ops = Append(st.ops, raw)
             /\ next.world = IF result.failed THEN st.world ELSE result.world
             /\ next.violated = (~result.failed /\ Violating(result.world))
             /\ raw.op # "register" \/ ~result.failed =>
                  next.live = st.live /\ next.total = st.total
             /\ raw.op = "register" /\ result.failed =>
                  /\ next.live = st.live \ {raw.stake}
                  /\ next.total = st.total - st.world.stakes[raw.stake].amount
<1> DEFINE result == Sim!apply_inner(st.world, raw)
           after == IF result.failed THEN st.world ELSE result.world
           undone == raw.op = "register" /\ result.failed
<1>1. ApplyOne(st, raw) =
        [world    |-> after,
         ops      |-> Append(st.ops, raw),
         live     |-> IF undone THEN st.live \ {raw.stake} ELSE st.live,
         total    |-> IF undone THEN st.total - after.stakes[raw.stake].amount ELSE st.total,
         violated |-> ~result.failed /\ Violating(after)]
  BY DEF ApplyOne, Over
<1> HIDE DEF result
<1> QED BY <1>1 DEF result

LEMMA AppliedDone ==
  ASSUME NEW st, ~Over(st), NEW raw, NEW result, result = Sim!apply_inner(st.world, raw),
         ~result.failed
  PROVE  /\ ApplyOne(st, raw).world = result.world
         /\ ApplyOne(st, raw).live = st.live /\ ApplyOne(st, raw).total = st.total
BY Applied

LEMMA AppliedUndone ==
  ASSUME NEW st, ~Over(st), NEW raw, NEW result, result = Sim!apply_inner(st.world, raw),
         result.failed, raw.op = "register"
  PROVE  /\ ApplyOne(st, raw).world = st.world
         /\ ApplyOne(st, raw).live = st.live \ {raw.stake}
         /\ ApplyOne(st, raw).total = st.total - st.world.stakes[raw.stake].amount
BY Applied

LEMMA AppliedTraced ==
  ASSUME NEW st, Traced(st), ~Over(st), NEW raw \in Ops
  PROVE  /\ Traced(ApplyOne(st, raw))
         /\ Len(ApplyOne(st, raw).ops) = Len(st.ops) + 1 /\ Len(st.ops) \in Nat
<1> DEFINE next == ApplyOne(st, raw)
           result == Sim!apply_inner(st.world, raw)
           before == run_scenario(st.ops)
<1>1. /\ next.ops = Append(st.ops, raw)
      /\ next.world = IF result.failed THEN st.world ELSE result.world
      /\ next.violated = (~result.failed /\ Violating(result.world))
  BY Applied
<1>2. st.ops \in Seq(Ops) /\ Len(st.ops) <= OpCount /\ Len(st.ops) # OpCount /\ ~st.violated
  BY DEF Traced, Over
<1>3. next.ops \in Seq(Ops) /\ Len(next.ops) = Len(st.ops) + 1 /\ Len(next.ops) <= OpCount
  <2> HIDE DEF next
  <2>1. OpCount \in Nat
    BY ConstantsAssumption
  <2> QED BY <1>1, <1>2, <2>1
<1>4. run_scenario(next.ops) = ScenarioOp(before, raw)
  BY <1>1, <1>2, ScenarioAppend
<1>5. before.world = st.world /\ ~before.reported
  BY <1>2 DEF Traced
<1>6. /\ ScenarioOp(before, raw).world = IF result.failed THEN st.world ELSE result.world
      /\ ScenarioOp(before, raw).reported
           = (before.reported \/ (~result.failed /\ Violating(result.world)))
  <2> HIDE DEF before
  <2> QED BY <1>5 DEF ScenarioOp
<1> HIDE DEF next, result, before
<1>7. Traced(next)
  BY <1>1, <1>3, <1>4, <1>5, <1>6 DEF Traced
<1> QED BY <1>2, <1>3, <1>7 DEF next

--------------------------------------------------------------------------------
(* run_one, one draw at a time *)

LEMMA FuzzInit ==
  ASSUME Init
  PROVE  FuzzInv
<1> DEFINE st == Begun(live, total_registered)
           w == W!NewWorld({Pool})
<1>1. NewWorld = w
  BY DEF NewWorld, Sim!NewWorld, W!NewWorld, Sim!NewPool, W!NewPool
<1>2. /\ st.world = w /\ st.ops = <<>> /\ st.live = {} /\ st.total = 0 /\ st.violated = FALSE
  BY <1>1 DEF Init, Begun
<1>3. w.stakes = [x \in {} |-> 0] /\ w.pools[Pool].staked_shares = 0
  BY DEF W!NewWorld, W!NewPool
<1>4. world = w /\ W!Init
  BY <1>1 DEF Init, W!Init
<1> HIDE DEF w, st
<1>5. W!WorldOK(w)
  <2>1. W!WorldInv
    BY <1>4, SimConstants, SimScale, W!WorldInit
  <2> QED BY <1>4, <2>1 DEF W!WorldInv
<1>6. Traced(st)
  <2>1. <<>> \in Seq(Ops) /\ Len(<<>>) = 0 /\ 0 <= OpCount
    BY ConstantsAssumption
  <2>2. run_scenario(<<>>).world = NewWorld /\ run_scenario(<<>>).reported = FALSE
    BY ScenarioEmpty
  <2> QED BY <1>1, <1>2, <2>1, <2>2 DEF Traced
<1>7. Numbered(st)
  <2>1. DOMAIN st.world.stakes = 1..0 /\ 0 \in 0..Len(st.ops)
    BY <1>2, <1>3
  <2> QED BY <1>2, <1>5, <2>1 DEF Numbered
<1>8. Account(st)
  <2>1. W!Roll(w, Pool) = {}
    BY <1>3 DEF W!Roll
  <2> QED BY <1>2, <1>3, <2>1, ConstantsAssumption DEF Account
<1> QED BY <1>6, <1>7, <1>8 DEF Sound, FuzzInv, st

\* Between draws the account is exact.
LEMMA Drawing ==
  ASSUME FuzzInv, ~Cut
  PROVE  /\ W!WorldOK(world) /\ live = W!Roll(world, Pool)
         /\ total_registered = world.pools[Pool].staked_shares
         /\ total_registered \in Nat /\ total_registered <= Supply
         /\ \E k \in 0..(OpCount - 1) : DOMAIN world.stakes = 1..k /\ k <= Len(ops)
         /\ Len(ops) \in Nat /\ Len(ops) < OpCount
<1> DEFINE st == Begun(live, total_registered)
<1>1. /\ st.world = world /\ st.ops = ops /\ st.live = live /\ st.total = total_registered
      /\ st.violated = violated
  BY DEF Begun
<1>2. Sound(st) /\ ~Over(st)
  BY <1>1 DEF FuzzInv, Cut, Over
<1> HIDE DEF st
<1>3. Account(st) /\ Traced(st) /\ Numbered(st)
  BY <1>2 DEF Sound
<1>4. Len(ops) \in Nat /\ Len(ops) < OpCount
  BY <1>1, <1>2, <1>3, ConstantsAssumption DEF Traced, Over
<1>5. W!WorldOK(world) /\ \E k \in 0..Len(ops) : DOMAIN world.stakes = 1..k
  BY <1>1, <1>3 DEF Numbered
<1>6. world.pools[Pool].staked_shares \in Nat
  BY <1>5, SimConstants, SimScale, W!PoolTyped DEF W!WorldOK
<1> QED BY <1>1, <1>3, <1>4, <1>5, <1>6, ConstantsAssumption DEF Account

\* A step's first op starts from the state, whatever account it makes in advance.
LEMMA BegunTraced ==
  ASSUME FuzzInv, ~Cut, NEW l, NEW t
  PROVE  LET st == Begun(l, t)
         IN  /\ Traced(st) /\ ~Over(st) /\ st.world = world /\ st.ops = ops
             /\ st.live = l /\ st.total = t
<1>1. Traced(Begun(live, total_registered))
  BY DEF FuzzInv, Sound
<1> QED BY <1>1 DEF Traced, Begun, Over, Cut

\* An op that leaves the stakes and who is registered leaves the account.
LEMMA SameRollSound ==
  ASSUME FuzzInv, ~Cut, NEW raw \in Ops, raw.op # "register",
         LET result == Sim!apply_inner(world, raw)
         IN  ~result.failed => W!WorldOK(result.world) /\ W!SameRoll(world, result.world, Pool)
  PROVE  Sound(ApplyOne(Begun(live, total_registered), raw))
<1> DEFINE st == Begun(live, total_registered)
           result == Sim!apply_inner(world, raw)
           next == ApplyOne(st, raw)
<1>1. /\ Traced(st) /\ ~Over(st) /\ st.world = world /\ st.ops = ops
      /\ st.live = live /\ st.total = total_registered
  BY BegunTraced
<1> HIDE DEF st
<1>2. /\ next.world = IF result.failed THEN world ELSE result.world
      /\ next.live = live /\ next.total = total_registered
  BY <1>1, Applied
<1>3. Traced(next) /\ Len(next.ops) = Len(ops) + 1 /\ Len(ops) \in Nat
  BY <1>1, AppliedTraced
<1> HIDE DEF next, result
<1>4. /\ W!WorldOK(world) /\ live = W!Roll(world, Pool)
      /\ total_registered = world.pools[Pool].staked_shares /\ total_registered <= Supply
      /\ \E k \in 0..(OpCount - 1) : DOMAIN world.stakes = 1..k /\ k <= Len(ops)
  BY Drawing
<1>5. /\ W!WorldOK(next.world) /\ DOMAIN next.world.stakes = DOMAIN world.stakes
      /\ W!Roll(next.world, Pool) = W!Roll(world, Pool)
      /\ next.world.pools[Pool].staked_shares = world.pools[Pool].staked_shares
  BY <1>2, <1>4 DEF W!SameRoll, result
<1>6. Numbered(next)
  BY <1>3, <1>4, <1>5 DEF Numbered
<1>7. Account(next)
  BY <1>2, <1>4, <1>5 DEF Account
<1> QED BY <1>3, <1>6, <1>7 DEF Sound, next, st

LEMMA DepositSound ==
  ASSUME FuzzInv, ~Cut, NEW v \in DepositBuckets, DrawDeposit(v)
  PROVE  FuzzInv'
<1> DEFINE raw == DepositOp(v)
<1>1. raw \in Ops /\ raw.op # "register" /\ v \in Nat
  BY ConstantsAssumption DEF Ops, DepositOp
<1>2. Sim!apply_inner(world, raw) = W!Deposit(world, Pool, v)
  BY DrawnOps
<1>3. W!WorldOK(world)
  BY Drawing
<1>4. ~W!Deposit(world, Pool, v).failed =>
        /\ W!WorldOK(W!Deposit(world, Pool, v).world)
        /\ W!SameRoll(world, W!Deposit(world, Pool, v).world, Pool)
  BY <1>1, <1>3, DepositStep
<1> HIDE DEF raw
<1>5. Sound(ApplyOne(Begun(live, total_registered), raw))
  BY <1>1, <1>2, <1>4, SameRollSound
<1>6. Ended(ApplyOne(Begun(live, total_registered), raw))
  BY DEF DrawDeposit, OneOp, raw
<1> QED BY <1>5, <1>6, EndedSound

\* The stakes that may be drawn have ids that an op may name.
LEMMA DrawnStake ==
  ASSUME FuzzInv, ~Cut, NEW s \in live
  PROVE  /\ s \in DOMAIN world.stakes /\ s \in 1..OpCount /\ s \in W!Roll(world, Pool)
         /\ StakeOp("claim", s) \in Ops /\ StakeOp("unregister", s) \in Ops
<1>1. s \in W!Roll(world, Pool) /\ s \in DOMAIN world.stakes
  BY Drawing DEF W!Roll
<1>2. s \in 1..OpCount
  <2>1. PICK k \in 0..(OpCount - 1) : DOMAIN world.stakes = 1..k
    BY Drawing
  <2> QED BY <1>1, <2>1, ConstantsAssumption
<1> QED BY <1>1, <1>2 DEF Ops

LEMMA ClaimSound ==
  ASSUME FuzzInv, ~Cut, NEW s \in live, DrawClaim(s)
  PROVE  FuzzInv'
<1> DEFINE raw == StakeOp("claim", s)
<1>1. /\ raw \in Ops /\ raw.op # "register" /\ s \in DOMAIN world.stakes
      /\ s \in W!Roll(world, Pool) /\ W!WorldOK(world)
  BY DrawnStake, Drawing DEF StakeOp
<1>2. Sim!apply_inner(world, raw) = W!Claim(world, Pool, s)
  BY <1>1, DrawnOps
<1>3. /\ W!WorldOK(W!Claim(world, Pool, s).world)
      /\ W!SameRoll(world, W!Claim(world, Pool, s).world, Pool)
  BY <1>1, ClaimStep
<1> HIDE DEF raw
<1>4. Sound(ApplyOne(Begun(live, total_registered), raw))
  BY <1>1, <1>2, <1>3, SameRollSound
<1>5. Ended(ApplyOne(Begun(live, total_registered), raw))
  BY DEF DrawClaim, OneOp, raw
<1> QED BY <1>4, <1>5, EndedSound

\* A run that is over keeps its second op unapplied.
LEMMA OverUnapplied ==
  ASSUME NEW st, Over(st), NEW raw
  PROVE  ApplyOne(st, raw) = st
BY DEF ApplyOne, Over

\* What a register draws: a stake of at least one share and at most the room there is.
LEMMA RegisterDrawn ==
  ASSUME FuzzInv, ~Cut, ~RegisterUnavailable, NEW n \in AmountBuckets
  PROVE  LET x == NextStakeId
             c == Capped(n)
         IN  /\ x \in 1..OpCount /\ x \notin DOMAIN world.stakes
             /\ c \in Nat /\ c > 0 /\ total_registered + c <= Supply
             /\ NewStakeOp(x, c) \in Ops /\ StakeOp("register", x) \in Ops
             /\ \E k \in 0..Len(ops) : DOMAIN world.stakes = 1..k /\ x = k + 1
<1> DEFINE x == NextStakeId
           c == Capped(n)
<1>1. PICK k \in 0..(OpCount - 1) : DOMAIN world.stakes = 1..k /\ k <= Len(ops)
  BY Drawing
<1>2. x = k + 1
  <2>1. Cardinality(1..k) = k
    <3>1. Cardinality(1..k) = k - 1 + 1
      BY <1>1, FS_Interval, ConstantsAssumption
    <3> QED BY <1>1, <3>1, ConstantsAssumption
  <2> QED BY <1>1, <2>1 DEF NextStakeId
<1> HIDE DEF x
<1>3. x \in 1..OpCount /\ x \notin DOMAIN world.stakes
  BY <1>1, <1>2, ConstantsAssumption
<1>4. c \in Nat /\ c > 0 /\ total_registered + c <= Supply
  <2>1. total_registered \in Nat /\ total_registered <= Supply
    BY Drawing
  <2>2. n \in Nat /\ n > 0 /\ Supply \in Nat
    BY ConstantsAssumption
  <2> QED BY <2>1, <2>2 DEF Capped, Room, RegisterUnavailable
<1>5. NewStakeOp(x, c) \in Ops /\ StakeOp("register", x) \in Ops
  BY <1>3, <1>4 DEF Ops
<1>6. k \in 0..Len(ops)
  BY <1>1, Drawing, ConstantsAssumption
<1> QED BY <1>1, <1>2, <1>3, <1>4, <1>5, <1>6 DEF x, c

\* The account made in advance comes true, is undone with the register that failed, or is
\* that of a run that is over before the register.
LEMMA RegisterSound ==
  ASSUME FuzzInv, ~Cut, ~RegisterUnavailable, NEW n \in AmountBuckets, DrawRegister(n)
  PROVE  FuzzInv'
<1> DEFINE x == NextStakeId
           c == Capped(n)
           first == NewStakeOp(x, c)
           second == StakeOp("register", x)
           st == Begun(live \cup {x}, total_registered + c)
           made == W!NewStake(world, x, c).world
           mid == ApplyOne(st, first)
           joined == W!Register(made, Pool, x)
           next == ApplyOne(mid, second)
<1>1. /\ x \in 1..OpCount /\ x \notin DOMAIN world.stakes /\ c \in Nat /\ c > 0
      /\ total_registered + c <= Supply /\ first \in Ops /\ second \in Ops
      /\ \E k \in 0..Len(ops) : DOMAIN world.stakes = 1..k /\ x = k + 1
  BY RegisterDrawn
<1>2. /\ W!WorldOK(world) /\ live = W!Roll(world, Pool) /\ Len(ops) \in Nat
      /\ total_registered = world.pools[Pool].staked_shares /\ total_registered \in Nat
      /\ total_registered <= Supply
  BY Drawing
<1>3. Ended(next)
  BY DEF DrawRegister, TwoOps
<1>4. /\ Traced(st) /\ ~Over(st) /\ st.world = world /\ st.ops = ops
      /\ st.live = live \cup {x} /\ st.total = total_registered + c
  BY BegunTraced
<1>5. first.op = "new_stake" /\ second.op = "register" /\ second.stake = x
  BY DEF NewStakeOp, StakeOp
<1>6. Sim!apply_inner(world, first) = W!NewStake(world, x, c)
  BY <1>1, DrawnOps
<1>7. /\ ~W!NewStake(world, x, c).failed /\ W!WorldOK(made)
      /\ DOMAIN made.stakes = DOMAIN world.stakes \cup {x}
      /\ W!Roll(made, Pool) = W!Roll(world, Pool) /\ made.pools = world.pools
      /\ made.stakes[x].amount = c
  <2> HIDE DEF x, c
  <2> QED BY <1>1, <1>2, NewStakeStep
<1>8. Sim!apply_inner(made, second) = joined
  BY <1>7, DrawnOps
<1>9. x \notin live
  BY <1>1, <1>2 DEF W!Roll
<1> HIDE DEF x, c, first, second, st, made, joined
<1>10. mid.world = made /\ mid.live = live \cup {x} /\ mid.total = total_registered + c
  <2> DEFINE result == W!NewStake(world, x, c)
  <2>1. result = Sim!apply_inner(st.world, first) /\ ~result.failed /\ result.world = made
    BY <1>4, <1>6, <1>7 DEF made
  <2> HIDE DEF result
  <2> QED BY <1>4, <2>1, AppliedDone
<1>11. Traced(mid) /\ Len(mid.ops) = Len(ops) + 1
  BY <1>1, <1>4, AppliedTraced
<1> HIDE DEF mid
<1>12. Numbered(mid) /\ \E k \in 0..Len(mid.ops) : DOMAIN made.stakes = 1..k
  <2>1. PICK k \in 0..Len(ops) : DOMAIN world.stakes = 1..k /\ x = k + 1
    BY <1>1
  <2>2. DOMAIN made.stakes = 1..(k + 1) /\ k + 1 \in 0..Len(mid.ops)
    BY <1>2, <1>7, <1>11, <2>1
  <2> QED BY <1>7, <1>10, <2>2 DEF Numbered
<1>13. CASE Over(mid)
  <2>1. Sound(mid)
    BY <1>11, <1>12, <1>13 DEF Sound
  <2>2. next = mid
    BY <1>13, OverUnapplied
  <2> HIDE DEF next
  <2> QED BY <1>3, <2>1, <2>2, EndedSound
<1>14. CASE ~Over(mid)
  <2>1. Traced(next) /\ Len(next.ops) = Len(mid.ops) + 1 /\ Len(mid.ops) \in Nat
    BY <1>1, <1>11, <1>14, AppliedTraced
  <2>2. CASE joined.failed
    <3>1. /\ next.world = made /\ next.live = (live \cup {x}) \ {x}
          /\ next.total = (total_registered + c) - c
      <4>1. joined = Sim!apply_inner(mid.world, second)
        BY <1>8, <1>10
      <4> QED BY <1>5, <1>7, <1>10, <1>14, <2>2, <4>1, AppliedUndone
    <3> HIDE DEF next
    <3>2. Numbered(next)
      <4>1. PICK k \in 0..Len(mid.ops) : DOMAIN made.stakes = 1..k
        BY <1>12
      <4>2. k \in 0..Len(next.ops)
        BY <2>1, <4>1
      <4> QED BY <1>7, <3>1, <4>1, <4>2 DEF Numbered
    <3>3. Account(next)
      <4>1. next.live = live /\ next.total = total_registered
        BY <1>1, <1>2, <1>9, <3>1
      <4> QED BY <1>2, <1>7, <3>1, <4>1 DEF Account
    <3> QED BY <1>3, <2>1, <3>2, <3>3, EndedSound DEF Sound
  <2>3. CASE ~joined.failed
    <3>1. /\ next.world = joined.world /\ next.live = live \cup {x}
          /\ next.total = total_registered + c
      BY <1>8, <1>10, <1>14, <2>3, Applied
    <3> HIDE DEF next
    <3>2. /\ W!WorldOK(joined.world) /\ DOMAIN joined.world.stakes = DOMAIN made.stakes
          /\ W!Roll(joined.world, Pool) = W!Roll(made, Pool) \cup {x}
          /\ joined.world.pools[Pool].staked_shares
               = made.pools[Pool].staked_shares + made.stakes[x].amount
      BY <1>7, <2>3, RegisterStep DEF joined
    <3>3. Numbered(next)
      <4>1. PICK k \in 0..Len(mid.ops) : DOMAIN made.stakes = 1..k
        BY <1>12
      <4>2. k \in 0..Len(next.ops)
        BY <2>1, <4>1
      <4> QED BY <3>1, <3>2, <4>1, <4>2 DEF Numbered
    <3>4. Account(next)
      BY <1>1, <1>2, <1>7, <3>1, <3>2 DEF Account
    <3> QED BY <1>3, <2>1, <3>3, <3>4, EndedSound DEF Sound
  <2> QED BY <2>2, <2>3
<1> QED BY <1>13, <1>14

\* The claim drains the stake, so the unregister after it succeeds.
LEMMA UnregisterSound ==
  ASSUME FuzzInv, ~Cut, NEW s \in live, DrawUnregister(s)
  PROVE  FuzzInv'
<1> DEFINE n == world.stakes[s].amount
           first == StakeOp("claim", s)
           second == StakeOp("unregister", s)
           st == Begun(live \ {s}, total_registered - n)
           claimed == W!Claim(world, Pool, s).world
           mid == ApplyOne(st, first)
           left == W!Unregister(claimed, Pool, s)
           next == ApplyOne(mid, second)
<1>1. /\ s \in DOMAIN world.stakes /\ s \in W!Roll(world, Pool)
      /\ first \in Ops /\ second \in Ops
  BY DrawnStake
<1>2. /\ W!WorldOK(world) /\ live = W!Roll(world, Pool) /\ Len(ops) \in Nat
      /\ total_registered = world.pools[Pool].staked_shares /\ total_registered \in Nat
      /\ total_registered <= Supply
      /\ \E k \in 0..(OpCount - 1) : DOMAIN world.stakes = 1..k /\ k <= Len(ops)
  BY Drawing
<1>3. n \in Nat
  <2>1. W!Exists(world, s) /\ world \in W!Worlds
    BY <1>1, <1>2 DEF W!Exists, W!WorldOK
  <2> QED BY <2>1, SimConstants, SimScale, W!StakeTyped
<1>4. Ended(next)
  BY DEF DrawUnregister, TwoOps, Released
<1>5. /\ Traced(st) /\ ~Over(st) /\ st.world = world /\ st.ops = ops
      /\ st.live = live \ {s} /\ st.total = total_registered - n
  BY BegunTraced
<1>6. first.op = "claim" /\ second.op = "unregister"
  BY DEF StakeOp
<1>7. Sim!apply_inner(world, first) = W!Claim(world, Pool, s)
  BY <1>1, DrawnOps
<1>8. /\ ~W!Claim(world, Pool, s).failed /\ W!WorldOK(claimed)
      /\ W!SameRoll(world, claimed, Pool) /\ W!Drained(claimed, s, Pool)
  BY <1>1, <1>2, ClaimStep
<1>9. /\ DOMAIN claimed.stakes = DOMAIN world.stakes /\ s \in W!Roll(claimed, Pool)
      /\ W!Roll(claimed, Pool) = live /\ claimed.stakes[s].amount = n
      /\ claimed.pools[Pool].staked_shares = total_registered
  BY <1>1, <1>2, <1>8 DEF W!SameRoll
<1>10. Sim!apply_inner(claimed, second) = left
  BY <1>1, <1>9, DrawnOps
<1> HIDE DEF first, second, st, claimed, left, n
<1>11. mid.world = claimed /\ mid.live = live \ {s} /\ mid.total = total_registered - n
  <2> DEFINE result == W!Claim(world, Pool, s)
  <2>1. result = Sim!apply_inner(st.world, first) /\ ~result.failed /\ result.world = claimed
    BY <1>5, <1>7, <1>8 DEF claimed
  <2> HIDE DEF result
  <2> QED BY <1>5, <2>1, AppliedDone
<1>12. Traced(mid) /\ Len(mid.ops) = Len(ops) + 1
  BY <1>1, <1>5, AppliedTraced
<1> HIDE DEF mid
<1>13. PICK k \in 0..Len(ops) : DOMAIN world.stakes = 1..k
  BY <1>2
<1>14. Numbered(mid)
  <2>1. k \in 0..Len(mid.ops)
    BY <1>2, <1>12, <1>13
  <2> QED BY <1>8, <1>9, <1>11, <1>13, <2>1 DEF Numbered
<1>15. CASE Over(mid)
  <2>1. Sound(mid)
    BY <1>12, <1>14, <1>15 DEF Sound
  <2>2. next = mid
    BY <1>15, OverUnapplied
  <2> HIDE DEF next
  <2> QED BY <1>4, <2>1, <2>2, EndedSound
<1>16. CASE ~Over(mid)
  <2>1. Traced(next) /\ Len(next.ops) = Len(mid.ops) + 1 /\ Len(mid.ops) \in Nat
    BY <1>1, <1>12, <1>16, AppliedTraced
  <2>2. /\ ~left.failed /\ W!WorldOK(left.world)
        /\ DOMAIN left.world.stakes = DOMAIN claimed.stakes
        /\ W!Roll(left.world, Pool) = W!Roll(claimed, Pool) \ {s}
        /\ left.world.pools[Pool].staked_shares
             = claimed.pools[Pool].staked_shares - claimed.stakes[s].amount
    BY <1>8, <1>9, UnregisterStep DEF left
  <2>3. /\ next.world = left.world /\ next.live = live \ {s}
        /\ next.total = total_registered - n
    BY <1>6, <1>10, <1>11, <1>16, <2>2, Applied
  <2> HIDE DEF next
  <2>4. Numbered(next)
    <3>1. k \in 0..Len(next.ops)
      BY <1>2, <1>12, <1>13, <2>1
    <3> QED BY <1>9, <1>13, <2>2, <2>3, <3>1 DEF Numbered
  <2>5. Account(next)
    <3>1. total_registered - n <= Supply
      BY <1>2, <1>3, ConstantsAssumption
    <3> QED BY <1>9, <2>2, <2>3, <3>1 DEF Account
  <2> QED BY <1>4, <2>1, <2>4, <2>5, EndedSound DEF Sound
<1> QED BY <1>15, <1>16

--------------------------------------------------------------------------------
(* The specification *)

\* In every reachable state the op list replays, as a scenario, to the world and the
\* report of the run, the world's books balance, its stakes are numbered in the order
\* they were made, and unless the run is over its account is exact.
THEOREM FuzzerInvariant == Spec => []FuzzInv
<1>1. Init => FuzzInv
  BY FuzzInit
<1>2. FuzzInv /\ [Next]_vars => FuzzInv'
  <2> SUFFICES ASSUME FuzzInv, [Next]_vars PROVE FuzzInv'
    OBVIOUS
  <2>1. CASE Next
    <3>1. ~Cut
      BY <2>1, ConstantsAssumption DEF Next, Cut
    <3>2. PICK kind \in {"deposit", "claim", "register", "unregister"} :
            \/ Drawn(kind) = "deposit" /\ \E v \in DepositBuckets : DrawDeposit(v)
            \/ Drawn(kind) = "claim" /\ \E s \in live : DrawClaim(s)
            \/ Drawn(kind) = "register" /\ \E n \in AmountBuckets : DrawRegister(n)
            \/ Drawn(kind) = "unregister" /\ \E s \in live : DrawUnregister(s)
      BY <2>1 DEF Next
    <3>3. ASSUME NEW v \in DepositBuckets, DrawDeposit(v) PROVE FuzzInv'
      BY <3>1, <3>3, DepositSound
    <3>4. ASSUME NEW s \in live, DrawClaim(s) PROVE FuzzInv'
      BY <3>1, <3>4, ClaimSound
    <3>5. ASSUME Drawn(kind) = "register", NEW n \in AmountBuckets, DrawRegister(n)
          PROVE  FuzzInv'
      <4>1. ~RegisterUnavailable
        BY <3>5 DEF Drawn, Available
      <4> QED BY <3>1, <3>5, <4>1, RegisterSound
    <3>6. ASSUME NEW s \in live, DrawUnregister(s) PROVE FuzzInv'
      BY <3>1, <3>6, UnregisterSound
    <3> QED BY <3>2, <3>3, <3>4, <3>5, <3>6
  <2>2. CASE UNCHANGED vars
    BY <2>2 DEF vars, FuzzInv, Begun
  <2> QED BY <2>1, <2>2
<1> QED BY <1>1, <1>2, PTL DEF Spec

\* The account that run_one writes before its ops run is the world's at every draw.
THEOREM AccountIsTheWorlds == Spec => []BookkeepingExact
<1>1. FuzzInv => BookkeepingExact
  <2> SUFFICES ASSUME FuzzInv, ~Cut
               PROVE  /\ live = {s \in DOMAIN world.stakes : Sim!RegisteredIn(world, s, Pool)}
                      /\ total_registered = world.pools[Pool].staked_shares
                      /\ total_registered <= Supply
    BY DEF BookkeepingExact
  <2>1. /\ live = W!Roll(world, Pool) /\ total_registered <= Supply
        /\ total_registered = world.pools[Pool].staked_shares
    BY Drawing
  <2>2. \A s : Sim!RegisteredIn(world, s, Pool) = W!RegisteredIn(world, s, Pool)
    BY SameEntries
  <2> QED BY <2>1, <2>2 DEF W!Roll
<1> QED BY <1>1, FuzzerInvariant, PTL

\* What shrink leaves of a run that reported reports when run_scenario runs it.
THEOREM DumpsReproduce == Spec => []MinimizedReproduces
<1>1. FuzzInv => MinimizedReproduces
  <2> SUFFICES ASSUME FuzzInv, violated
               PROVE  /\ run_scenario(shrink(ops)).reported
                      /\ shrink(ops) # ops => replay(shrink(ops)) = "violation"
    BY DEF MinimizedReproduces
  <2>1. ops \in Seq(Ops) /\ run_scenario(ops).reported
    BY DEF FuzzInv, Sound, Traced, Begun
  <2>2. Shrunk(ops, shrink(ops))
    BY <2>1, ShrinkShrunk
  <2>3. Len(shrink(ops)) \in Nat
    BY <2>2 DEF Shrunk
  <2>4. replay(shrink(ops)) = "violation" => run_scenario(shrink(ops)).reported
    BY <2>3, ReplayedReports
  <2> QED BY <2>1, <2>2, <2>4 DEF Shrunk
<1> QED BY <1>1, FuzzerInvariant, PTL

=============================================================================
