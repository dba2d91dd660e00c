----------------------------- MODULE SimDiffProofs -----------------------------
(***************************************************************************)
(* Proofs about SimDiff: whose output the diff command reads an AGREE off. *)
(*                                                                         *)
(* What a generated test does is left closed; what is used of it is its    *)
(* name.  The names of a file's tests start with the file's identifier,    *)
(* and none of them starts another.                                        *)
(***************************************************************************)
EXTENDS SimDiff, TLAPS

--------------------------------------------------------------------------------
(* Names *)

\* The provers take no string literal for a member of STRING.
Words == STRING \cup {"abort", "prefix"}

LEMMA PrefixIs ==
    ASSUME NEW s \in Seq(Words), NEW t \in Seq(Words)
    PROVE  IsPrefix(s, t) <=> Len(s) <= Len(t) /\ \A k \in 1..Len(s) : s[k] = t[k]
BY DEF IsPrefix

LEMMA PrefixOfPrefix ==
    ASSUME NEW s \in Seq(Words), NEW t \in Seq(Words), NEW u \in Seq(Words),
           IsPrefix(s, t), IsPrefix(t, u)
    PROVE  IsPrefix(s, u)
BY PrefixIs

Endings == {<<>>, <<"abort">>, <<"prefix">>}

LEMMA Joined ==
    ASSUME NEW s \in Seq(Words), NEW x \in Seq(Words)
    PROVE  /\ s \o x \in Seq(Words)
           /\ Len(s \o x) = Len(s) + Len(x)
           /\ \A k \in 1..Len(s) : (s \o x)[k] = s[k]
           /\ \A k \in 1..Len(x) : (s \o x)[Len(s) + k] = x[k]
OBVIOUS

LEMMA OneWord ==
    ASSUME NEW S, NEW word \in S
    PROVE  <<word>> \in Seq(S) /\ Len(<<word>>) = 1 /\ <<<<word>>[1]>> = <<word>>
OBVIOUS

LEMMA EndingIs ==
    ASSUME NEW x \in Endings
    PROVE  /\ x \in Seq(Words)
           /\ x # <<>> => Len(x) = 1 /\ x = <<x[1]>>
<1>1. "abort" \in Words /\ "prefix" \in Words
    BY DEF Words
<1>2. CASE x = <<>>
    BY <1>2
<1>3. CASE x = <<"abort">>
    BY <1>1, <1>3, OneWord, Zenon
<1>4. CASE x = <<"prefix">>
    BY <1>1, <1>4, OneWord, Zenon
<1> QED BY <1>2, <1>3, <1>4 DEF Endings

LEMMA Suffixed ==
    ASSUME NEW s \in Seq(Words), NEW x \in Endings
    PROVE  /\ s \o x \in Seq(Words)
           /\ IsPrefix(s, s \o x)
<1>1. x \in Seq(Words)
    BY EndingIs
<1>2. s \o x \in Seq(Words) /\ Len(s) <= Len(s \o x)
    BY <1>1, Joined
<1> QED BY <1>1, <1>2, Joined, PrefixIs

\* Only the name of a test that stands alone starts the name of another.
LEMMA EndingsApart ==
    ASSUME NEW s \in Seq(Words), NEW x \in Endings \ {<<>>}, NEW y \in Endings \ {<<>>},
           IsPrefix(s \o x, s \o y)
    PROVE  s \o x = s \o y
<1>1. x \in Seq(Words) /\ y \in Seq(Words) /\ Len(x) = 1 /\ Len(y) = 1
    BY EndingIs
<1>2. /\ s \o x \in Seq(Words) /\ Len(s \o x) = Len(s) + 1
      /\ s \o y \in Seq(Words) /\ Len(s \o y) = Len(s) + 1
    BY <1>1, Joined
<1>3. (s \o x)[Len(s) + 1] = (s \o y)[Len(s) + 1]
    <2> DEFINE u == s \o x
               v == s \o y
    <2>1. \A k \in 1..Len(u) : u[k] = v[k]
        BY <1>2, PrefixIs
    <2> HIDE DEF u, v
    <2>2. Len(s) + 1 \in 1..Len(u)
        BY <1>2 DEF u
    <2> QED BY <2>1, <2>2 DEF u, v
<1>4. x[1] = y[1]
    BY <1>1, <1>3, Joined
<1> QED BY <1>4, EndingIs

\* What the diff command relies on: a file that was generated has a test, whose name starts
\* with the identifier of the file, and no two of its tests' names start each other.
LEMMA TestsOfAFile ==
    ASSUME NEW file, ident(file.name) \in Seq(Words)
    PROVE  /\ generate(file).tests # {}
           /\ \A t \in generate(file).tests :
                 t.fn \in Seq(Words) /\ IsPrefix(ident(file.name), t.fn)
           /\ \A t, u \in generate(file).tests : IsPrefix(t.fn, u.fn) => t.fn = u.fn
<1> DEFINE name == ident(file.name)
<1>1. CASE Aborts(file) = {}
    <2>1. PICK built, expects : generate(file).tests = {Test(file, <<>>, built, expects)}
        BY <1>1 DEF generate, WholeTest
    <2>2. Test(file, <<>>, built, expects).fn = name \o <<>>
        BY DEF Test
    <2> HIDE DEF name
    <2> QED BY <2>1, <2>2, Suffixed DEF Endings, name
<1>2. CASE Aborts(file) # {}
    <2>1. PICK prefix, abort, location :
              generate(file).tests = AbortTests(file, prefix, abort, location).tests
        BY <1>2 DEF generate
    <2>2. \A x, built, expects : Test(file, x, built, expects).fn = name \o x
        BY DEF Test
    <2>3. /\ generate(file).tests # {}
          /\ \A t \in generate(file).tests :
                \E x \in {<<"abort">>, <<"prefix">>} :
                    \E built, expects : t = Test(file, x, built, expects)
        BY <2>1, Zenon DEF AbortTests
    <2>4. {<<"abort">>, <<"prefix">>} \subseteq Endings \ {<<>>}
        BY DEF Endings
    <2>5. \A t \in generate(file).tests : \E x \in Endings \ {<<>>} : t.fn = name \o x
        <3> TAKE t \in generate(file).tests
        <3>1. PICK x \in {<<"abort">>, <<"prefix">>} :
                  \E built, expects : t = Test(file, x, built, expects)
            BY <2>3
        <3> QED BY <2>2, <2>4, <3>1
    <2> HIDE DEF name
    <2>6. ASSUME NEW t \in generate(file).tests
          PROVE  t.fn \in Seq(Words) /\ IsPrefix(name, t.fn)
        BY <2>5, Suffixed DEF name
    <2>7. ASSUME NEW t \in generate(file).tests, NEW u \in generate(file).tests,
                 IsPrefix(t.fn, u.fn)
          PROVE  t.fn = u.fn
        BY <2>5, <2>7, EndingsApart DEF name
    <2> QED BY <2>3, <2>6, <2>7 DEF name
<1> QED BY <1>1, <1>2

--------------------------------------------------------------------------------
(* The inductive invariant *)

Name(j) == ident(paths[j].name)

\* The directory's module m is that of file j, as it was generated.
IsOf(m, j) ==
    /\ j \in DOMAIN planned /\ ~planned[j].error /\ m = Name(j)
    /\ gen_dir[m] = [file |-> paths[j], tests |-> planned[j].tests]

Generated == {generate(paths[j]) : j \in DOMAIN paths}

Planned ==
    /\ planned \in Seq(Generated)
    /\ Len(planned) <= Len(paths)
    /\ \A j \in DOMAIN planned : planned[j] = generate(paths[j])
    /\ stage = "clear" => planned = <<>>
    /\ stage = "plan" => Len(planned) < Len(paths)
    /\ stage \in {"report", "done"} => Len(planned) = Len(paths)
    /\ stage = "test" => Len(planned) = Len(paths)

\* Once the directory was cleared every module is one of this run's, and no file that was
\* generated is without.
OwnModules ==
    stage # "clear" =>
        /\ \A m \in DOMAIN gen_dir : \E j \in DOMAIN planned : IsOf(m, j)
        /\ \A j \in DOMAIN planned : ~planned[j].error => Name(j) \in DOMAIN gen_dir

\* So is every line of the output, which cannot say more than how a test ended.
OwnLines ==
    stage \in {"report", "done"} =>
        \A l \in output : \E m \in DOMAIN gen_dir : \E t \in gen_dir[m].tests :
            l = [module |-> m, fn |-> t.fn, says |-> l.says]

HarnessInv ==
    /\ paths \in Batches
    /\ Planned
    /\ OwnModules
    /\ OwnLines
    /\ stage = "done" => verdicts = [i \in DOMAIN paths |-> Verdict(i)]

LEMMA CommandLine ==
    ASSUME paths \in Batches
    PROVE  /\ paths # <<>> /\ Len(paths) \in Nat \ {0} /\ DOMAIN paths = 1..Len(paths)
           /\ \A j \in DOMAIN paths : Name(j) \in Seq(Words)
<1>1. paths \in Seq(Range(paths)) \ {<<>>}
    BY BatchesAssumption
<1>2. /\ \A j \in DOMAIN paths : paths[j] \in Range(paths)
      /\ \A file \in Range(paths) : file.name.words \in Seq(STRING)
    BY BatchesAssumption DEF Range
<1>3. Seq(STRING) \subseteq Seq(Words)
    BY DEF Words
<1>4. Len(paths) \in Nat \ {0} /\ DOMAIN paths = 1..Len(paths)
    BY <1>1
<1> QED BY <1>1, <1>2, <1>3, <1>4 DEF Name, ident

LEMMA InvInit == Init => HarnessInv
<1> SUFFICES ASSUME Init PROVE HarnessInv
    OBVIOUS
<1>1. paths \in Batches
    BY DEF Init
<1>2. Planned
    BY <1>1, CommandLine DEF Init, Planned
<1> QED BY <1>1, <1>2 DEF Init, HarnessInv, OwnModules, OwnLines

LEMMA ClearStep ==
    ASSUME HarnessInv, Clear
    PROVE  HarnessInv'
<1>1. paths' \in Batches /\ Planned'
    BY CommandLine DEF HarnessInv, Planned, Clear
<1>2. OwnModules'
    BY DEF HarnessInv, Planned, OwnModules, Clear
<1> QED BY <1>1, <1>2 DEF HarnessInv, OwnLines, Clear

LEMMA Appended ==
    ASSUME NEW S, NEW s \in Seq(S), NEW x \in S
    PROVE  /\ Append(s, x) \in Seq(S)
           /\ Len(Append(s, x)) = Len(s) + 1
           /\ DOMAIN Append(s, x) = DOMAIN s \cup {Len(s) + 1}
           /\ Last(Append(s, x)) = x
           /\ Append(s, x)[Len(s) + 1] = x
           /\ \A k \in DOMAIN s : Append(s, x)[k] = s[k]
BY DEF Last

LEMMA PlanStep ==
    ASSUME HarnessInv, Plan
    PROVE  HarnessInv'
<1>1. /\ paths \in Batches /\ paths' = paths /\ stage = "plan" /\ stage' \in {"plan", "test"}
      /\ stage' = "test" => Len(planned') = Len(paths)
      /\ stage' = "plan" => Len(planned') # Len(paths)
    BY DEF HarnessInv, Plan
<1>2. /\ planned \in Seq(Generated) /\ Len(planned) \in Nat
      /\ \A j \in DOMAIN planned : planned[j] = generate(paths[j])
      /\ Len(paths) \in Nat /\ DOMAIN paths = 1..Len(paths) /\ Len(planned) < Len(paths)
    <2>1. planned \in Seq(Generated) /\ Len(planned) < Len(paths)
        BY <1>1 DEF HarnessInv, Planned
    <2>2. Len(planned) \in Nat
        BY <2>1
    <2> QED BY <1>1, <2>1, <2>2, CommandLine DEF HarnessInv, Planned
<1>3. PICK n \in DOMAIN paths : n = Len(planned) + 1
    BY <1>2
<1>4. PICK made \in Generated : made = generate(paths[n])
    BY DEF Generated
<1>5. planned' = Append(planned, made)
    BY <1>3, <1>4 DEF Plan
<1>6. /\ planned' \in Seq(Generated) /\ Len(planned') = n
      /\ DOMAIN planned' = DOMAIN planned \cup {n}
      /\ Last(planned') = made /\ planned'[n] = made
      /\ \A j \in DOMAIN planned : planned'[j] = planned[j]
    BY <1>2, <1>3, <1>5, Appended
<1>7. /\ Generated' = Generated
      /\ \A j : Name(j)' = Name(j)
    BY <1>1 DEF Generated, Name
<1>8. Planned'
    <2>1. \A j \in DOMAIN planned' : planned'[j] = generate(paths[j])
        BY <1>2, <1>4, <1>6
    <2>2. Len(planned') <= Len(paths)
        BY <1>2, <1>3, <1>6
    <2>3. stage' = "plan" => Len(planned') < Len(paths)
        BY <1>1, <1>2, <1>6, <2>2
    <2> QED BY <1>1, <1>6, <1>7, <2>1, <2>2, <2>3 DEF Planned
<1>9. OwnModules'
    <2>1. /\ \A m \in DOMAIN gen_dir : \E j \in DOMAIN planned : IsOf(m, j)
          /\ \A j \in DOMAIN planned : ~planned[j].error => Name(j) \in DOMAIN gen_dir
        BY <1>1 DEF HarnessInv, OwnModules
    <2>2. ASSUME NEW m, NEW j \in DOMAIN planned, IsOf(m, j), gen_dir'[m] = gen_dir[m]
          PROVE  IsOf(m, j)'
        BY <1>1, <1>6, <1>7, <2>2 DEF IsOf
    <2>3. CASE made.error
        <3>1. gen_dir' = gen_dir
            BY <1>6, <2>3 DEF Plan
        <3>2. \A m \in DOMAIN gen_dir' : \E j \in DOMAIN planned' : IsOf(m, j)'
            BY <1>6, <2>1, <2>2, <3>1
        <3>3. \A j \in DOMAIN planned' : ~planned'[j].error => Name(j)' \in DOMAIN gen_dir'
            BY <1>6, <1>7, <2>1, <2>3, <3>1
        <3> QED BY <3>2, <3>3 DEF OwnModules
    <2>4. CASE ~made.error
        <3>1. PICK m : m = Name(n)
            OBVIOUS
        <3>2. gen_dir' = Sim!With(gen_dir, m, [file |-> paths[n], tests |-> made.tests])
            BY <1>3, <1>6, <2>4, <3>1 DEF Plan, Name
        <3>3. /\ DOMAIN gen_dir' = DOMAIN gen_dir \cup {m}
              /\ gen_dir'[m] = [file |-> paths[n], tests |-> made.tests]
              /\ \A k \in DOMAIN gen_dir : k # m => gen_dir'[k] = gen_dir[k]
            BY <3>2 DEF Sim!With
        <3>4. IsOf(m, n)'
            BY <1>1, <1>6, <1>7, <2>4, <3>1, <3>3 DEF IsOf
        <3>5. \A k \in DOMAIN gen_dir' : \E j \in DOMAIN planned' : IsOf(k, j)'
            BY <1>6, <2>1, <2>2, <3>3, <3>4
        <3>6. \A j \in DOMAIN planned' : ~planned'[j].error => Name(j)' \in DOMAIN gen_dir'
            BY <1>6, <1>7, <2>1, <3>1, <3>3
        <3> QED BY <3>5, <3>6 DEF OwnModules
    <2> QED BY <2>3, <2>4
<1> QED BY <1>1, <1>8, <1>9 DEF HarnessInv, OwnLines

LEMMA SuiMoveTestStep ==
    ASSUME HarnessInv, SuiMoveTest
    PROVE  HarnessInv'
<1>1. /\ paths' = paths /\ gen_dir' = gen_dir /\ planned' = planned
      /\ stage = "test" /\ stage' \in {"unbuilt", "report"}
    BY DEF SuiMoveTest
<1>2. Planned' /\ OwnModules'
    BY <1>1 DEF HarnessInv, Planned, OwnModules, IsOf, Name, Generated
<1>3. OwnLines'
    <2>1. SUFFICES ASSUME NEW l \in output'
                   PROVE  \E m \in DOMAIN gen_dir : \E t \in gen_dir[m].tests :
                              l = [module |-> m, fn |-> t.fn, says |-> l.says]
        BY <1>1 DEF OwnLines
    <2>2. PICK timedOut \in {{}} \cup {{name} : name \in TestNames} :
              output' = IF Overrun \/ Cardinality(DOMAIN gen_dir) > ArenaLimit THEN {}
                        ELSE UNION {{Line(m, t, timedOut) : t \in gen_dir[m].tests} :
                                    m \in DOMAIN gen_dir}
        BY Zenon DEF SuiMoveTest
    <2>3. PICK m \in DOMAIN gen_dir : \E t \in gen_dir[m].tests : l = Line(m, t, timedOut)
        BY <2>1, <2>2
    <2>4. PICK t \in gen_dir[m].tests : l = Line(m, t, timedOut)
        BY <2>3
    <2>5. l = [module |-> m, fn |-> t.fn, says |-> l.says]
        BY <2>4 DEF Line
    <2> QED BY <2>5
<1> QED BY <1>1, <1>2, <1>3 DEF HarnessInv

LEMMA ReportStep ==
    ASSUME HarnessInv, Report
    PROVE  HarnessInv'
<1>1. /\ paths' = paths /\ gen_dir' = gen_dir /\ planned' = planned /\ output' = output
      /\ stage = "report" /\ stage' = "done"
      /\ verdicts' = [i \in DOMAIN paths |-> Verdict(i)]
    BY DEF Report
<1>2. Planned' /\ OwnModules' /\ OwnLines'
    BY <1>1 DEF HarnessInv, Planned, OwnModules, OwnLines, IsOf, Name, Generated
<1>3. \A i : Verdict(i)' = Verdict(i)
    BY <1>1 DEF Verdict, Agrees, PassedLine, Mentions
<1> QED BY <1>1, <1>2, <1>3 DEF HarnessInv

\* Every module of the directory is one of this run's files as it was generated, every line
\* of the output is a test's in one of them, and the verdicts are what those lines give.
THEOREM HarnessInvariant == Spec => []HarnessInv
<1>1. Init => HarnessInv
    BY InvInit
<1>2. HarnessInv /\ [Next]_vars => HarnessInv'
    <2> SUFFICES ASSUME HarnessInv, [Next]_vars PROVE HarnessInv'
        OBVIOUS
    <2>1. CASE Next
        BY <2>1, ClearStep, PlanStep, SuiMoveTestStep, ReportStep DEF Next
    <2>2. CASE UNCHANGED vars
        <3>1. \A i : Verdict(i)' = Verdict(i)
            BY <2>2 DEF vars, Verdict, Agrees, PassedLine, Mentions
        <3> QED BY <2>2, <3>1
                DEF vars, HarnessInv, Planned, OwnModules, OwnLines, IsOf, Name, Generated
    <2> QED BY <2>1, <2>2
<1> QED BY <1>1, <1>2, PTL DEF Spec

--------------------------------------------------------------------------------
(* Verdicts *)

\* A line that a name of file i is found in is a line of file i's own module.
LEMMA LineIsOwn ==
    ASSUME HarnessInv, stage = "done", NEW i \in DOMAIN paths, ~planned[i].error, Apart(i),
           NEW t \in planned[i].tests, NEW l \in output, IsPrefix(t.fn, l.fn)
    PROVE  l = [module |-> Name(i), fn |-> t.fn, says |-> l.says]
<1>1. /\ DOMAIN planned = DOMAIN paths
      /\ \A j \in DOMAIN planned : planned[j] = generate(paths[j])
      /\ \A j \in DOMAIN paths : Name(j) \in Seq(Words)
    BY CommandLine DEF HarnessInv, Planned
<1>2. PICK m \in DOMAIN gen_dir : \E u \in gen_dir[m].tests :
          l = [module |-> m, fn |-> u.fn, says |-> l.says]
    BY DEF HarnessInv, OwnLines
<1>3. PICK u \in gen_dir[m].tests : l = [module |-> m, fn |-> u.fn, says |-> l.says]
    BY <1>2
<1>4. PICK j \in DOMAIN planned : IsOf(m, j)
    BY DEF HarnessInv, OwnModules
<1>5. l.fn = u.fn /\ u \in planned[j].tests /\ m = Name(j) /\ ~planned[j].error
    BY <1>3, <1>4 DEF IsOf
<1>6. /\ t.fn \in Seq(Words) /\ IsPrefix(Name(i), t.fn)
      /\ u.fn \in Seq(Words)
    BY <1>1, <1>5, TestsOfAFile DEF Name
<1>7. IsPrefix(Name(i), u.fn)
    BY <1>1, <1>5, <1>6, PrefixOfPrefix
<1>8. j = i
    BY <1>1, <1>5, <1>7 DEF Apart, Name
<1>9. t.fn = u.fn
    BY <1>1, <1>5, <1>8, TestsOfAFile DEF Name
<1> QED BY <1>3, <1>5, <1>8, <1>9

\* The module of file i is in the directory as it was generated from that file.
LEMMA ModuleIsOwn ==
    ASSUME HarnessInv, stage = "done", NEW i \in DOMAIN paths, ~planned[i].error, Apart(i)
    PROVE  gen_dir[Name(i)] = [file |-> paths[i], tests |-> planned[i].tests]
<1>1. /\ DOMAIN planned = DOMAIN paths
      /\ \A j \in DOMAIN planned : planned[j] = generate(paths[j])
      /\ \A j \in DOMAIN paths : Name(j) \in Seq(Words)
    BY CommandLine DEF HarnessInv, Planned
<1>2. PICK j \in DOMAIN planned : IsOf(Name(i), j)
    BY <1>1 DEF HarnessInv, OwnModules
<1>3. ~planned[j].error /\ Name(i) = Name(j)
    BY <1>2 DEF IsOf
<1>4. PICK t \in planned[j].tests : IsPrefix(Name(j), t.fn)
    BY <1>1, TestsOfAFile DEF Name
<1>5. j = i
    BY <1>1, <1>3, <1>4 DEF Apart, Name
<1> QED BY <1>2, <1>5 DEF IsOf

\* The AGREE of a scenario whose name starts the name of no other scenario's test is read
\* off the lines that its own tests printed in this run, each of which passed.
THEOREM VerdictsAreOwn == Spec => []VerdictIsOwn
<1>1. HarnessInv => VerdictIsOwn
    <2> SUFFICES ASSUME HarnessInv, NEW i \in DOMAIN paths,
                        Finished(i), verdicts[i] = "AGREE", Apart(i)
                 PROVE  /\ gen_dir[Name(i)].file = paths[i]
                        /\ \A t \in planned[i].tests :
                              [module |-> Name(i), fn |-> t.fn, says |-> "PASS"] \in output
        BY DEF VerdictIsOwn, Name
    <2>1. stage = "done" /\ Verdict(i) = "AGREE"
        BY DEF HarnessInv, Finished
    <2>2. /\ ~planned[i].error
          /\ \A t \in planned[i].tests : Agrees(Name(i), t.fn)
        BY <2>1 DEF Verdict, Name
    <2>3. gen_dir[Name(i)] = [file |-> paths[i], tests |-> planned[i].tests]
        BY <2>1, <2>2, ModuleIsOwn
    <2>4. ASSUME NEW t \in planned[i].tests
          PROVE  [module |-> Name(i), fn |-> t.fn, says |-> "PASS"] \in output
        <3>1. \E l \in output : IsPrefix(t.fn, l.fn) /\ l.says = "PASS"
            <4>1. CASE PassedLine(Name(i), t.fn)
                BY <4>1 DEF PassedLine
            <4>2. CASE Mentions(t.fn) # {} /\ \A l \in Mentions(t.fn) : l.says # "FAIL"
                BY <4>2 DEF Mentions
            <4> QED BY <2>2, <4>1, <4>2 DEF Agrees
        <3>2. PICK l \in output : IsPrefix(t.fn, l.fn) /\ l.says = "PASS"
            BY <3>1
        <3>3. l = [module |-> Name(i), fn |-> t.fn, says |-> l.says]
            BY <2>1, <2>2, <3>2, LineIsOwn
        <3> QED BY <3>2, <3>3
    <2> QED BY <2>3, <2>4
<1>2. Spec => []HarnessInv
    BY HarnessInvariant
<1> QED BY <1>1, <1>2, PTL
================================================================================
