------------------------------ MODULE SumTheorems ------------------------------
(***************************************************************************)
(* Quotients of naturals, and what SumFunction of the community modules    *)
(* computes over a finite domain.  It is a fold defined by CHOOSE of a     *)
(* recursive function, so its unfolding equation has to be proved first,   *)
(* and with it an induction on finite sets that takes a set in place of    *)
(* the library's predicate.                                                *)
(***************************************************************************)
EXTENDS Integers, FiniteSets, Functions, FiniteSetTheorems, NaturalsInduction,
        WellFoundedInduction, TLAPS

\* One unfolding of the fold over T, with g for the smaller sets.
SumBody(f, g, T) == IF T = {} THEN 0
                    ELSE LET x == CHOOSE y \in T : TRUE IN f[x] + g[T \ {x}]

\* F gives the sum of f over every subset of S, SumFunction at S itself.
PartialSums(f, S, F) ==
  /\ F \in [SUBSET S -> Int]
  /\ F[{}] = 0
  /\ \A T \in SUBSET S : \A y \in T : F[T] = f[y] + F[T \ {y}]
  /\ SumFunctionOnSet(f, S) = F[S]

\* g satisfies the fold's recursion on every subset of S.
RecursiveSum(f, S, g) == g = [T \in SUBSET S |-> SumBody(f, g, T)]

\* Quotient and remainder of naturals.
LEMMA Division ==
  ASSUME NEW a \in Nat, NEW b \in Nat, b > 0
  PROVE  /\ a \div b \in Nat
         /\ a % b \in Nat
         /\ a % b < b
         /\ a = (a \div b) * b + (a % b)
OBVIOUS

\* A quotient rounds down by less than one divisor.
LEMMA DivisionFloor ==
  ASSUME NEW a \in Nat, NEW b \in Nat, b > 0
  PROVE  /\ (a \div b) * b <= a
         /\ a - (a \div b) * b < b
BY Division

\* A number of divisors at most a natural is at most its quotient.
LEMMA QuotientAtLeast ==
  ASSUME NEW a \in Nat, NEW b \in Nat, b > 0, NEW q \in Nat, q * b <= a
  PROVE  q <= a \div b
<1> DEFINE k == a \div b
<1>1. k \in Nat /\ a - k * b < b
  BY Division, DivisionFloor
<1> SUFFICES ASSUME k + 1 <= q PROVE FALSE
  BY <1>1
<1> HIDE DEF k
<1>2. (k + 1) * b <= q * b
  BY <1>1
<1>3. (k + 1) * b = k * b + b /\ k * b \in Nat /\ q * b \in Nat
  BY <1>1
<1> QED BY <1>1, <1>2, <1>3

\* A natural below k + 1 divisors has a quotient of at most k.
LEMMA QuotientAtMost ==
  ASSUME NEW a \in Nat, NEW b \in Nat, b > 0, NEW k \in Nat, a < (k + 1) * b
  PROVE  a \div b <= k
<1> DEFINE q == a \div b
<1>1. q \in Nat /\ q * b <= a
  BY Division, DivisionFloor
<1> SUFFICES ASSUME k + 1 <= q PROVE FALSE
  BY <1>1
<1> HIDE DEF q
<1>2. (k + 1) * b <= q * b /\ (k + 1) * b \in Nat /\ q * b \in Nat
  BY <1>1
<1> QED BY <1>1, <1>2

\* Adding k divisors adds k to the quotient.
LEMMA QuotientShift ==
  ASSUME NEW a \in Nat, NEW b \in Nat, b > 0, NEW k \in Nat
  PROVE  (a + k * b) \div b = k + (a \div b)
<1> DEFINE q == a \div b
           m == a + k * b
<1>1. q \in Nat /\ q * b <= a /\ a - q * b < b
  BY Division, DivisionFloor
<1> HIDE DEF q
<1>2. m \in Nat /\ k + q \in Nat
  BY <1>1
<1>3. /\ (k + q) * b = k * b + q * b /\ (k + q + 1) * b = k * b + q * b + b
      /\ k * b \in Nat /\ q * b \in Nat
  BY <1>1
<1>4. (k + q) * b <= m /\ m < (k + q + 1) * b
  BY <1>1, <1>3
<1> HIDE DEF m
<1>5. k + q <= m \div b /\ m \div b <= k + q /\ m \div b \in Nat
  BY <1>2, <1>4, QuotientAtLeast, QuotientAtMost, Division
<1> QED BY <1>2, <1>5 DEF m, q

\* A set of naturals with 0 and every successor is all of Nat.
LEMMA NatSetInduction ==
  ASSUME NEW T \in SUBSET Nat, 0 \in T, \A n \in T : n + 1 \in T
  PROVE  T = Nat
<1>1. SUFFICES ASSUME Nat \ T # {} PROVE FALSE
  OBVIOUS
<1>2. PICK m \in Nat \ T : \A n \in Nat \ T : ~ (<<n, m>> \in OpToRel(<, Nat))
  <2>1. Nat \ T \subseteq Nat
    OBVIOUS
  <2> QED BY <1>1, <2>1, NatLessThanWellFounded, WFMin
<1>3. m # 0
  OBVIOUS
<1>4. m - 1 \in Nat /\ <<m - 1, m>> \in OpToRel(<, Nat)
  BY <1>3 DEF OpToRel
<1>5. m - 1 \in T
  BY <1>2, <1>4
<1>6. (m - 1) + 1 = m
  OBVIOUS
<1>7. m \in T
  BY <1>5, <1>6
<1> QED BY <1>7

\* A family of subsets with {} and closed under adding one element holds S.
LEMMA FiniteInduction ==
  ASSUME NEW S, IsFiniteSet(S), NEW Q \in SUBSET (SUBSET S), {} \in Q,
         \A T \in Q : \A x \in S \ T : T \cup {x} \in Q
  PROVE  S \in Q
<1> DEFINE N == {n \in Nat : \A T \in SUBSET S : Cardinality(T) = n => T \in Q}
<1>1. 0 \in N
  <2>1. \A T \in SUBSET S : Cardinality(T) = 0 => T = {}
    BY FS_EmptySet, FS_Subset
  <2> QED BY <2>1
<1>2. \A n \in N : n + 1 \in N
  <2> SUFFICES ASSUME NEW n \in N, NEW T \in SUBSET S, Cardinality(T) = n + 1
               PROVE  T \in Q
    OBVIOUS
  <2>1. IsFiniteSet(T) /\ T # {}
    BY FS_Subset, FS_EmptySet
  <2>2. PICK x \in T : TRUE
    BY <2>1
  <2>3. Cardinality(T \ {x}) = Cardinality(T) - 1
    BY <2>1, <2>2, FS_RemoveElement
  <2>6. Cardinality(T \ {x}) = n
    BY <2>3
  <2>4. T \ {x} \in Q
    BY <2>6
  <2>5. (T \ {x}) \cup {x} = T /\ x \in S \ (T \ {x})
    BY <2>2
  <2> QED BY <2>4, <2>5
<1>3. N = Nat
  <2> N \in SUBSET Nat
    OBVIOUS
  <2> HIDE DEF N
  <2> QED BY <1>1, <1>2, NatSetInduction
<1> QED BY <1>3, FS_CardinalityType

\* The recursion of the fold has a solution over a finite set.
LEMMA SumExists ==
  ASSUME NEW S, IsFiniteSet(S), NEW f, \A x \in S : f[x] \in Int
  PROVE  \E g : RecursiveSum(f, S, g)
<1> USE DEF SumBody
<1> DEFINE Body(g, T) == SumBody(f, g, T)
           N == {n \in Nat : \E g \in [SUBSET S -> Int] :
                   \A T \in SUBSET S : Cardinality(T) <= n => g[T] = Body(g, T)}
<1>0. \A T \in SUBSET S : T # {} => (CHOOSE y \in T : TRUE) \in T
  OBVIOUS
<1>1. 0 \in N
  <2> DEFINE g == [T \in SUBSET S |-> 0]
  <2>1. \A T \in SUBSET S : Cardinality(T) <= 0 => T = {}
    BY FS_Subset, FS_CardinalityType, FS_EmptySet
  <2>2. \A T \in SUBSET S : Cardinality(T) <= 0 => g[T] = Body(g, T)
    BY <2>1
  <2>3. g \in [SUBSET S -> Int]
    OBVIOUS
  <2> QED BY <2>2, <2>3
<1>2. \A n \in N : n + 1 \in N
  <2> SUFFICES ASSUME NEW n \in N PROVE n + 1 \in N
    OBVIOUS
  <2>1. PICK g \in [SUBSET S -> Int] :
          \A T \in SUBSET S : Cardinality(T) <= n => g[T] = Body(g, T)
    OBVIOUS
  <2> DEFINE h == [T \in SUBSET S |-> Body(g, T)]
  <2>2. h \in [SUBSET S -> Int]
    BY <1>0
  <2>3. ASSUME NEW T \in SUBSET S, Cardinality(T) <= n + 1
        PROVE  h[T] = Body(h, T)
    <3>1. CASE T = {}
      BY <3>1
    <3>2. CASE T # {}
      <4> DEFINE x == CHOOSE y \in T : TRUE
      <4>1. x \in T
        BY <3>2
      <4>2. IsFiniteSet(T) /\ Cardinality(T) \in Nat
        BY FS_Subset, FS_CardinalityType
      <4>7. Cardinality(T \ {x}) = Cardinality(T) - 1
        <5> HIDE DEF x
        <5> QED BY <4>1, <4>2, FS_RemoveElement
      <4>3. Cardinality(T \ {x}) <= n
        BY <4>7, <4>2, <2>3
      <4>4. T \ {x} \in SUBSET S
        OBVIOUS
      <4>5. h[T \ {x}] = g[T \ {x}]
        BY <4>3, <4>4, <2>1
      <4>6. h[T] = f[x] + g[T \ {x}]
        BY <3>2
      <4> QED BY <4>5, <4>6, <3>2
    <3> QED BY <3>1, <3>2
  <2>4. n + 1 \in Nat
    OBVIOUS
  <2> QED BY <2>2, <2>3, <2>4
<1>3. N = Nat
  <2> N \in SUBSET Nat
    OBVIOUS
  <2> HIDE DEF N
  <2> QED BY <1>1, <1>2, NatSetInduction
<1>4. PICK g \in [SUBSET S -> Int] :
        \A T \in SUBSET S : Cardinality(T) <= Cardinality(S) => g[T] = Body(g, T)
  BY <1>3, FS_CardinalityType
<1>5. \A T \in SUBSET S : g[T] = Body(g, T)
  BY <1>4, FS_Subset
<1>6. g = [T \in SUBSET S |-> Body(g, T)]
  <2> HIDE DEF Body
  <2> QED BY <1>5
<1> HIDE DEF SumBody
<1> QED BY <1>6 DEF RecursiveSum

\* The fold's CHOOSE is that solution: partial sums exist and add one element at a time.
LEMMA SumUnfold ==
  ASSUME NEW S, IsFiniteSet(S), NEW f, \A x \in S : f[x] \in Int
  PROVE  \E F : PartialSums(f, S, F)
<1> DEFINE Body(g, T) == SumBody(f, g, T)
           g == CHOOSE sum : sum = [T \in SUBSET S |-> Body(sum, T)]
<1>1. SumFunctionOnSet(f, S) = g[S]
  BY DEF SumFunctionOnSet, FoldFunctionOnSet, MapThenFoldSet, SumBody
<1>2. g = [T \in SUBSET S |-> Body(g, T)]
  <2>1. PICK h : RecursiveSum(f, S, h)
    BY SumExists
  <2>2. \E sum : sum = [T \in SUBSET S |-> SumBody(f, sum, T)]
    BY <2>1, Zenon DEF RecursiveSum
  <2> QED BY <2>2, Zenon
<1> HIDE DEF g
<1>3. \A T \in SUBSET S : g[T] = Body(g, T)
  <2> HIDE DEF Body
  <2> QED BY <1>2
<1>4. g[{}] = 0
  BY <1>3 DEF SumBody
<1>5. ASSUME NEW T \in SUBSET S, T # {}
      PROVE  \E c \in T : g[T] = f[c] + g[T \ {c}]
  <2>1. (CHOOSE y \in T : TRUE) \in T
    BY <1>5
  <2> QED BY <1>3, <1>5, <2>1 DEF SumBody
<1> HIDE DEF Body
<1> DEFINE AnyOrder(T) == g[T] \in Int /\ \A y \in T : g[T] = f[y] + g[T \ {y}]
           N == {n \in Nat : \A T \in SUBSET S : Cardinality(T) <= n => AnyOrder(T)}
<1>6. 0 \in N
  <2>1. \A T \in SUBSET S : Cardinality(T) <= 0 => T = {}
    BY FS_Subset, FS_CardinalityType, FS_EmptySet
  <2>2. AnyOrder({})
    BY <1>4
  <2> HIDE DEF AnyOrder
  <2> QED BY <2>1, <2>2
<1>7. ASSUME NEW n \in N PROVE n + 1 \in N
  <2> SUFFICES ASSUME NEW T \in SUBSET S, Cardinality(T) <= n + 1 PROVE AnyOrder(T)
    OBVIOUS
  <2>1. CASE T = {}
    BY <1>4, <2>1
  <2>2. CASE T # {}
    <3>1. PICK c \in T : g[T] = f[c] + g[T \ {c}]
      BY <1>5, <2>2
    <3>2. ASSUME NEW y \in T
          PROVE  T \ {y} \in SUBSET S /\ Cardinality(T \ {y}) <= n
      <4>1. IsFiniteSet(T) /\ Cardinality(T) \in Nat
        BY FS_Subset, FS_CardinalityType
      <4>2. Cardinality(T \ {y}) = Cardinality(T) - 1
        BY <4>1, FS_RemoveElement
      <4> QED BY <4>1, <4>2
    <3>3. ASSUME NEW y \in T PROVE AnyOrder(T \ {y})
      <4> HIDE DEF AnyOrder
      <4> QED BY <3>2
    <3>4. ASSUME NEW y \in T, y # c PROVE g[T] = f[y] + g[T \ {y}]
      <4> DEFINE r == T \ {c, y}
      <4>1. (T \ {c}) \ {y} = r /\ (T \ {y}) \ {c} = r
        OBVIOUS
      <4>2. y \in T \ {c} /\ c \in T \ {y}
        BY <3>4
      <4>3. g[T \ {c}] = f[y] + g[r] /\ g[T \ {y}] = f[c] + g[r]
        <5>1. AnyOrder(T \ {c}) /\ AnyOrder(T \ {y})
          BY <3>3
        <5>2. /\ g[T \ {c}] = f[y] + g[(T \ {c}) \ {y}]
              /\ g[T \ {y}] = f[c] + g[(T \ {y}) \ {c}]
          BY <5>1, <4>2
        <5> HIDE DEF r
        <5> QED BY <5>2, <4>1
      <4>4. g[T \ {c}] \in Int /\ g[T \ {y}] \in Int
        BY <3>3
      <4>5. r = (T \ {c}) \ {y} /\ Cardinality(r) <= n /\ r \in SUBSET S
        <5>1. IsFiniteSet(T \ {c}) /\ Cardinality(T \ {c}) \in Nat
          BY <3>2, FS_Subset, FS_CardinalityType
        <5>2. Cardinality((T \ {c}) \ {y}) = Cardinality(T \ {c}) - 1
          BY <5>1, <4>2, FS_RemoveElement
        <5>3. Cardinality(T \ {c}) <= n
          BY <3>2
        <5>4. Cardinality((T \ {c}) \ {y}) <= n
          BY <5>1, <5>2, <5>3
        <5> QED BY <4>1, <5>4
      <4>6. g[r] \in Int
        <5>1. AnyOrder(r)
          <6> HIDE DEF AnyOrder, r
          <6> QED BY <4>5
        <5> QED BY <5>1
      <4> HIDE DEF r
      <4> QED BY <3>1, <4>3, <4>6
    <3>5. g[T] \in Int
      BY <3>1, <3>3
    <3> QED BY <3>1, <3>4, <3>5
  <2> QED BY <2>1, <2>2
<1>8. N = Nat
  <2>1. N \in SUBSET Nat
    OBVIOUS
  <2> HIDE DEF N
  <2> QED BY <1>6, <1>7, <2>1, NatSetInduction
<1>9. \A T \in SUBSET S : AnyOrder(T)
  <2>1. \A T \in SUBSET S : Cardinality(T) <= Cardinality(S)
    BY FS_Subset
  <2>2. Cardinality(S) \in N
    BY <1>8, FS_CardinalityType
  <2> HIDE DEF AnyOrder
  <2> QED BY <2>1, <2>2
<1>10. g \in [SUBSET S -> Int]
  BY <1>2, <1>9
<1>11. PartialSums(f, S, g)
  BY <1>1, <1>4, <1>9, <1>10 DEF PartialSums
<1> QED BY <1>11

\* A sum of integers is an integer.
LEMMA SumType ==
  ASSUME NEW S, IsFiniteSet(S), NEW f \in [S -> Int]
  PROVE  SumFunction(f) \in Int
<1>1. PICK F : PartialSums(f, S, F)
  BY SumUnfold
<1> QED BY <1>1 DEF SumFunction, PartialSums

\* The sum of f + d * g is the sum of f plus d times the sum of g.
LEMMA SumLinear ==
  ASSUME NEW S, IsFiniteSet(S), NEW f \in [S -> Int], NEW g \in [S -> Int], NEW d \in Int
  PROVE  SumFunction([s \in S |-> f[s] + d * g[s]]) = SumFunction(f) + d * SumFunction(g)
<1> DEFINE h == [s \in S |-> f[s] + d * g[s]]
<1>0. h \in [S -> Int] /\ \A s \in S : h[s] = f[s] + d * g[s]
  OBVIOUS
<1> HIDE DEF h
<1>f. PICK F : PartialSums(f, S, F)
  BY SumUnfold
<1>g. PICK G : PartialSums(g, S, G)
  BY SumUnfold
<1>h. PICK H : PartialSums(h, S, H)
  BY <1>0, SumUnfold
<1> DEFINE Q == {T \in SUBSET S : H[T] = F[T] + d * G[T]}
<1>1. {} \in Q
  BY <1>f, <1>g, <1>h DEF PartialSums
<1>2. ASSUME NEW T \in Q, NEW x \in S \ T PROVE T \cup {x} \in Q
  <2> DEFINE U == T \cup {x}
  <2>1. U \in SUBSET S /\ x \in U /\ U \ {x} = T /\ T \in SUBSET S
    OBVIOUS
  <2>2. H[U] = h[x] + H[T] /\ F[U] = f[x] + F[T] /\ G[U] = g[x] + G[T]
    <3> HIDE DEF U
    <3> QED BY <1>f, <1>g, <1>h, <2>1 DEF PartialSums
  <2>3. H[T] = F[T] + d * G[T] /\ h[x] = f[x] + d * g[x]
    BY <1>0
  <2>4. /\ f[x] \in Int /\ g[x] \in Int /\ F[T] \in Int /\ G[T] \in Int
    BY <2>1, <1>f, <1>g DEF PartialSums
  <2>5. \A a, b, k, m \in Int : (a + d * b) + (k + d * m) = (a + k) + d * (b + m)
    OBVIOUS
  <2>6. H[U] = F[U] + d * G[U]
    <3> HIDE DEF U
    <3> QED BY <2>2, <2>3, <2>4, <2>5
  <2> QED BY <2>6, <2>1
<1>3. S \in Q
  <2>1. Q \in SUBSET (SUBSET S)
    OBVIOUS
  <2> HIDE DEF Q
  <2> QED BY <1>1, <1>2, <2>1, FiniteInduction
<1>4. SumFunction(h) = SumFunction(f) + d * SumFunction(g)
  BY <1>0, <1>3, <1>f, <1>g, <1>h DEF SumFunction, PartialSums
<1> QED BY <1>4 DEF h

\* A function that is 0 everywhere sums to 0.
LEMMA SumZero ==
  ASSUME NEW S, IsFiniteSet(S), NEW f \in [S -> Int], \A s \in S : f[s] = 0
  PROVE  SumFunction(f) = 0
<1>1. f = [s \in S |-> f[s] + 1 * f[s]]
  OBVIOUS
<1>2. SumFunction(f) = SumFunction(f) + 1 * SumFunction(f)
  BY <1>1, SumLinear
<1> QED BY <1>2, SumType

\* A sum of naturals is a natural and bounds each of them.
LEMMA SumNonNegative ==
  ASSUME NEW S, IsFiniteSet(S), NEW f \in [S -> Nat]
  PROVE  SumFunction(f) \in Nat /\ \A s \in S : f[s] <= SumFunction(f)
<1>0. f \in [S -> Int]
  OBVIOUS
<1>f. PICK F : PartialSums(f, S, F)
  BY <1>0, SumUnfold
<1> DEFINE Q == {T \in SUBSET S : F[T] \in Nat /\ \A s \in T : f[s] <= F[T]}
<1>1. {} \in Q
  BY <1>f DEF PartialSums
<1>2. ASSUME NEW T \in Q, NEW x \in S \ T PROVE T \cup {x} \in Q
  <2> DEFINE U == T \cup {x}
  <2>1. U \in SUBSET S /\ x \in U /\ U \ {x} = T /\ T \in SUBSET S
    OBVIOUS
  <2>2. F[U] = f[x] + F[T]
    <3> HIDE DEF U
    <3> QED BY <1>f, <2>1 DEF PartialSums
  <2>3. F[U] \in Nat /\ f[x] <= F[U] /\ F[T] <= F[U]
    <3> HIDE DEF U
    <3> QED BY <2>2
  <2>4. \A s \in T : f[s] <= F[U]
    <3>1. \A s \in T : f[s] \in Nat /\ f[s] <= F[T]
      OBVIOUS
    <3> HIDE DEF U
    <3> QED BY <2>3, <3>1
  <2> QED BY <2>1, <2>3, <2>4
<1>3. S \in Q
  <2>1. Q \in SUBSET (SUBSET S)
    OBVIOUS
  <2> HIDE DEF Q
  <2> QED BY <1>1, <1>2, <2>1, FiniteInduction
<1> QED BY <1>3, <1>f DEF SumFunction, PartialSums

\* Changing a function at one argument changes its sum by the difference there.
LEMMA SumUpdate ==
  ASSUME NEW S, IsFiniteSet(S), NEW f \in [S -> Int], NEW h \in [S -> Int],
         NEW x \in S, \A s \in S : s # x => h[s] = f[s]
  PROVE  SumFunction(h) = SumFunction(f) - f[x] + h[x]
<1>f. PICK F : PartialSums(f, S, F)
  BY SumUnfold
<1>h. PICK H : PartialSums(h, S, H)
  BY SumUnfold
<1> DEFINE Q == {T \in SUBSET S : x \notin T => H[T] = F[T]}
<1>1. {} \in Q
  BY <1>f, <1>h DEF PartialSums
<1>2. ASSUME NEW T \in Q, NEW y \in S \ T PROVE T \cup {y} \in Q
  <2> DEFINE U == T \cup {y}
  <2>1. U \in SUBSET S /\ y \in U /\ U \ {y} = T /\ T \in SUBSET S
    OBVIOUS
  <2>2. H[U] = h[y] + H[T] /\ F[U] = f[y] + F[T]
    <3> HIDE DEF U
    <3> QED BY <1>f, <1>h, <2>1 DEF PartialSums
  <2>3. x \notin U => h[y] = f[y] /\ H[T] = F[T]
    OBVIOUS
  <2> QED BY <2>1, <2>2, <2>3
<1>3. S \ {x} \in Q
  <2> DEFINE R == {T \in SUBSET (S \ {x}) : T \in Q}
  <2>1. R \in SUBSET (SUBSET (S \ {x})) /\ {} \in R
    BY <1>1
  <2>2. \A T \in R : \A y \in (S \ {x}) \ T : T \cup {y} \in R
    <3> HIDE DEF Q
    <3> QED BY <1>2
  <2>3. IsFiniteSet(S \ {x})
    BY FS_RemoveElement
  <2> HIDE DEF R
  <2>4. S \ {x} \in R
    BY <2>1, <2>2, <2>3, FiniteInduction
  <2> QED BY <2>4 DEF R
<1>4. H[S \ {x}] = F[S \ {x}] /\ F[S \ {x}] \in Int
  BY <1>3, <1>f DEF PartialSums
<1>5. H[S] = h[x] + H[S \ {x}] /\ F[S] = f[x] + F[S \ {x}]
  BY <1>f, <1>h DEF PartialSums
<1>6. H[S] = F[S] - f[x] + h[x]
  BY <1>4, <1>5
<1> QED BY <1>6, <1>f, <1>h DEF SumFunction, PartialSums

\* The sum over a part of the domain is the partial sum there.
LEMMA SumOnPart ==
  ASSUME NEW S, IsFiniteSet(S), NEW f \in [S -> Int], NEW F, PartialSums(f, S, F),
         NEW T \in SUBSET S
  PROVE  SumFunctionOnSet(f, T) = F[T]
<1>1. IsFiniteSet(T) /\ \A x \in T : f[x] \in Int
  BY FS_Subset
<1>2. PICK G : PartialSums(f, T, G)
  BY <1>1, SumUnfold
<1> DEFINE Q == {U \in SUBSET T : G[U] = F[U]}
<1>3. {} \in Q
  BY <1>2 DEF PartialSums
<1>4. ASSUME NEW U \in Q, NEW x \in T \ U PROVE U \cup {x} \in Q
  <2>1. (U \cup {x}) \ {x} = U /\ x \in U \cup {x} /\ U \cup {x} \in SUBSET T
    OBVIOUS
  <2>2. G[U \cup {x}] = f[x] + G[(U \cup {x}) \ {x}]
    BY <1>2, <2>1 DEF PartialSums
  <2>3. F[U \cup {x}] = f[x] + F[(U \cup {x}) \ {x}]
    BY <2>1 DEF PartialSums
  <2>4. G[U] = F[U]
    OBVIOUS
  <2> QED BY <2>1, <2>2, <2>3, <2>4
<1>5. T \in Q
  <2>1. Q \in SUBSET (SUBSET T)
    OBVIOUS
  <2> HIDE DEF Q
  <2> QED BY <1>1, <1>3, <1>4, <2>1, FiniteInduction
<1> QED BY <1>2, <1>5 DEF PartialSums

\* Where a function is zero outside T, its sum is the sum over T.
LEMMA SumOverPart ==
  ASSUME NEW S, IsFiniteSet(S), NEW f \in [S -> Int], NEW T \in SUBSET S, NEW g \in [T -> Int],
         \A x \in T : g[x] = f[x], \A x \in S \ T : f[x] = 0
  PROVE  SumFunction(g) = SumFunction(f)
<1>1. IsFiniteSet(T)
  BY FS_Subset
<1>2. PICK F : PartialSums(f, S, F)
  BY SumUnfold
<1>3. PICK G : PartialSums(g, T, G)
  BY <1>1, SumUnfold
<1> DEFINE Q == {U \in SUBSET S : G[U \cap T] = F[U]}
<1>4. {} \in Q
  <2>1. {} \cap T = {}
    OBVIOUS
  <2> QED BY <1>2, <1>3, <2>1 DEF PartialSums
<1>5. ASSUME NEW U \in Q, NEW x \in S \ U PROVE U \cup {x} \in Q
  <2> DEFINE V == U \cup {x}
  <2>1. V \in SUBSET S /\ x \in V /\ V \ {x} = U /\ U \in SUBSET S
    OBVIOUS
  <2>2. F[V] = f[x] + F[U] /\ F[U] \in Int /\ G[U \cap T] = F[U]
    <3> HIDE DEF V
    <3> QED BY <1>2, <2>1 DEF PartialSums
  <2>3. CASE x \in T
    <3>1. V \cap T \in SUBSET T /\ x \in V \cap T /\ (V \cap T) \ {x} = U \cap T
      BY <2>3
    <3> HIDE DEF V
    <3>2. G[V \cap T] = g[x] + G[U \cap T]
      <4> DEFINE W == V \cap T
      <4>1. W \in SUBSET T /\ x \in W /\ W \ {x} = U \cap T
        BY <3>1
      <4> HIDE DEF W
      <4>2. G[W] = g[x] + G[W \ {x}]
        BY <1>3, <4>1 DEF PartialSums
      <4> QED BY <4>1, <4>2 DEF W
    <3>3. G[V \cap T] = F[V]
      BY <2>2, <2>3, <3>2
    <3> QED BY <2>1, <3>3 DEF V
  <2>4. CASE x \notin T
    <3>1. V \cap T = U \cap T
      BY <2>4
    <3> HIDE DEF V
    <3>2. G[V \cap T] = F[V]
      BY <2>2, <2>4, <3>1
    <3> QED BY <2>1, <3>2 DEF V
  <2> QED BY <2>3, <2>4
<1>6. S \in Q
  <2>1. Q \in SUBSET (SUBSET S)
    OBVIOUS
  <2> HIDE DEF Q
  <2> QED BY <1>4, <1>5, <2>1, FiniteInduction
<1>7. S \cap T = T
  OBVIOUS
<1> QED BY <1>2, <1>3, <1>6, <1>7 DEF SumFunction, PartialSums

\* A sum may be taken group by group: k names the group of each element.
LEMMA SumByGroup ==
  ASSUME NEW S, IsFiniteSet(S), NEW f \in [S -> Int], NEW R, IsFiniteSet(R),
         NEW k, \A s \in S : k[s] \in R
  PROVE  /\ [r \in R |-> SumFunctionOnSet(f, {s \in S : k[s] = r})] \in [R -> Int]
         /\ SumFunction([r \in R |-> SumFunctionOnSet(f, {s \in S : k[s] = r})])
              = SumFunction(f)
<1>1. PICK F : PartialSums(f, S, F)
  BY SumUnfold
<1> DEFINE Group(T) == [r \in R |-> F[{s \in T : k[s] = r}]]
           Q == {T \in SUBSET S : SumFunction(Group(T)) = F[T]}
<1>2. \A T \in SUBSET S : Group(T) \in [R -> Int]
  <2>1. \A T \in SUBSET S, r \in R : {s \in T : k[s] = r} \in SUBSET S
    OBVIOUS
  <2> QED BY <1>1, <2>1 DEF PartialSums
<1>3. {} \in Q
  <2>1. \A r \in R : Group({})[r] = 0
    <3>1. \A r \in R : {s \in {} : k[s] = r} = {}
      OBVIOUS
    <3> QED BY <1>1, <3>1 DEF PartialSums
  <2>2. SumFunction(Group({})) = 0
    <3>1. Group({}) \in [R -> Int]
      BY <1>2
    <3> HIDE DEF Group
    <3> QED BY <2>1, <3>1, SumZero
  <2> QED BY <1>1, <2>2 DEF PartialSums
<1>4. ASSUME NEW T \in Q, NEW x \in S \ T PROVE T \cup {x} \in Q
  <2> DEFINE U == T \cup {x}
             C(V, r) == {s \in V : k[s] = r}
  <2>1. U \in SUBSET S /\ x \in U /\ U \ {x} = T /\ T \in SUBSET S /\ k[x] \in R
    OBVIOUS
  <2>2. F[U] = f[x] + F[T]
    BY <1>1, <2>1 DEF PartialSums
  <2>3. \A r \in R : r # k[x] => C(U, r) = C(T, r)
    OBVIOUS
  <2>4. F[C(U, k[x])] = f[x] + F[C(T, k[x])]
    <3>1. C(U, k[x]) \in SUBSET S /\ x \in C(U, k[x]) /\ C(U, k[x]) \ {x} = C(T, k[x])
      OBVIOUS
    <3>2. \A V \in SUBSET S : \A y \in V : F[V] = f[y] + F[V \ {y}]
      BY <1>1 DEF PartialSums
    <3> HIDE DEF C, U
    <3>3. F[C(U, k[x])] = f[x] + F[C(U, k[x]) \ {x}]
      BY <3>1, <3>2
    <3> QED BY <3>1, <3>3
  <2>5. \A r \in R : r # k[x] => Group(U)[r] = Group(T)[r]
    <3>1. \A r \in R : Group(U)[r] = F[C(U, r)] /\ Group(T)[r] = F[C(T, r)]
      OBVIOUS
    <3> HIDE DEF C, Group, U
    <3> QED BY <2>3, <3>1
  <2>6. Group(U)[k[x]] = f[x] + Group(T)[k[x]]
    BY <2>1, <2>4
  <2>7. Group(U) \in [R -> Int] /\ Group(T) \in [R -> Int] /\ SumFunction(Group(T)) = F[T]
    BY <1>2, <2>1
  <2>8. SumFunction(Group(T)) \in Int /\ f[x] \in Int /\ Group(T)[k[x]] \in Int
    BY <2>1, <2>7, SumType
  <2> HIDE DEF Group, U
  <2>9. SumFunction(Group(U)) = SumFunction(Group(T)) - Group(T)[k[x]] + Group(U)[k[x]]
    BY <2>1, <2>5, <2>7, SumUpdate
  <2>10. SumFunction(Group(U)) = F[U]
    BY <2>2, <2>6, <2>7, <2>8, <2>9
  <2> QED BY <2>1, <2>10 DEF U
<1>5. S \in Q
  <2>1. Q \in SUBSET (SUBSET S)
    OBVIOUS
  <2> HIDE DEF Q
  <2> QED BY <1>3, <1>4, <2>1, FiniteInduction
<1>6. [r \in R |-> SumFunctionOnSet(f, {s \in S : k[s] = r})] = Group(S)
  <2>1. \A r \in R : SumFunctionOnSet(f, {s \in S : k[s] = r}) = F[{s \in S : k[s] = r}]
    <3>1. \A r \in R : {s \in S : k[s] = r} \in SUBSET S
      OBVIOUS
    <3> QED BY <1>1, <3>1, SumOnPart
  <2> QED BY <2>1
<1>7. SumFunction(f) = F[S]
  BY <1>1 DEF PartialSums, SumFunction
<1>8. SumFunction(Group(S)) = F[S] /\ Group(S) \in [R -> Int]
  BY <1>2, <1>5
<1> HIDE DEF Group
<1> QED BY <1>6, <1>7, <1>8

\* A sum of terms of at most c is at most c for each.
LEMMA SumAtMost ==
  ASSUME NEW S, IsFiniteSet(S), NEW f \in [S -> Int], NEW c \in Nat, \A s \in S : f[s] <= c
  PROVE  SumFunction(f) <= c * Cardinality(S)
<1>1. PICK F : PartialSums(f, S, F)
  BY SumUnfold
<1> DEFINE Q == {T \in SUBSET S : F[T] <= c * Cardinality(T)}
<1>2. {} \in Q
  <2>1. F[{}] = 0
    BY <1>1 DEF PartialSums
  <2>2. Cardinality({}) = 0
    BY FS_EmptySet
  <2>3. F[{}] <= c * Cardinality({})
    BY <2>1, <2>2
  <2> QED BY <2>3
<1>3. ASSUME NEW T \in Q, NEW x \in S \ T PROVE T \cup {x} \in Q
  <2> DEFINE U == T \cup {x}
  <2>1. U \in SUBSET S /\ x \in U /\ U \ {x} = T /\ T \in SUBSET S
    OBVIOUS
  <2>2. F[U] = f[x] + F[T] /\ F[T] \in Int /\ f[x] \in Int /\ f[x] <= c
    <3>1. F[U] = f[x] + F[U \ {x}]
      BY <1>1, <2>1 DEF PartialSums
    <3>2. F[T] \in Int
      BY <1>1, <2>1 DEF PartialSums
    <3>3. f[x] \in Int /\ f[x] <= c
      OBVIOUS
    <3> HIDE DEF U
    <3> QED BY <2>1, <3>1, <3>2, <3>3
  <2>3. Cardinality(U) = Cardinality(T) + 1 /\ Cardinality(T) \in Nat
    BY FS_Subset, FS_AddElement, FS_CardinalityType
  <2>4. F[T] <= c * Cardinality(T)
    OBVIOUS
  <2> HIDE DEF U
  <2>5. c * Cardinality(U) = c * Cardinality(T) + c /\ c * Cardinality(T) \in Int
    <3>1. \A n \in Nat : c * (n + 1) = c * n + c /\ c * n \in Int
      OBVIOUS
    <3> QED BY <2>3, <3>1
  <2>6. F[U] <= c * Cardinality(U)
    BY <2>2, <2>4, <2>5
  <2> QED BY <2>1, <2>6 DEF U
<1>4. S \in Q
  <2>1. Q \in SUBSET (SUBSET S)
    OBVIOUS
  <2> HIDE DEF Q
  <2> QED BY <1>2, <1>3, <2>1, FiniteInduction
<1> QED BY <1>1, <1>4 DEF PartialSums, SumFunction

\* A common factor leaves the sum ...
LEMMA SumScale ==
  ASSUME NEW S, IsFiniteSet(S), NEW g \in [S -> Int], NEW d \in Int
  PROVE  SumFunction([s \in S |-> d * g[s]]) = d * SumFunction(g)
<1> DEFINE zero == [s \in S |-> 0]
<1>1. zero \in [S -> Int] /\ \A s \in S : zero[s] = 0
  OBVIOUS
<1>2. [s \in S |-> d * g[s]] = [s \in S |-> zero[s] + d * g[s]]
  <2>1. \A x \in Int : 0 + d * x = d * x
    OBVIOUS
  <2> QED BY <1>1, <2>1
<1> HIDE DEF zero
<1>3. SumFunction(zero) = 0
  BY <1>1, SumZero
<1>4. SumFunction([s \in S |-> zero[s] + d * g[s]]) = SumFunction(zero) + d * SumFunction(g)
  BY <1>1, SumLinear
<1>5. SumFunction(g) \in Int
  BY SumType
<1> QED BY <1>2, <1>3, <1>4, <1>5

\* ... and the sum of the differences is the difference of the sums.
LEMMA SumDifference ==
  ASSUME NEW S, IsFiniteSet(S), NEW f \in [S -> Int], NEW g \in [S -> Int],
         NEW h \in [S -> Int], \A s \in S : h[s] = f[s] - g[s]
  PROVE  SumFunction(h) = SumFunction(f) - SumFunction(g)
<1> DEFINE d == -1
<1>1. d \in Int /\ \A x \in Int, y \in Int : x - y = x + d * y
  OBVIOUS
<1>2. h = [s \in S |-> f[s] + d * g[s]]
  BY <1>1
<1>3. SumFunction(f) \in Int /\ SumFunction(g) \in Int
  BY SumType
<1> HIDE DEF d
<1>4. SumFunction(h) = SumFunction(f) + d * SumFunction(g)
  BY <1>1, <1>2, SumLinear
<1> QED BY <1>1, <1>3, <1>4

\* A total cut into parts of every b, each rounded down to a unit, leaves at least
\* nothing and less than one unit for each part.
LEMMA RoundedParts ==
  ASSUME NEW S, IsFiniteSet(S), S # {}, NEW b \in Nat, b > 0, NEW total \in Nat,
         NEW scaled \in [S -> Nat], SumFunction(scaled) = b * total
  PROVE  /\ SumFunction([s \in S |-> scaled[s] \div b]) \in Nat
         /\ total - SumFunction([s \in S |-> scaled[s] \div b]) \in 0..(Cardinality(S) - 1)
<1> DEFINE part  == [s \in S |-> scaled[s] \div b]
           whole == [s \in S |-> b * part[s]]
           left  == [s \in S |-> scaled[s] - whole[s]]
           n     == Cardinality(S)
           R     == total - SumFunction(part)
<1>1. n \in Nat /\ n > 0
  <2>1. n \in Nat /\ n # 0
    BY FS_CardinalityType, FS_EmptySet
  <2> QED BY <2>1
<1>2. ASSUME NEW s \in S
      PROVE  part[s] \in Nat /\ b * part[s] \in Nat /\ scaled[s] - b * part[s] \in 0..(b - 1)
  <2> DEFINE m == scaled[s]
             q == m \div b
  <2>1. m \in Nat /\ part[s] = q
    OBVIOUS
  <2> HIDE DEF m
  <2>2. q \in Nat /\ q * b <= m /\ m - q * b < b
    BY <2>1, Division, DivisionFloor
  <2> HIDE DEF q, part
  <2>3. q * b = b * q /\ b * q \in Nat
    BY <2>2
  <2>4. m - b * q \in 0..(b - 1)
    BY <2>1, <2>2, <2>3
  <2> QED BY <2>1, <2>2, <2>3, <2>4 DEF m
<1>3. part \in [S -> Nat] /\ part \in [S -> Int]
  <2>1. \A s \in S : part[s] \in Nat
    BY <1>2
  <2> QED BY <2>1
<1>4. whole \in [S -> Int] /\ scaled \in [S -> Int]
  BY <1>2
<1>5. left \in [S -> Nat] /\ left \in [S -> Int] /\ \A s \in S : left[s] <= b - 1
  <2>1. \A s \in S : left[s] \in 0..(b - 1)
    <3>1. \A s \in S : left[s] = scaled[s] - b * part[s]
      OBVIOUS
    <3> HIDE DEF left, part
    <3> QED BY <1>2, <3>1
  <2>2. \A x \in 0..(b - 1) : x \in Nat /\ x \in Int /\ x <= b - 1
    OBVIOUS
  <2>3. \A s \in S : left[s] \in Nat /\ left[s] \in Int /\ left[s] <= b - 1
    <3> HIDE DEF left
    <3> QED BY <2>1, <2>2
  <2> QED BY <2>3
<1>6. SumFunction(left) = SumFunction(scaled) - SumFunction(whole)
  <2>1. \A s \in S : left[s] = scaled[s] - whole[s]
    OBVIOUS
  <2> HIDE DEF left, whole
  <2> QED BY <1>4, <1>5, <2>1, SumDifference
<1>7. SumFunction(whole) = b * SumFunction(part)
  <2> HIDE DEF part
  <2> QED BY <1>3, SumScale
<1> HIDE DEF part, left, whole, n
<1>8. SumFunction(part) \in Nat /\ R \in Int
  BY <1>3, SumNonNegative
<1>9. SumFunction(left) \in Nat /\ SumFunction(left) <= (b - 1) * n
  <2>1. b - 1 \in Nat
    OBVIOUS
  <2> QED BY <1>5, <2>1, SumNonNegative, SumAtMost DEF n
<1>10. SumFunction(left) = b * R
  <2>1. \A x \in Int : b * total - b * x = b * (total - x)
    OBVIOUS
  <2> QED BY <1>6, <1>7, <1>8, <2>1
<1> HIDE DEF R
<1>11. R >= 0
  <2> SUFFICES ASSUME R <= -1 PROVE FALSE
    BY <1>8
  <2>1. b * R <= b * (-1) /\ b * R \in Int
    BY <1>8
  <2> QED BY <1>9, <1>10, <2>1
<1>12. R < n
  <2> SUFFICES ASSUME n <= R PROVE FALSE
    BY <1>1, <1>8
  <2>1. (b - 1) * n = b * n - n /\ b * n \in Int /\ b * n <= b * R /\ b * R \in Int
    BY <1>1, <1>8
  <2> QED BY <1>1, <1>9, <1>10, <2>1
<1>13. R \in 0..(n - 1)
  BY <1>1, <1>8, <1>11, <1>12
<1> QED BY <1>8, <1>13 DEF R, n, part
====
