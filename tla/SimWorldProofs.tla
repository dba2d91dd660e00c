----------------------------- MODULE SimWorldProofs -----------------------------
(***************************************************************************)
(* The checks that the simulator makes after every op never report, for    *)
(* any pools, stakes, routed stakes and releases.  An op is a function of  *)
(* the world, so what it keeps is stated of worlds: nothing here is of two *)
(* states, until the last section.                                         *)
(***************************************************************************)
EXTENDS SimWorld, SumTheorems

Ids == StakeIds \cup RoutedIds

PoolRec ==
  [balance : Nat, staked_shares : Nat, index : Nat, carry : Nat, parked : Nat,
   forfeited : Nat, exits : Nat, ideal : Nat, drift : Int, fold_shares : Nat]

--------------------------------------------------------------------------------
(* One pool object, the shares registered with it and their credits *)

CarryOK(q) == IF q.fold_shares = 0 THEN q.carry = 0 ELSE q.carry < q.fold_shares
ForfeitsOK(q) == IF q.exits = 0 THEN q.forfeited = 0 ELSE q.forfeited < P * q.exits
IndexOK(q) == q.ideal * P - q.drift = q.index * Scale

MeterOK(q, shares, credit) ==
  /\ q \in PoolRec
  /\ shares \in [Ids -> Nat] /\ credit \in [Ids -> Nat]
  /\ q.staked_shares = SumFunction(shares) /\ q.staked_shares <= MaxU64
  /\ q.balance * P = SumFunction(credit) + q.carry + q.forfeited
  /\ CarryOK(q) /\ ForfeitsOK(q) /\ IndexOK(q)

LEMMA IdsFinite == ASSUME ConstantsAssumption PROVE IsFiniteSet(Ids)
BY FS_Union DEF ConstantsAssumption, Ids

\* A multiple divides without remainder, negative ones too.
LEMMA ExactQuotient ==
  ASSUME NEW a \in Int, NEW b \in Nat, b > 0
  PROVE  (a * b) \div b = a
OBVIOUS

Gain(q, v) == Numerator(q, v) \div q.staked_shares

\* The quotient and the remainder of a fold.
LEMMA FoldDivides ==
  ASSUME ConstantsAssumption, NEW q \in PoolRec, NEW v \in Nat, q.staked_shares > 0
  PROVE  /\ Numerator(q, v) \in Nat /\ Gain(q, v) \in Nat /\ CarryAfter(q, v) \in Nat
         /\ CarryAfter(q, v) < q.staked_shares
         /\ v * P + q.carry = Gain(q, v) * q.staked_shares + CarryAfter(q, v)
<1> DEFINE n == Numerator(q, v)
<1>1. q.staked_shares \in Nat /\ q.carry \in Nat /\ P \in Nat
  BY DEF PoolRec, ConstantsAssumption
<1>2. n \in Nat /\ n = v * P + q.carry
  <2>1. v * P \in Nat
    BY <1>1
  <2> QED BY <1>1, <2>1 DEF Numerator
<1> HIDE DEF n
<1>3. /\ n \div q.staked_shares \in Nat /\ n % q.staked_shares \in Nat
      /\ n % q.staked_shares < q.staked_shares
      /\ n = (n \div q.staked_shares) * q.staked_shares + (n % q.staked_shares)
  BY <1>1, <1>2, Division
<1> QED BY <1>2, <1>3 DEF Gain, CarryAfter, n

\* The pool object after a fold, field by field.
Filled(q, i, c, b, e, d, n) ==
  [q EXCEPT !.index = i, !.carry = c, !.balance = b, !.ideal = e, !.drift = d, !.fold_shares = n]

LEMMA FoldedFields ==
  ASSUME ConstantsAssumption, NEW q \in PoolRec, NEW v \in Nat, q.staked_shares > 0,
         q.staked_shares <= MaxU64
  PROVE  /\ Folded(q, v) \in PoolRec
         /\ Folded(q, v).index = q.index + Gain(q, v)
         /\ Folded(q, v).carry = CarryAfter(q, v)
         /\ Folded(q, v).balance = q.balance + v
         /\ Folded(q, v).fold_shares = q.staked_shares
         /\ Folded(q, v).staked_shares = q.staked_shares
         /\ Folded(q, v).parked = q.parked
         /\ Folded(q, v).forfeited = q.forfeited
         /\ Folded(q, v).exits = q.exits
         /\ \E m \in Nat :
              /\ Scale = m * q.staked_shares
              /\ Folded(q, v).ideal = q.ideal + v * m
              /\ Folded(q, v).drift = q.drift + (CarryAfter(q, v) - q.carry) * m
<1> DEFINE n == q.staked_shares
           k == Gain(q, v)
           c == CarryAfter(q, v)
           m == Scale \div n
           x == c - q.carry
           ideal == q.ideal + ((v * Scale) \div n)
           drift == q.drift + ((x * Scale) \div n)
<1>1. /\ n \in Nat /\ n > 0 /\ q.carry \in Nat /\ q.balance \in Nat /\ q.index \in Nat
      /\ q.ideal \in Nat /\ q.drift \in Int
  BY DEF PoolRec
<1>2. k \in Nat /\ c \in Nat
  BY FoldDivides
<1>3. m \in Nat /\ Scale = m * n
  <2>1. n \in 1..MaxU64 /\ Scale \in Nat
    BY <1>1 DEF ConstantsAssumption
  <2>2. Scale % n = 0
    BY <2>1, ScaleDivides DEF ScaleDivides
  <2>3. (Scale \div n) \in Nat /\ Scale = (Scale \div n) * n + (Scale % n)
    BY <1>1, <2>1, Division
  <2>4. (Scale \div n) * n \in Nat
    BY <1>1, <2>3
  <2> QED BY <2>2, <2>3, <2>4
<1> HIDE DEF m
<1>4. (v * Scale) \div n = v * m /\ v * m \in Nat
  <2> HIDE DEF n
  <2>1. v * Scale = (v * m) * n /\ v * m \in Nat
    BY <1>1, <1>3
  <2> QED BY <1>1, <2>1, ExactQuotient
<1>5. (x * Scale) \div n = x * m /\ x * m \in Int
  <2>1. x \in Int
    BY <1>1, <1>2
  <2> HIDE DEF n, x
  <2>2. x * Scale = (x * m) * n /\ x * m \in Int
    BY <1>1, <1>3, <2>1
  <2> QED BY <1>1, <2>2, ExactQuotient
<1>6. ideal \in Nat /\ drift \in Int
  BY <1>1, <1>4, <1>5
<1>7. Folded(q, v) = Filled(q, q.index + k, c, q.balance + v, ideal, drift, n)
  BY DEF Folded, Filled, Gain
<1>8. q.index + k \in Nat /\ q.balance + v \in Nat
  BY <1>1, <1>2
<1>9. ideal = q.ideal + v * m /\ drift = q.drift + x * m
  BY <1>4, <1>5
<1> DEFINE i == q.index + k
           b == q.balance + v
<1>t. i \in Nat /\ b \in Nat /\ n \in Nat /\ c \in Nat
  BY <1>1, <1>2, <1>8
<1> HIDE DEF ideal, drift, x, k, c, n, i, b
<1>10. /\ Filled(q, i, c, b, ideal, drift, n) \in PoolRec
       /\ Filled(q, i, c, b, ideal, drift, n).index = i
       /\ Filled(q, i, c, b, ideal, drift, n).carry = c
       /\ Filled(q, i, c, b, ideal, drift, n).balance = b
       /\ Filled(q, i, c, b, ideal, drift, n).ideal = ideal
       /\ Filled(q, i, c, b, ideal, drift, n).drift = drift
       /\ Filled(q, i, c, b, ideal, drift, n).fold_shares = n
       /\ Filled(q, i, c, b, ideal, drift, n).staked_shares = q.staked_shares
       /\ Filled(q, i, c, b, ideal, drift, n).parked = q.parked
       /\ Filled(q, i, c, b, ideal, drift, n).forfeited = q.forfeited
       /\ Filled(q, i, c, b, ideal, drift, n).exits = q.exits
  BY <1>t, <1>6 DEF PoolRec, Filled
<1>11. Folded(q, v) = Filled(q, i, c, b, ideal, drift, n)
  BY <1>7 DEF i, b
<1> QED BY <1>3, <1>9, <1>10, <1>11 DEF i, b, x, k, c, n

\* A fold credits each share with the index's gain, to the unit.
LEMMA MeterFold ==
  ASSUME ConstantsAssumption, NEW q, NEW shares, NEW credit, MeterOK(q, shares, credit),
         NEW v \in Nat, q.staked_shares > 0
  PROVE  MeterOK(Folded(q, v), shares, [x \in Ids |-> credit[x] + Gain(q, v) * shares[x]])
<1> DEFINE k == Gain(q, v)
           c == CarryAfter(q, v)
           n == q.staked_shares
           w == Folded(q, v)
           credited == [x \in Ids |-> credit[x] + k * shares[x]]
<1>1. /\ q \in PoolRec /\ shares \in [Ids -> Nat] /\ credit \in [Ids -> Nat]
      /\ n = SumFunction(shares) /\ n <= MaxU64
      /\ q.balance * P = SumFunction(credit) + q.carry + q.forfeited
      /\ CarryOK(q) /\ ForfeitsOK(q) /\ IndexOK(q)
  BY DEF MeterOK
<1>2. /\ k \in Nat /\ c \in Nat /\ c < n /\ v * P + q.carry = k * n + c
  BY <1>1, FoldDivides
<1>3. /\ w \in PoolRec /\ w.index = q.index + k /\ w.carry = c /\ w.balance = q.balance + v
      /\ w.fold_shares = n /\ w.staked_shares = n /\ w.forfeited = q.forfeited
      /\ w.exits = q.exits
  BY <1>1, FoldedFields, ZenonT(30)
<1>4. PICK m \in Nat : /\ Scale = m * n
                       /\ w.ideal = q.ideal + v * m
                       /\ w.drift = q.drift + (c - q.carry) * m
  BY <1>1, FoldedFields
<1>5. /\ n \in Nat /\ q.carry \in Nat /\ q.balance \in Nat /\ q.index \in Nat
      /\ q.ideal \in Nat /\ q.drift \in Int /\ q.forfeited \in Nat /\ P \in Nat
  BY <1>1 DEF PoolRec, ConstantsAssumption
<1> HIDE DEF k, c, n, w
<1>6. credited \in [Ids -> Nat] /\ SumFunction(credited) = SumFunction(credit) + k * n
  <2>1. IsFiniteSet(Ids) /\ shares \in [Ids -> Int] /\ credit \in [Ids -> Int]
    BY <1>1, IdsFinite
  <2>2. SumFunction(credited) = SumFunction(credit) + k * SumFunction(shares)
    BY <1>2, <2>1, SumLinear
  <2>3. \A x \in Ids : k * shares[x] \in Nat
    BY <1>1, <1>2
  <2> QED BY <1>1, <2>2, <2>3
<1> HIDE DEF credited
<1>7. w.balance * P = SumFunction(credited) + w.carry + w.forfeited
  <2>1. SumFunction(credit) \in Int
    BY <1>1, IdsFinite, SumType
  <2>2. (q.balance + v) * P = q.balance * P + v * P /\ v * P \in Int /\ k * n \in Int
        /\ q.balance * P \in Int
    BY <1>2, <1>5
  <2>3. w.balance * P = (q.balance + v) * P
    BY <1>3
  <2>4. /\ w.carry = c /\ w.forfeited = q.forfeited
        /\ q.balance * P = SumFunction(credit) + q.carry + q.forfeited
    BY <1>1, <1>3
  <2>5. /\ v * P + q.carry = k * n + c /\ c \in Nat /\ q.carry \in Nat /\ q.forfeited \in Nat
        /\ SumFunction(credited) = SumFunction(credit) + k * n
    BY <1>2, <1>5, <1>6
  <2> QED BY <2>1, <2>2, <2>3, <2>4, <2>5
<1>8. CarryOK(w) /\ ForfeitsOK(w)
  BY <1>1, <1>2, <1>3 DEF CarryOK, ForfeitsOK
<1>9. IndexOK(w)
  <2>1. q.ideal * P - q.drift = q.index * Scale
    BY <1>1 DEF IndexOK
  <2>2. (q.ideal + v * m) * P = q.ideal * P + (v * P) * m
    BY <1>5
  <2>3. (v * P) * m = (k * n + c - q.carry) * m
    <3>1. v * P = k * n + c - q.carry
      <4>1. v * P \in Int /\ k * n \in Int
        BY <1>2, <1>5
      <4> QED BY <1>2, <1>5, <4>1
    <3> QED BY <3>1
  <2>4. (k * n + c - q.carry) * m = k * (m * n) + (c - q.carry) * m
    BY <1>2, <1>5
  <2>5. (q.index + k) * Scale = q.index * Scale + k * Scale
    <3>1. Scale \in Int
      BY DEF ConstantsAssumption
    <3> QED BY <1>2, <1>5, <3>1
  <2>6. /\ q.ideal * P \in Int /\ (v * P) * m \in Int /\ (c - q.carry) * m \in Int
        /\ q.index * Scale \in Int /\ k * Scale \in Int
    <3>1. Scale \in Int
      BY DEF ConstantsAssumption
    <3> QED BY <1>2, <1>5, <3>1
  <2>7. (v * P) * m = k * Scale + (c - q.carry) * m
    BY <1>4, <2>3, <2>4
  <2>8. w.ideal * P = q.ideal * P + (v * P) * m
    BY <1>4, <2>2
  <2>9. w.index * Scale = q.index * Scale + k * Scale
    BY <1>3, <2>5
  <2>10. w.drift = q.drift + (c - q.carry) * m /\ q.drift \in Int
    BY <1>4, <1>5
  <2> QED BY <2>1, <2>6, <2>7, <2>8, <2>9, <2>10 DEF IndexOK
<1> QED BY <1>1, <1>3, <1>6, <1>7, <1>8, <1>9 DEF MeterOK, credited, k, w

\* A stake joins with an empty account.
LEMMA MeterJoin ==
  ASSUME ConstantsAssumption, NEW q, NEW shares, NEW credit, MeterOK(q, shares, credit),
         NEW x \in Ids, NEW n \in Nat, shares[x] = 0, credit[x] = 0,
         q.staked_shares + n <= MaxU64
  PROVE  MeterOK([q EXCEPT !.staked_shares = @ + n], [shares EXCEPT ![x] = n], credit)
<1> DEFINE m == q.staked_shares + n
           w == [q EXCEPT !.staked_shares = m]
           h == [shares EXCEPT ![x] = n]
<1>1. /\ q \in PoolRec /\ shares \in [Ids -> Nat] /\ credit \in [Ids -> Nat]
      /\ q.staked_shares = SumFunction(shares)
      /\ q.balance * P = SumFunction(credit) + q.carry + q.forfeited
      /\ CarryOK(q) /\ ForfeitsOK(q) /\ IndexOK(q)
  BY DEF MeterOK
<1>2. m \in Nat
  BY <1>1 DEF PoolRec
<1> HIDE DEF m
<1>3. /\ w \in PoolRec /\ w.staked_shares = m /\ w.balance = q.balance /\ w.index = q.index
      /\ w.carry = q.carry /\ w.forfeited = q.forfeited /\ w.exits = q.exits
      /\ w.ideal = q.ideal /\ w.drift = q.drift /\ w.fold_shares = q.fold_shares
  BY <1>1, <1>2 DEF PoolRec
<1> HIDE DEF w
<1>4. h \in [Ids -> Nat] /\ h[x] = n /\ \A y \in Ids : y # x => h[y] = shares[y]
  BY <1>1
<1> HIDE DEF h
<1>5. SumFunction(h) = m
  <2>1. IsFiniteSet(Ids) /\ shares \in [Ids -> Int] /\ h \in [Ids -> Int]
    BY <1>1, <1>4, IdsFinite
  <2>2. SumFunction(h) = SumFunction(shares) - shares[x] + h[x] /\ SumFunction(shares) \in Int
    BY <1>4, <2>1, SumUpdate, SumType
  <2> QED BY <1>1, <1>4, <2>2 DEF m
<1>6. CarryOK(w) /\ ForfeitsOK(w) /\ IndexOK(w)
  BY <1>1, <1>3 DEF CarryOK, ForfeitsOK, IndexOK
<1>7. MeterOK(w, h, credit)
  BY <1>1, <1>3, <1>4, <1>5, <1>6 DEF MeterOK, m
<1> QED BY <1>7 DEF w, h, m

\* A stake leaves and forfeits an account of less than one unit.
LEMMA MeterLeave ==
  ASSUME ConstantsAssumption, NEW q, NEW shares, NEW credit, MeterOK(q, shares, credit),
         NEW x \in Ids, credit[x] < P
  PROVE  MeterOK([q EXCEPT !.forfeited = @ + credit[x], !.exits = @ + 1,
                           !.staked_shares = @ - shares[x]],
                 [shares EXCEPT ![x] = 0], [credit EXCEPT ![x] = 0])
<1> DEFINE f == q.forfeited + credit[x]
           e == q.exits + 1
           m == q.staked_shares - shares[x]
           w == [q EXCEPT !.forfeited = f, !.exits = e, !.staked_shares = m]
           h == [shares EXCEPT ![x] = 0]
           g == [credit EXCEPT ![x] = 0]
<1>1. /\ q \in PoolRec /\ shares \in [Ids -> Nat] /\ credit \in [Ids -> Nat]
      /\ q.staked_shares = SumFunction(shares) /\ q.staked_shares <= MaxU64
      /\ q.balance * P = SumFunction(credit) + q.carry + q.forfeited
      /\ CarryOK(q) /\ ForfeitsOK(q) /\ IndexOK(q)
  BY DEF MeterOK
<1>2. /\ IsFiniteSet(Ids) /\ shares \in [Ids -> Int] /\ credit \in [Ids -> Int]
      /\ shares[x] \in Nat /\ credit[x] \in Nat
      /\ q.forfeited \in Nat /\ q.exits \in Nat /\ q.staked_shares \in Nat /\ q.carry \in Nat
  BY <1>1, IdsFinite DEF PoolRec
<1>3. shares[x] <= q.staked_shares
  BY <1>1, <1>2, SumNonNegative
<1>4. f \in Nat /\ e \in Nat /\ m \in Nat /\ m <= MaxU64
  BY <1>1, <1>2, <1>3 DEF ConstantsAssumption
<1> HIDE DEF f, e, m
<1>5. /\ w \in PoolRec /\ w.staked_shares = m /\ w.balance = q.balance /\ w.index = q.index
      /\ w.carry = q.carry /\ w.forfeited = f /\ w.exits = e
      /\ w.ideal = q.ideal /\ w.drift = q.drift /\ w.fold_shares = q.fold_shares
  BY <1>1, <1>4 DEF PoolRec
<1> HIDE DEF w
<1>6. /\ h \in [Ids -> Nat] /\ h[x] = 0 /\ \A y \in Ids : y # x => h[y] = shares[y]
      /\ g \in [Ids -> Nat] /\ g[x] = 0 /\ \A y \in Ids : y # x => g[y] = credit[y]
  BY <1>1
<1> HIDE DEF h, g
<1>7. SumFunction(h) = m
  <2>1. h \in [Ids -> Int]
    BY <1>6
  <2>2. SumFunction(h) = SumFunction(shares) - shares[x] + h[x] /\ SumFunction(shares) \in Int
    BY <1>2, <1>6, <2>1, SumUpdate, SumType
  <2> QED BY <1>1, <1>2, <1>6, <2>2 DEF m
<1>8. SumFunction(g) + f = SumFunction(credit) + q.forfeited /\ SumFunction(g) \in Int
  <2>1. g \in [Ids -> Int]
    BY <1>6
  <2>2. /\ SumFunction(g) = SumFunction(credit) - credit[x] + g[x] /\ SumFunction(credit) \in Int
        /\ SumFunction(g) \in Int
    BY <1>2, <1>6, <2>1, SumUpdate, SumType
  <2> QED BY <1>2, <1>6, <2>2 DEF f
<1>9. w.balance * P = SumFunction(g) + w.carry + w.forfeited
  <2>1. SumFunction(credit) \in Int
    BY <1>2, SumType
  <2>2. w.balance * P = SumFunction(credit) + q.carry + q.forfeited
    BY <1>1, <1>5
  <2> QED BY <1>2, <1>4, <1>5, <1>8, <2>1, <2>2
<1>10. ForfeitsOK(w)
  <2>1. P \in Nat
    BY DEF ConstantsAssumption
  <2>2. f < P * e
    <3>1. P * e = P * q.exits + P /\ P * q.exits \in Nat
      BY <1>2, <2>1 DEF e
    <3>2. q.forfeited <= P * q.exits
      BY <1>1, <1>2, <3>1 DEF ForfeitsOK
    <3> QED BY <1>2, <2>1, <3>1, <3>2 DEF f
  <2> QED BY <1>2, <1>5, <2>2 DEF ForfeitsOK, e
<1>11. CarryOK(w) /\ IndexOK(w)
  BY <1>1, <1>5 DEF CarryOK, IndexOK
<1>12. MeterOK(w, h, g)
  BY <1>4, <1>5, <1>6, <1>7, <1>9, <1>10, <1>11 DEF MeterOK
<1> QED BY <1>12 DEF w, h, g, f, e, m

\* A claim takes whole units from the account and the balance alike.
LEMMA MeterPaid ==
  ASSUME ConstantsAssumption, NEW q, NEW shares, NEW credit, MeterOK(q, shares, credit),
         NEW x \in Ids, NEW v \in Nat, v * P <= credit[x], v <= q.balance
  PROVE  MeterOK([q EXCEPT !.balance = @ - v], shares, [credit EXCEPT ![x] = @ - v * P])
<1> DEFINE b == q.balance - v
           u == v * P
           c == credit[x] - u
           w == [q EXCEPT !.balance = b]
           g == [credit EXCEPT ![x] = c]
<1>1. /\ q \in PoolRec /\ shares \in [Ids -> Nat] /\ credit \in [Ids -> Nat]
      /\ q.staked_shares = SumFunction(shares) /\ q.staked_shares <= MaxU64
      /\ q.balance * P = SumFunction(credit) + q.carry + q.forfeited
      /\ CarryOK(q) /\ ForfeitsOK(q) /\ IndexOK(q)
  BY DEF MeterOK
<1>2. /\ IsFiniteSet(Ids) /\ credit \in [Ids -> Int] /\ credit[x] \in Nat /\ P \in Nat
      /\ q.balance \in Nat /\ q.carry \in Nat /\ q.forfeited \in Nat
  BY <1>1, IdsFinite DEF PoolRec, ConstantsAssumption
<1>3. u \in Nat
  BY <1>2
<1>4. b * P = q.balance * P - u /\ q.balance * P \in Nat
  BY <1>2
<1> HIDE DEF u
<1>5. b \in Nat /\ c \in Nat
  BY <1>2, <1>3 DEF u
<1> HIDE DEF b
<1>6. /\ w \in PoolRec /\ w.staked_shares = q.staked_shares /\ w.balance = b
      /\ w.index = q.index /\ w.carry = q.carry /\ w.forfeited = q.forfeited
      /\ w.exits = q.exits /\ w.ideal = q.ideal /\ w.drift = q.drift
      /\ w.fold_shares = q.fold_shares
  BY <1>1, <1>5 DEF PoolRec
<1> HIDE DEF w
<1>7. g \in [Ids -> Nat] /\ g[x] = c /\ \A y \in Ids : y # x => g[y] = credit[y]
  BY <1>1, <1>5
<1> HIDE DEF g
<1>8. SumFunction(g) = SumFunction(credit) - u /\ SumFunction(credit) \in Int
  <2>1. g \in [Ids -> Int]
    BY <1>7
  <2>2. SumFunction(g) = SumFunction(credit) - credit[x] + g[x] /\ SumFunction(credit) \in Int
    BY <1>2, <1>7, <2>1, SumUpdate, SumType
  <2> QED BY <1>2, <1>3, <1>7, <2>2
<1>9. w.balance * P = SumFunction(g) + w.carry + w.forfeited
  <2>1. w.balance * P = q.balance * P - u
    BY <1>4, <1>6
  <2> QED BY <1>1, <1>2, <1>3, <1>6, <1>8, <2>1
<1>10. CarryOK(w) /\ ForfeitsOK(w) /\ IndexOK(w)
  BY <1>1, <1>6 DEF CarryOK, ForfeitsOK, IndexOK
<1>11. MeterOK(w, shares, g)
  BY <1>1, <1>6, <1>7, <1>9, <1>10 DEF MeterOK
<1> QED BY <1>11 DEF w, g, b, c, u

\* What waits at the address is none of the meter's business.
LEMMA MeterParked ==
  ASSUME NEW q, NEW shares, NEW credit, MeterOK(q, shares, credit), NEW v \in Nat
  PROVE  MeterOK([q EXCEPT !.parked = v], shares, credit)
<1> DEFINE w == [q EXCEPT !.parked = v]
<1>1. q \in PoolRec
  BY DEF MeterOK
<1>2. /\ w \in PoolRec /\ w.staked_shares = q.staked_shares /\ w.balance = q.balance
      /\ w.index = q.index /\ w.carry = q.carry /\ w.forfeited = q.forfeited
      /\ w.exits = q.exits /\ w.ideal = q.ideal /\ w.drift = q.drift
      /\ w.fold_shares = q.fold_shares
  BY <1>1 DEF PoolRec
<1> HIDE DEF w
<1>3. CarryOK(w) /\ ForfeitsOK(w) /\ IndexOK(w)
  BY <1>2 DEF MeterOK, CarryOK, ForfeitsOK, IndexOK
<1>4. MeterOK(w, shares, credit)
  BY <1>2, <1>3 DEF MeterOK
<1> QED BY <1>4 DEF w

--------------------------------------------------------------------------------
(* Worlds, and one pool's view of a world *)

Entry == [pool : PoolIds, debt : Nat, index : Nat, paid : Nat]
Currencies == {CurrencyOf[p] : p \in PoolIds}
Entries == UNION {[C -> Entry] : C \in SUBSET Currencies}
StakeRec == [amount : Nat, registrations : Entries]
StakeMaps == UNION {[D -> StakeRec] : D \in SUBSET Ids}
RouteMaps == UNION {[D -> [parent : Parents, pool : PoolIds]] : D \in SUBSET RoutedIds}
Tracklists == {splits \in Splits : Total(splits) = BPS}
ReleaseRec == [splits : Tracklists, balance : Nat]
ReleaseMaps == UNION {[D -> ReleaseRec] : D \in SUBSET ReleaseIds}

Worlds == [pools : [PoolIds -> PoolRec], stakes : StakeMaps, routed : RouteMaps,
           releases : ReleaseMaps]

In(w, x, p) == Exists(w, x) /\ RegisteredIn(w, x, p)
SharesIn(w, p) == [x \in Ids |-> IF In(w, x, p) THEN w.stakes[x].amount ELSE 0]
CreditsIn(w, p) == [x \in Ids |-> IF In(w, x, p) THEN Owed(w, x, p) ELSE 0]

\* A debt is the index at registration and the units paid since.
Lifetime(w, x, p) ==
  /\ Registration(w, x, p).index <= w.pools[p].index
  /\ Registration(w, x, p).debt
       = w.stakes[x].amount * Registration(w, x, p).index + Registration(w, x, p).paid * P

ViewOK(w, p) ==
  /\ MeterOK(w.pools[p], SharesIn(w, p), CreditsIn(w, p))
  /\ \A x \in Ids : In(w, x, p) => Lifetime(w, x, p)

\* The stake found under a routed stake's id is its own.
StakesKnown(w) == DOMAIN w.stakes \subseteq StakeIds \cup DOMAIN w.routed

WorldOK(w) ==
  /\ w \in Worlds
  /\ \A p \in PoolIds : ViewOK(w, p)
  /\ StakesKnown(w)

LEMMA StakeTyped ==
  ASSUME NEW w \in Worlds, NEW x, Exists(w, x)
  PROVE  /\ x \in Ids /\ w.stakes[x] \in StakeRec /\ w.stakes[x].amount \in Nat
         /\ w.stakes[x].registrations \in Entries
<1>1. PICK D \in SUBSET Ids : w.stakes \in [D -> StakeRec]
  BY DEF Worlds, StakeMaps
<1> QED BY <1>1 DEF Exists, StakeRec

LEMMA EntryTyped ==
  ASSUME NEW w \in Worlds, NEW x, Exists(w, x), NEW p \in PoolIds, HasRegistration(w, x, p)
  PROVE  /\ Registration(w, x, p) \in Entry /\ Registration(w, x, p).debt \in Nat
         /\ Registration(w, x, p).index \in Nat /\ Registration(w, x, p).paid \in Nat
<1>1. w.stakes[x].registrations \in Entries
  BY StakeTyped
<1>2. PICK C \in SUBSET Currencies : w.stakes[x].registrations \in [C -> Entry]
  BY <1>1 DEF Entries
<1> QED BY <1>2 DEF HasRegistration, Registration, Entry

LEMMA PoolTyped ==
  ASSUME NEW w \in Worlds, NEW p \in PoolIds
  PROVE  /\ w.pools[p] \in PoolRec /\ w.pools[p].index \in Nat /\ w.pools[p].balance \in Nat
         /\ w.pools[p].parked \in Nat /\ w.pools[p].staked_shares \in Nat
BY DEF Worlds, PoolRec

\* Where neither the pool nor a registration with it moved, the view did not.
LEMMA SameView ==
  ASSUME NEW w, NEW r, NEW p \in PoolIds, ViewOK(w, p), r.pools[p] = w.pools[p],
         \A x \in Ids : In(r, x, p) <=> In(w, x, p),
         \A x \in Ids : In(w, x, p) =>
            /\ r.stakes[x].amount = w.stakes[x].amount
            /\ Registration(r, x, p) = Registration(w, x, p)
  PROVE  ViewOK(r, p)
<1>1. SharesIn(r, p) = SharesIn(w, p)
  BY DEF SharesIn
<1>2. CreditsIn(r, p) = CreditsIn(w, p)
  <2>1. \A x \in Ids : In(w, x, p) => Owed(r, x, p) = Owed(w, x, p)
    BY DEF Owed
  <2> QED BY <2>1 DEF CreditsIn
<1>3. \A x \in Ids : In(r, x, p) => Lifetime(r, x, p)
  BY DEF ViewOK, Lifetime
<1> QED BY <1>1, <1>2, <1>3 DEF ViewOK

--------------------------------------------------------------------------------
(* The currency of a world *)

PoolMoney(w) == [p \in PoolIds |-> w.pools[p].balance + w.pools[p].parked]
ReleaseMoney(w) ==
  [r \in ReleaseIds |-> IF r \in DOMAIN w.releases THEN w.releases[r].balance ELSE 0]
Money(w) == SumFunction(PoolMoney(w)) + SumFunction(ReleaseMoney(w))

LEMMA MoneyTyped ==
  ASSUME ConstantsAssumption, NEW w \in Worlds
  PROVE  /\ PoolMoney(w) \in [PoolIds -> Int] /\ ReleaseMoney(w) \in [ReleaseIds -> Int]
         /\ IsFiniteSet(PoolIds) /\ IsFiniteSet(ReleaseIds)
         /\ SumFunction(PoolMoney(w)) \in Int /\ SumFunction(ReleaseMoney(w)) \in Int
         /\ Money(w) \in Int
<1>1. IsFiniteSet(PoolIds) /\ IsFiniteSet(ReleaseIds)
  BY DEF ConstantsAssumption
<1>2. PoolMoney(w) \in [PoolIds -> Int]
  <2>1. \A p \in PoolIds : w.pools[p].balance + w.pools[p].parked \in Int
    BY PoolTyped
  <2> QED BY <2>1 DEF PoolMoney
<1>3. ReleaseMoney(w) \in [ReleaseIds -> Int]
  <2>1. PICK D \in SUBSET ReleaseIds : w.releases \in [D -> ReleaseRec]
    BY DEF Worlds, ReleaseMaps
  <2>2. \A r \in D : w.releases[r].balance \in Int
    BY <2>1 DEF ReleaseRec
  <2> QED BY <2>1, <2>2 DEF ReleaseMoney
<1>4. SumFunction(PoolMoney(w)) \in Int /\ SumFunction(ReleaseMoney(w)) \in Int
  BY <1>1, <1>2, <1>3, SumType
<1> QED BY <1>1, <1>2, <1>3, <1>4 DEF Money

LEMMA MoneyAtPool ==
  ASSUME ConstantsAssumption, NEW w \in Worlds, NEW r \in Worlds, NEW p \in PoolIds, NEW d \in Int,
         \A o \in PoolIds : o # p => r.pools[o] = w.pools[o], r.releases = w.releases,
         r.pools[p].balance + r.pools[p].parked = w.pools[p].balance + w.pools[p].parked + d
  PROVE  Money(r) = Money(w) + d
<1>1. /\ PoolMoney(w) \in [PoolIds -> Int] /\ PoolMoney(r) \in [PoolIds -> Int]
      /\ IsFiniteSet(PoolIds) /\ SumFunction(PoolMoney(w)) \in Int
      /\ SumFunction(ReleaseMoney(w)) \in Int
  BY MoneyTyped
<1>2. \A o \in PoolIds : o # p => PoolMoney(r)[o] = PoolMoney(w)[o]
  BY DEF PoolMoney
<1>3. PoolMoney(r)[p] = PoolMoney(w)[p] + d /\ PoolMoney(w)[p] \in Int
  BY <1>1 DEF PoolMoney
<1>4. SumFunction(PoolMoney(r)) = SumFunction(PoolMoney(w)) - PoolMoney(w)[p] + PoolMoney(r)[p]
  BY <1>1, <1>2, SumUpdate
<1>5. ReleaseMoney(r) = ReleaseMoney(w)
  BY DEF ReleaseMoney
<1> QED BY <1>1, <1>3, <1>4, <1>5 DEF Money

LEMMA MoneyUnmoved ==
  ASSUME NEW w, NEW r, r.pools = w.pools, r.releases = w.releases
  PROVE  Money(r) = Money(w)
BY DEF Money, PoolMoney, ReleaseMoney

--------------------------------------------------------------------------------
(* pool.rs, one method at a time *)

SetPool(w, p, q) == [w EXCEPT !.pools[p] = q]

LEMMA SetPoolFields ==
  ASSUME NEW w \in Worlds, NEW p \in PoolIds, NEW q \in PoolRec
  PROVE  /\ SetPool(w, p, q) \in Worlds /\ SetPool(w, p, q).pools[p] = q
         /\ \A o \in PoolIds : o # p => SetPool(w, p, q).pools[o] = w.pools[o]
         /\ SetPool(w, p, q).stakes = w.stakes /\ SetPool(w, p, q).routed = w.routed
         /\ SetPool(w, p, q).releases = w.releases
BY DEF Worlds, SetPool

\* Only the object of one pool changes, and its index does not fall.
LEMMA PoolSet ==
  ASSUME NEW w, WorldOK(w), NEW p \in PoolIds, NEW q \in PoolRec,
         NEW k \in Nat, q.index = w.pools[p].index + k,
         MeterOK(q, SharesIn(w, p), [x \in Ids |-> CreditsIn(w, p)[x] + k * SharesIn(w, p)[x]])
  PROVE  WorldOK(SetPool(w, p, q))
<1> DEFINE r == SetPool(w, p, q)
<1>1. w \in Worlds /\ (\A o \in PoolIds : ViewOK(w, o)) /\ StakesKnown(w)
  BY DEF WorldOK
<1>2. /\ r \in Worlds /\ r.pools[p] = q
      /\ \A o \in PoolIds : o # p => r.pools[o] = w.pools[o]
      /\ r.stakes = w.stakes /\ r.routed = w.routed
  BY <1>1, SetPoolFields
<1> HIDE DEF r
<1>3. \A x \in Ids, o \in PoolIds : /\ In(r, x, o) <=> In(w, x, o)
                                   /\ Registration(r, x, o) = Registration(w, x, o)
  BY <1>2 DEF In, Exists, RegisteredIn, HasRegistration, Registration
<1>4. \A o \in PoolIds : o # p => ViewOK(r, o)
  BY <1>1, <1>2, <1>3, SameView
<1>5. ViewOK(r, p)
  <2>1. SharesIn(r, p) = SharesIn(w, p)
    BY <1>2, <1>3 DEF SharesIn
  <2>2. ASSUME NEW x \in Ids, In(w, x, p)
        PROVE  /\ Owed(r, x, p) = Owed(w, x, p) + k * w.stakes[x].amount
               /\ Lifetime(r, x, p)
    <3> DEFINE n == w.stakes[x].amount
               g == Registration(w, x, p)
               i == w.pools[p].index
    <3>1. n \in Nat /\ g.debt \in Nat /\ g.index \in Nat /\ i \in Nat
      BY <1>1, <2>2, StakeTyped, EntryTyped, PoolTyped DEF In, RegisteredIn
    <3>2. Owed(r, x, p) = n * (i + k) - g.debt /\ Owed(w, x, p) = n * i - g.debt
      BY <1>2, <1>3 DEF Owed
    <3>3. Lifetime(w, x, p)
      BY <1>1, <2>2 DEF ViewOK
    <3>4. Lifetime(r, x, p)
      BY <1>2, <1>3, <3>1, <3>3 DEF Lifetime
    <3> HIDE DEF n, g, i
    <3>5. n * (i + k) = n * i + k * n /\ n * i \in Int /\ k * n \in Int
      BY <3>1
    <3>6. Owed(r, x, p) = Owed(w, x, p) + k * n
      BY <3>1, <3>2, <3>5
    <3> QED BY <3>4, <3>6 DEF n
  <2>3. CreditsIn(r, p) = [x \in Ids |-> CreditsIn(w, p)[x] + k * SharesIn(w, p)[x]]
    <3>1. ASSUME NEW x \in Ids
          PROVE  CreditsIn(r, p)[x] = CreditsIn(w, p)[x] + k * SharesIn(w, p)[x]
      <4>1. CASE In(w, x, p)
        BY <1>3, <2>2, <4>1 DEF CreditsIn, SharesIn
      <4>2. CASE ~In(w, x, p)
        BY <1>3, <4>2 DEF CreditsIn, SharesIn
      <4> QED BY <4>1, <4>2
    <3> QED BY <3>1 DEF CreditsIn
  <2> QED BY <1>2, <1>3, <2>1, <2>2, <2>3 DEF ViewOK
<1>6. StakesKnown(r)
  BY <1>1, <1>2 DEF StakesKnown
<1> QED BY <1>2, <1>4, <1>5, <1>6 DEF WorldOK, r

\* A result is failed, and discarded, or keeps the checks and moves d units of currency.
Good(w, result, d) ==
  ~result.failed => WorldOK(result.world) /\ Money(result.world) = Money(w) + d

LEMMA FailedGood ==
  ASSUME NEW w, NEW v, NEW d, NEW where, NEW code
  PROVE  /\ Failed(v, where, code).failed /\ Good(w, Failed(v, where, code), d)
         /\ Overflow(v).failed /\ Good(w, Overflow(v), d)
         /\ Malformed(v).failed /\ Good(w, Malformed(v), d)
BY DEF Failed, Overflow, Malformed, Good

LEMMA ReturnsGood ==
  ASSUME NEW w, NEW r, NEW value, NEW d, WorldOK(r), Money(r) = Money(w) + d
  PROVE  Good(w, Returns(r, value), d) /\ Good(w, Done(r), d)
BY DEF Good, Returns, Done

LEMMA PoolMeter ==
  ASSUME NEW w, WorldOK(w), NEW p \in PoolIds
  PROVE  /\ MeterOK(w.pools[p], SharesIn(w, p), CreditsIn(w, p))
         /\ w \in Worlds /\ w.pools[p] \in PoolRec
         /\ SharesIn(w, p) \in [Ids -> Nat] /\ CreditsIn(w, p) \in [Ids -> Nat]
BY DEF WorldOK, ViewOK, MeterOK

LEMMA DepositKeeps ==
  ASSUME ConstantsAssumption, NEW w, WorldOK(w), NEW p \in PoolIds, NEW v \in Nat
  PROVE  Good(w, Deposit(w, p, v), v)
<1> DEFINE q == w.pools[p]
           f == Folded(q, v)
<1>1. CASE q.staked_shares = 0 \/ v = 0 \/ q.balance + v > MaxU64
  BY <1>1, FailedGood DEF Deposit
<1>2. CASE q.staked_shares # 0 /\ v # 0 /\ ~(q.balance + v > MaxU64)
  <2>1. /\ MeterOK(q, SharesIn(w, p), CreditsIn(w, p)) /\ w \in Worlds /\ q \in PoolRec
        /\ q.staked_shares > 0 /\ q.staked_shares <= MaxU64
        /\ q.balance \in Nat /\ q.parked \in Nat
    BY <1>2, PoolMeter DEF MeterOK, PoolRec
  <2>2. Gain(q, v) \in Nat
    BY <2>1, FoldDivides
  <2>3. /\ f \in PoolRec /\ f.index = q.index + Gain(q, v)
        /\ f.balance = q.balance + v /\ f.parked = q.parked
    BY <2>1, FoldedFields
  <2>4. MeterOK(f, SharesIn(w, p),
                [x \in Ids |-> CreditsIn(w, p)[x] + Gain(q, v) * SharesIn(w, p)[x]])
    BY <2>1, MeterFold
  <2>5. Deposit(w, p, v) = Done(SetPool(w, p, f))
    BY <1>2 DEF Deposit, SetPool
  <2> HIDE DEF f, q
  <2>6. WorldOK(SetPool(w, p, f))
    BY <2>2, <2>3, <2>4, PoolSet DEF q
  <2>7. /\ SetPool(w, p, f) \in Worlds /\ SetPool(w, p, f).pools[p] = f
        /\ \A o \in PoolIds : o # p => SetPool(w, p, f).pools[o] = w.pools[o]
        /\ SetPool(w, p, f).releases = w.releases
    BY <2>1, <2>3, SetPoolFields
  <2>8. f.balance + f.parked = w.pools[p].balance + w.pools[p].parked + v
    BY <2>1, <2>3 DEF q
  <2>9. Money(SetPool(w, p, f)) = Money(w) + v
    BY <2>1, <2>7, <2>8, MoneyAtPool
  <2> QED BY <2>5, <2>6, <2>9, ReturnsGood
<1> QED BY <1>1, <1>2

\* What waits at the address may be set without touching the books.
LEMMA ParkedKeeps ==
  ASSUME ConstantsAssumption, NEW w, WorldOK(w), NEW p \in PoolIds, NEW v \in Nat
  PROVE  /\ WorldOK([w EXCEPT !.pools[p].parked = v])
         /\ Money([w EXCEPT !.pools[p].parked = v]) = Money(w) + (v - w.pools[p].parked)
<1> DEFINE q == w.pools[p]
           f == [q EXCEPT !.parked = v]
           r == SetPool(w, p, f)
<1>1. /\ MeterOK(q, SharesIn(w, p), CreditsIn(w, p)) /\ w \in Worlds /\ q \in PoolRec
      /\ CreditsIn(w, p) \in [Ids -> Nat] /\ SharesIn(w, p) \in [Ids -> Nat]
  BY PoolMeter
<1>2. [w EXCEPT !.pools[p].parked = v] = r
  BY DEF SetPool
<1>3. /\ f \in PoolRec /\ f.index = q.index + 0 /\ f.balance = q.balance /\ f.parked = v
      /\ q.balance \in Nat /\ q.parked \in Nat
  BY <1>1 DEF PoolRec
<1>4. MeterOK(f, SharesIn(w, p), CreditsIn(w, p))
  BY <1>1, MeterParked
<1>5. CreditsIn(w, p) = [x \in Ids |-> CreditsIn(w, p)[x] + 0 * SharesIn(w, p)[x]]
  BY <1>1
<1> HIDE DEF f, q
<1>6. WorldOK(r)
  BY <1>3, <1>4, <1>5, PoolSet DEF q
<1>7. /\ r \in Worlds /\ r.pools[p] = f /\ r.releases = w.releases
      /\ \A o \in PoolIds : o # p => r.pools[o] = w.pools[o]
  BY <1>1, <1>3, SetPoolFields
<1> HIDE DEF r
<1>8. r.pools[p].balance + r.pools[p].parked
        = w.pools[p].balance + w.pools[p].parked + (v - w.pools[p].parked)
  BY <1>3, <1>7 DEF q
<1>9. v - w.pools[p].parked \in Int
  BY <1>3 DEF q
<1>10. Money(r) = Money(w) + (v - w.pools[p].parked)
  BY <1>1, <1>7, <1>8, <1>9, MoneyAtPool
<1> QED BY <1>2, <1>6, <1>10

LEMMA SettleKeeps ==
  ASSUME ConstantsAssumption, NEW w, WorldOK(w), NEW p \in PoolIds
  PROVE  Good(w, Settle(w, p), 0)
<1> DEFINE v == w.pools[p].parked
           r == [w EXCEPT !.pools[p].parked = 0]
           deposit == Deposit(r, p, v)
<1>1. w \in Worlds /\ v \in Nat /\ Money(w) \in Int
  BY PoolMeter, MoneyTyped DEF PoolRec
<1>2. WorldOK(r) /\ Money(r) = Money(w) + (0 - v)
  BY ParkedKeeps
<1>3. Good(r, deposit, v)
  BY <1>1, <1>2, DepositKeeps
<1>4. CASE w.pools[p].staked_shares = 0 \/ v = 0
  <2>1. Settle(w, p) = Returns(w, 0)
    BY <1>4 DEF Settle
  <2>2. Money(w) = Money(w) + 0
    BY <1>1
  <2> QED BY <2>1, <2>2, ReturnsGood
<1>5. CASE ~(w.pools[p].staked_shares = 0 \/ v = 0)
  <2>1. Settle(w, p) = IF deposit.failed THEN deposit ELSE Returns(deposit.world, v)
    BY <1>5 DEF Settle, AndThen
  <2> HIDE DEF deposit, r, v
  <2>2. CASE deposit.failed
    BY <2>1, <2>2 DEF Good
  <2>3. CASE ~deposit.failed
    <3>1. WorldOK(deposit.world) /\ Money(deposit.world) = Money(w) + 0
      BY <1>1, <1>2, <1>3, <2>3 DEF Good
    <3> QED BY <2>1, <2>3, <3>1, ReturnsGood
  <2> QED BY <2>2, <2>3
<1> QED BY <1>4, <1>5

\* A stake's registration with a pool changes, and the pool's object, but not its index.
Moves(w, r, p, x) ==
  /\ r \in Worlds /\ r.routed = w.routed /\ r.releases = w.releases
  /\ \A o \in PoolIds : o # p => r.pools[o] = w.pools[o]
  /\ r.pools[p].index = w.pools[p].index
  /\ Exists(w, x) /\ DOMAIN r.stakes = DOMAIN w.stakes
  /\ \A y \in DOMAIN w.stakes : y # x => r.stakes[y] = w.stakes[y]
  /\ r.stakes[x].amount = w.stakes[x].amount
  /\ \A o \in PoolIds : CurrencyOf[o] # CurrencyOf[p] =>
       /\ HasRegistration(r, x, o) <=> HasRegistration(w, x, o)
       /\ HasRegistration(w, x, o) => Registration(r, x, o) = Registration(w, x, o)
  /\ HasRegistration(w, x, p) => Registration(w, x, p).pool = p
  /\ HasRegistration(r, x, p) => Registration(r, x, p).pool = p

SharesMoved(w, r, p, x) ==
  [SharesIn(w, p) EXCEPT ![x] = IF HasRegistration(r, x, p) THEN r.stakes[x].amount ELSE 0]
CreditsMoved(w, r, p, x) ==
  [CreditsIn(w, p) EXCEPT ![x] = IF HasRegistration(r, x, p) THEN Owed(r, x, p) ELSE 0]

LEMMA MoveKeeps ==
  ASSUME NEW w, WorldOK(w), NEW r, NEW p \in PoolIds, NEW x, Moves(w, r, p, x),
         MeterOK(r.pools[p], SharesMoved(w, r, p, x), CreditsMoved(w, r, p, x)),
         HasRegistration(r, x, p) => Lifetime(r, x, p)
  PROVE  WorldOK(r)
<1>1. w \in Worlds /\ (\A o \in PoolIds : ViewOK(w, o)) /\ StakesKnown(w)
  BY DEF WorldOK
<1>2. x \in Ids /\ Exists(w, x) /\ Exists(r, x)
  BY <1>1, StakeTyped DEF Moves, Exists
<1>3. ASSUME NEW y \in Ids, y # x, NEW o \in PoolIds
      PROVE  /\ In(r, y, o) <=> In(w, y, o)
             /\ In(w, y, o) => /\ r.stakes[y].amount = w.stakes[y].amount
                              /\ Registration(r, y, o) = Registration(w, y, o)
  BY <1>3 DEF Moves, In, Exists, RegisteredIn, HasRegistration, Registration
<1>4. ASSUME NEW o \in PoolIds, o # p
      PROVE  /\ In(r, x, o) <=> In(w, x, o)
             /\ In(w, x, o) => /\ r.stakes[x].amount = w.stakes[x].amount
                              /\ Registration(r, x, o) = Registration(w, x, o)
  <2>1. CASE CurrencyOf[o] = CurrencyOf[p]
    <3>1. /\ HasRegistration(w, x, o) <=> HasRegistration(w, x, p)
          /\ HasRegistration(r, x, o) <=> HasRegistration(r, x, p)
          /\ Registration(w, x, o) = Registration(w, x, p)
          /\ Registration(r, x, o) = Registration(r, x, p)
      BY <2>1 DEF HasRegistration, Registration
    <3> QED BY <1>4, <3>1 DEF Moves, In, RegisteredIn
  <2>2. CASE CurrencyOf[o] # CurrencyOf[p]
    BY <1>2, <2>2 DEF Moves, In, RegisteredIn
  <2> QED BY <2>1, <2>2
<1>5. \A o \in PoolIds : o # p => ViewOK(r, o)
  <2> SUFFICES ASSUME NEW o \in PoolIds, o # p PROVE ViewOK(r, o)
    OBVIOUS
  <2>1. ViewOK(w, o) /\ r.pools[o] = w.pools[o]
    BY <1>1 DEF Moves
  <2>2. \A y \in Ids : In(r, y, o) <=> In(w, y, o)
    BY <1>3, <1>4
  <2>3. \A y \in Ids : In(w, y, o) =>
            /\ r.stakes[y].amount = w.stakes[y].amount
            /\ Registration(r, y, o) = Registration(w, y, o)
    BY <1>3, <1>4
  <2> QED BY <2>1, <2>2, <2>3, SameView
<1>6. In(r, x, p) <=> HasRegistration(r, x, p)
  BY <1>2 DEF Moves, In, RegisteredIn
<1>7. \A y \in Ids : In(w, y, p) /\ y # x => Owed(r, y, p) = Owed(w, y, p)
  BY <1>3 DEF Moves, Owed
<1>8. SharesIn(r, p) = SharesMoved(w, r, p, x)
  BY <1>2, <1>3, <1>6 DEF SharesIn, SharesMoved
<1>9. CreditsIn(r, p) = CreditsMoved(w, r, p, x)
  BY <1>2, <1>3, <1>6, <1>7 DEF CreditsIn, CreditsMoved
<1>10. ASSUME NEW y \in Ids, In(r, y, p) PROVE Lifetime(r, y, p)
  <2>1. CASE y = x
    BY <1>6, <1>10, <2>1
  <2>2. CASE y # x
    <3>1. In(w, y, p) /\ Lifetime(w, y, p)
      BY <1>1, <1>3, <1>10, <2>2 DEF ViewOK
    <3>2. r.stakes[y].amount = w.stakes[y].amount /\ Registration(r, y, p) = Registration(w, y, p)
      BY <1>3, <2>2, <3>1
    <3>3. r.pools[p].index = w.pools[p].index
      BY DEF Moves
    <3> QED BY <3>1, <3>2, <3>3 DEF Lifetime
  <2> QED BY <2>1, <2>2
<1>11. ViewOK(r, p)
  BY <1>8, <1>9, <1>10 DEF ViewOK
<1>12. StakesKnown(r) /\ r \in Worlds
  BY <1>1 DEF StakesKnown, Moves
<1> QED BY <1>5, <1>11, <1>12 DEF WorldOK

\* The world with one pool object and one stake replaced.
Moved(w, p, q, x, s) ==
  [w EXCEPT !.stakes = [w.stakes EXCEPT ![x] = s], !.pools = [w.pools EXCEPT ![p] = q]]

LEMMA MovedFields ==
  ASSUME NEW w \in Worlds, NEW p \in PoolIds, NEW q \in PoolRec, NEW x, Exists(w, x),
         NEW s \in StakeRec
  PROVE  LET r == Moved(w, p, q, x, s)
         IN  /\ r \in Worlds /\ r.routed = w.routed /\ r.releases = w.releases
             /\ r.pools[p] = q /\ r.stakes[x] = s
             /\ \A o \in PoolIds : o # p => r.pools[o] = w.pools[o]
             /\ DOMAIN r.stakes = DOMAIN w.stakes
             /\ \A y \in DOMAIN w.stakes : y # x => r.stakes[y] = w.stakes[y]
<1> DEFINE r == Moved(w, p, q, x, s)
           pools == [w.pools EXCEPT ![p] = q]
           stakes == [w.stakes EXCEPT ![x] = s]
<1>1. /\ r.pools = pools /\ r.stakes = stakes /\ r.routed = w.routed
      /\ r.releases = w.releases
  BY DEF Moved, Worlds
<1>2. pools \in [PoolIds -> PoolRec]
  BY DEF Worlds
<1>3. PICK D \in SUBSET Ids : w.stakes \in [D -> StakeRec]
  BY DEF Worlds, StakeMaps
<1>4. stakes \in [D -> StakeRec]
  BY <1>3 DEF Exists
<1>5. stakes \in StakeMaps
  BY <1>4 DEF StakeMaps
<1>6. r = [pools |-> pools, stakes |-> stakes, routed |-> w.routed, releases |-> w.releases]
  <2>1. r = [w EXCEPT !.stakes = stakes, !.pools = pools]
    BY DEF Moved
  <2> HIDE DEF pools, stakes, r
  <2> QED BY <2>1 DEF Worlds
<1>7. r \in Worlds
  BY <1>2, <1>5, <1>6 DEF Worlds
<1>8. pools[p] = q /\ \A o \in PoolIds : o # p => pools[o] = w.pools[o]
  BY DEF Worlds
<1>9. /\ stakes[x] = s /\ DOMAIN stakes = DOMAIN w.stakes
      /\ \A y \in DOMAIN w.stakes : y # x => stakes[y] = w.stakes[y]
  BY DEF Exists
<1> HIDE DEF pools, stakes, r
<1> QED BY <1>1, <1>7, <1>8, <1>9 DEF r

\* Adding or removing a key leaves the other keys alone.
OthersKept(old, new, c) ==
  DOMAIN new \ {c} = DOMAIN old \ {c} /\ \A d \in DOMAIN old \ {c} : new[d] = old[d]

LEMMA OtherKept ==
  ASSUME NEW old, NEW new, NEW c, OthersKept(old, new, c), NEW d, d # c
  PROVE  /\ d \in DOMAIN new <=> d \in DOMAIN old
         /\ d \in DOMAIN old => new[d] = old[d]
BY DEF OthersKept

LEMMA WithKey ==
  ASSUME NEW D, NEW T, NEW f \in [D -> T], NEW c, NEW e \in T
  PROVE  /\ With(f, c, e) \in [D \cup {c} -> T] /\ With(f, c, e)[c] = e
         /\ OthersKept(f, With(f, c, e), c)
BY DEF With, OthersKept

LEMMA WithoutKey ==
  ASSUME NEW D, NEW T, NEW f \in [D -> T], NEW c
  PROVE  Without(f, c) \in [D \ {c} -> T] /\ OthersKept(f, Without(f, c), c)
BY DEF Without, Restrict, OthersKept

LEMMA EntryAdded ==
  ASSUME NEW f \in Entries, NEW c \in Currencies, NEW e \in Entry
  PROVE  /\ With(f, c, e) \in Entries /\ c \in DOMAIN With(f, c, e) /\ With(f, c, e)[c] = e
         /\ OthersKept(f, With(f, c, e), c)
<1>1. PICK C \in SUBSET Currencies : f \in [C -> Entry]
  BY DEF Entries
<1>2. /\ With(f, c, e) \in [C \cup {c} -> Entry] /\ With(f, c, e)[c] = e
      /\ OthersKept(f, With(f, c, e), c)
  BY <1>1, WithKey
<1> QED BY <1>2 DEF Entries

LEMMA EntryRemoved ==
  ASSUME NEW f \in Entries, NEW c
  PROVE  Without(f, c) \in Entries /\ c \notin DOMAIN Without(f, c) /\ OthersKept(f, Without(f, c), c)
<1>1. PICK C \in SUBSET Currencies : f \in [C -> Entry]
  BY DEF Entries
<1> DEFINE g == Without(f, c)
<1>2. g \in [C \ {c} -> Entry] /\ C \ {c} \in SUBSET Currencies /\ OthersKept(f, g, c)
  BY <1>1, WithoutKey
<1> HIDE DEF g
<1> QED BY <1>2 DEF Entries, g

\* A replaced pool object and stake are a move when they agree on the rest.
LEMMA MovedMoves ==
  ASSUME NEW w \in Worlds, NEW p \in PoolIds, NEW q \in PoolRec, NEW x, Exists(w, x),
         NEW s \in StakeRec, q.index = w.pools[p].index, s.amount = w.stakes[x].amount,
         OthersKept(w.stakes[x].registrations, s.registrations, CurrencyOf[p]),
         HasRegistration(w, x, p) => Registration(w, x, p).pool = p,
         CurrencyOf[p] \in DOMAIN s.registrations => s.registrations[CurrencyOf[p]].pool = p
  PROVE  Moves(w, Moved(w, p, q, x, s), p, x)
<1> DEFINE r == Moved(w, p, q, x, s)
<1>1. /\ r \in Worlds /\ r.routed = w.routed /\ r.releases = w.releases
      /\ r.pools[p] = q /\ r.stakes[x] = s
      /\ \A o \in PoolIds : o # p => r.pools[o] = w.pools[o]
      /\ DOMAIN r.stakes = DOMAIN w.stakes
      /\ \A y \in DOMAIN w.stakes : y # x => r.stakes[y] = w.stakes[y]
  BY MovedFields
<1> HIDE DEF r
<1>2. ASSUME NEW o \in PoolIds, CurrencyOf[o] # CurrencyOf[p]
      PROVE  /\ HasRegistration(r, x, o) <=> HasRegistration(w, x, o)
             /\ HasRegistration(w, x, o) => Registration(r, x, o) = Registration(w, x, o)
  <2> DEFINE d == CurrencyOf[o]
             old == w.stakes[x].registrations
  <2>1. /\ d \in DOMAIN s.registrations <=> d \in DOMAIN old
        /\ d \in DOMAIN old => s.registrations[d] = old[d]
    <3> HIDE DEF old, d
    <3> QED BY <1>2, OtherKept DEF d, old
  <2> QED BY <1>1, <2>1 DEF HasRegistration, Registration
<1>3. HasRegistration(r, x, p) => Registration(r, x, p).pool = p
  BY <1>1 DEF HasRegistration, Registration
<1>4. Moves(w, r, p, x)
  BY <1>1, <1>2, <1>3 DEF Moves
<1> QED BY <1>4 DEF r

LEMMA MoneyMoved ==
  ASSUME ConstantsAssumption, NEW w \in Worlds, NEW r, NEW p \in PoolIds, NEW x, Moves(w, r, p, x),
         NEW d \in Int, r.pools[p].balance = w.pools[p].balance + d,
         r.pools[p].parked = w.pools[p].parked
  PROVE  Money(r) = Money(w) + d
<1>1. w.pools[p].balance \in Nat /\ w.pools[p].parked \in Nat
  BY PoolTyped
<1>2. r.pools[p].balance + r.pools[p].parked = w.pools[p].balance + w.pools[p].parked + d
  BY <1>1
<1>3. /\ r \in Worlds /\ r.releases = w.releases
      /\ \A o \in PoolIds : o # p => r.pools[o] = w.pools[o]
  BY DEF Moves
<1> QED BY <1>2, <1>3, MoneyAtPool

\* Stakes that are not registered with a pool have neither shares nor credit there.
LEMMA Unregistered ==
  ASSUME NEW w \in Worlds, NEW p \in PoolIds, NEW x, Exists(w, x), ~HasRegistration(w, x, p)
  PROVE  x \in Ids /\ SharesIn(w, p)[x] = 0 /\ CreditsIn(w, p)[x] = 0
<1>1. x \in Ids /\ ~In(w, x, p)
  BY StakeTyped DEF In, RegisteredIn
<1> QED BY <1>1 DEF SharesIn, CreditsIn

LEMMA Registered ==
  ASSUME NEW w, WorldOK(w), NEW p \in PoolIds, NEW x, Exists(w, x), HasRegistration(w, x, p),
         Registration(w, x, p).pool = p
  PROVE  /\ x \in Ids /\ In(w, x, p) /\ SharesIn(w, p)[x] = w.stakes[x].amount
         /\ CreditsIn(w, p)[x] = Owed(w, x, p) /\ Owed(w, x, p) \in Nat
         /\ Lifetime(w, x, p)
<1>1. w \in Worlds
  BY DEF WorldOK
<1>2. x \in Ids /\ In(w, x, p)
  BY <1>1, StakeTyped DEF In, RegisteredIn
<1>3. CreditsIn(w, p)[x] = Owed(w, x, p) /\ SharesIn(w, p)[x] = w.stakes[x].amount
  BY <1>2 DEF SharesIn, CreditsIn
<1>4. CreditsIn(w, p) \in [Ids -> Nat] /\ Lifetime(w, x, p)
  BY <1>2, PoolMeter DEF WorldOK, ViewOK
<1>5. CreditsIn(w, p)[x] \in Nat
  BY <1>2, <1>4
<1> QED BY <1>2, <1>3, <1>4, <1>5

LEMMA RegisterKeeps ==
  ASSUME ConstantsAssumption, NEW w, WorldOK(w), NEW p \in PoolIds, NEW x, Exists(w, x)
  PROVE  Good(w, Register(w, p, x), 0)
<1> DEFINE n == w.stakes[x].amount
           q == w.pools[p]
           c == CurrencyOf[p]
           e == NewRegistration(w, p, n)
           new == [q EXCEPT !.staked_shares = @ + n]
           s == [w.stakes[x] EXCEPT !.registrations = With(@, c, e)]
           r == Moved(w, p, new, x, s)
<1>1. CASE HasRegistration(w, x, p) \/ q.staked_shares + n > MaxU64
  BY <1>1, FailedGood DEF Register
<1>2. CASE ~(HasRegistration(w, x, p) \/ q.staked_shares + n > MaxU64)
  <2>1. /\ w \in Worlds /\ x \in Ids /\ w.stakes[x] \in StakeRec /\ n \in Nat
        /\ w.stakes[x].registrations \in Entries /\ q \in PoolRec /\ q.index \in Nat
        /\ q.staked_shares \in Nat /\ q.balance \in Nat /\ Money(w) \in Int
    BY PoolMeter, StakeTyped, PoolTyped, MoneyTyped
  <2>2. Register(w, p, x) = Done(r)
    BY <1>2 DEF Register, Moved
  <2>3. /\ e \in Entry /\ e.pool = p /\ e.debt = n * q.index /\ e.index = q.index
        /\ e.paid = 0
    <3>1. n * q.index \in Nat
      BY <2>1
    <3> QED BY <2>1, <3>1 DEF NewRegistration, Entry
  <2> DEFINE g == With(w.stakes[x].registrations, c, e)
  <2>4. g \in Entries /\ c \in DOMAIN g /\ g[c] = e /\ OthersKept(w.stakes[x].registrations, g, c)
    <3>1. c \in Currencies
      BY DEF Currencies
    <3> HIDE DEF e, c
    <3> QED BY <2>1, <2>3, <3>1, EntryAdded
  <2>5. s \in StakeRec /\ s.amount = n /\ s.registrations = g
    <3> HIDE DEF e
    <3> QED BY <2>1, <2>4 DEF StakeRec
  <2>6. /\ MeterOK(new, [SharesIn(w, p) EXCEPT ![x] = n], CreditsIn(w, p))
        /\ SharesIn(w, p)[x] = 0 /\ CreditsIn(w, p)[x] = 0 /\ CreditsIn(w, p) \in [Ids -> Nat]
    <3>1. SharesIn(w, p)[x] = 0 /\ CreditsIn(w, p)[x] = 0
      BY <1>2, <2>1, Unregistered
    <3>2. MeterOK(q, SharesIn(w, p), CreditsIn(w, p)) /\ CreditsIn(w, p) \in [Ids -> Nat]
      BY PoolMeter
    <3>3. q.staked_shares + n <= MaxU64
      BY <1>2, <2>1 DEF ConstantsAssumption
    <3> HIDE DEF n, q
    <3> QED BY <2>1, <3>1, <3>2, <3>3, MeterJoin
  <2>7. /\ new \in PoolRec /\ new.index = q.index /\ new.balance = q.balance + 0
        /\ new.parked = q.parked
    BY <2>1 DEF PoolRec
  <2> HIDE DEF g, e, s, new
  <2>8. r.pools[p] = new /\ r.stakes[x] = s
    BY <2>1, <2>5, <2>7, MovedFields
  <2>9. Moves(w, r, p, x)
    BY <1>2, <2>1, <2>3, <2>4, <2>5, <2>7, MovedMoves
  <2> HIDE DEF r
  <2>10. HasRegistration(r, x, p) /\ Registration(r, x, p) = e
    BY <2>4, <2>5, <2>8 DEF HasRegistration, Registration
  <2>11. Owed(r, x, p) = 0
    <3>1. Owed(r, x, p) = n * q.index - n * q.index /\ n * q.index \in Int
      BY <2>1, <2>3, <2>5, <2>7, <2>8, <2>10 DEF Owed
    <3> QED BY <3>1
  <2>12. Lifetime(r, x, p)
    <3>1. 0 * P = 0 /\ n * q.index \in Int
      BY <2>1 DEF ConstantsAssumption
    <3>2. r.pools[p].index = q.index /\ r.stakes[x].amount = n
      BY <2>5, <2>7, <2>8
    <3> HIDE DEF n, q
    <3> QED BY <2>1, <2>3, <2>10, <3>1, <3>2 DEF Lifetime
  <2>13. SharesMoved(w, r, p, x) = [SharesIn(w, p) EXCEPT ![x] = n]
    BY <2>5, <2>8, <2>10 DEF SharesMoved
  <2>14. CreditsMoved(w, r, p, x) = CreditsIn(w, p)
    BY <2>6, <2>10, <2>11 DEF CreditsMoved
  <2>15. WorldOK(r)
    BY <2>6, <2>8, <2>9, <2>12, <2>13, <2>14, MoveKeeps
  <2>16. Money(r) = Money(w) + 0
    BY <2>1, <2>7, <2>8, <2>9, MoneyMoved
  <2> QED BY <2>2, <2>15, <2>16, ReturnsGood
<1> QED BY <1>1, <1>2

\* Less than a unit, what a drained registration is owed rounds down to nothing.
LEMMA DrainedOwesLittle ==
  ASSUME ConstantsAssumption, NEW a \in Nat, a \div P = 0
  PROVE  a < P
<1>1. P \in Nat /\ P > 0
  BY DEF ConstantsAssumption
<1>2. a - (a \div P) * P < P
  BY <1>1, DivisionFloor
<1>3. (a \div P) * P = 0
  BY <1>1
<1> QED BY <1>1, <1>2, <1>3

\* A pool object and a stake after an exit, and the world that holds them.
Emptied(q, o, n) == [q EXCEPT !.forfeited = @ + o, !.exits = @ + 1, !.staked_shares = @ - n]
Left(s, c) == [s EXCEPT !.registrations = Without(@, c)]
Exited(w, p, x, o, n, c) ==
  [w EXCEPT !.pools[p].forfeited = @ + o, !.pools[p].exits = @ + 1,
            !.pools[p].staked_shares = @ - n, !.stakes[x].registrations = Without(@, c)]

LEMMA ExitedWorld ==
  ASSUME NEW w, NEW p, NEW x, NEW o, NEW n, NEW c
  PROVE  Exited(w, p, x, o, n, c) = Moved(w, p, Emptied(w.pools[p], o, n), x, Left(w.stakes[x], c))
BY ZenonT(60) DEF Exited, Emptied, Left, Moved

LEMMA UnregisterKeeps ==
  ASSUME ConstantsAssumption, NEW w, WorldOK(w), NEW p \in PoolIds, NEW x, Exists(w, x)
  PROVE  Good(w, Unregister(w, p, x), 0)
<1> DEFINE n == w.stakes[x].amount
           q == w.pools[p]
           c == CurrencyOf[p]
           o == Owed(w, x, p)
           registered == HasRegistration(w, x, p) /\ Registration(w, x, p).pool = p
           new == Emptied(q, o, n)
           s == Left(w.stakes[x], c)
           r == Moved(w, p, new, x, s)
<1>1. CASE ~registered \/ ~Drained(w, x, p)
  BY <1>1, FailedGood DEF Unregister, AsRegistered
<1>2. CASE registered /\ Drained(w, x, p)
  <2>1. /\ w \in Worlds /\ x \in Ids /\ w.stakes[x] \in StakeRec /\ n \in Nat
        /\ w.stakes[x].registrations \in Entries /\ q \in PoolRec /\ q.index \in Nat
        /\ q.balance \in Nat /\ Money(w) \in Int
    BY PoolMeter, StakeTyped, PoolTyped, MoneyTyped
  <2>2. Unregister(w, p, x) = Done(r)
    <3>1. Unregister(w, p, x) = Done(Exited(w, p, x, o, n, c))
      BY <1>2 DEF Unregister, AsRegistered, Exited
    <3>2. Exited(w, p, x, o, n, c) = r
      <4> HIDE DEF o, n, c
      <4> QED BY ExitedWorld
    <3> QED BY <3>1, <3>2
  <2>3. /\ o \in Nat /\ o < P /\ SharesIn(w, p)[x] = n /\ CreditsIn(w, p)[x] = o
    <3>1. o \in Nat /\ SharesIn(w, p)[x] = n /\ CreditsIn(w, p)[x] = o
      BY <1>2, Registered
    <3>2. o \div P = 0
      BY <1>2 DEF Drained, calculate_reward
    <3> HIDE DEF o
    <3> QED BY <3>1, <3>2, DrainedOwesLittle
  <2> DEFINE g == Without(w.stakes[x].registrations, c)
  <2>4. g \in Entries /\ c \notin DOMAIN g /\ OthersKept(w.stakes[x].registrations, g, c)
    <3> HIDE DEF c
    <3> QED BY <2>1, EntryRemoved
  <2>5. s \in StakeRec /\ s.amount = n /\ s.registrations = g
    BY <2>1, <2>4 DEF StakeRec, Left
  <2>6. MeterOK(new, [SharesIn(w, p) EXCEPT ![x] = 0], [CreditsIn(w, p) EXCEPT ![x] = 0])
    <3>1. MeterOK(q, SharesIn(w, p), CreditsIn(w, p))
      BY PoolMeter
    <3> DEFINE shares == SharesIn(w, p)
               credit == CreditsIn(w, p)
    <3>2. new = [q EXCEPT !.forfeited = @ + credit[x], !.exits = @ + 1,
                          !.staked_shares = @ - shares[x]]
      BY <2>3 DEF Emptied
    <3> HIDE DEF n, q, o, new, shares, credit
    <3>3. MeterOK([q EXCEPT !.forfeited = @ + credit[x], !.exits = @ + 1,
                            !.staked_shares = @ - shares[x]],
                  [shares EXCEPT ![x] = 0], [credit EXCEPT ![x] = 0])
      BY <2>1, <2>3, <3>1, MeterLeave DEF shares, credit
    <3> QED BY <3>2, <3>3 DEF shares, credit
  <2>7. /\ new \in PoolRec /\ new.index = q.index /\ new.balance = q.balance + 0
        /\ new.parked = q.parked
    <3>1. new \in PoolRec
      BY <2>6 DEF MeterOK
    <3> QED BY <2>1, <3>1 DEF PoolRec, Emptied
  <2> HIDE DEF g, s, new
  <2>8. r.pools[p] = new /\ r.stakes[x] = s
    BY <2>1, <2>5, <2>7, MovedFields
  <2>9. Moves(w, r, p, x)
    BY <1>2, <2>1, <2>4, <2>5, <2>7, MovedMoves
  <2> HIDE DEF r
  <2>10. ~HasRegistration(r, x, p)
    BY <2>4, <2>5, <2>8 DEF HasRegistration
  <2>11. /\ SharesMoved(w, r, p, x) = [SharesIn(w, p) EXCEPT ![x] = 0]
         /\ CreditsMoved(w, r, p, x) = [CreditsIn(w, p) EXCEPT ![x] = 0]
    BY <2>10 DEF SharesMoved, CreditsMoved
  <2>12. WorldOK(r)
    BY <2>6, <2>8, <2>9, <2>10, <2>11, MoveKeeps
  <2>13. Money(r) = Money(w) + 0
    BY <2>1, <2>7, <2>8, <2>9, MoneyMoved
  <2> QED BY <2>2, <2>12, <2>13, ReturnsGood
<1> QED BY <1>1, <1>2

\* An entry, a pool object and a stake after a claim, and the world that holds them.
PaidEntry(e, debt, paid) == [e EXCEPT !.debt = debt, !.paid = paid]
Paid(q, v) == [q EXCEPT !.balance = @ - v]
PaidStake(s, c, debt, v) ==
  [s EXCEPT !.registrations =
     [s.registrations EXCEPT ![c] = PaidEntry(s.registrations[c], debt, s.registrations[c].paid + v)]]
Claimed(w, p, x, c, debt, v) ==
  [w EXCEPT !.stakes[x].registrations[c].debt = debt,
            !.stakes[x].registrations[c].paid = @ + v, !.pools[p].balance = @ - v]

\* The entry is updated twice.
LEMMA ClaimedWorld ==
  ASSUME NEW w \in Worlds, NEW p \in PoolIds, NEW x, Exists(w, x), NEW c,
         c \in DOMAIN w.stakes[x].registrations, NEW debt, NEW v
  PROVE  Claimed(w, p, x, c, debt, v)
           = Moved(w, p, Paid(w.pools[p], v), x, PaidStake(w.stakes[x], c, debt, v))
<1> DEFINE s == w.stakes[x]
           f == s.registrations
           paid == f[c].paid + v
           q == [w.pools[p] EXCEPT !.balance = @ - v]
           pools == [w.pools EXCEPT ![p] = q]
           entries == [f EXCEPT ![c] = PaidEntry(f[c], debt, paid)]
           new == [s EXCEPT !.registrations = entries]
           stakes == [w.stakes EXCEPT ![x] = new]
           owing == [f EXCEPT ![c].debt = debt]
           once == [w.stakes EXCEPT ![x] = [s EXCEPT !.registrations = owing]]
           r == Claimed(w, p, x, c, debt, v)
           twice == [once EXCEPT ![x].registrations[c].paid = paid]
<1>1. PICK D \in SUBSET Ids : w.stakes \in [D -> StakeRec]
  BY DEF Worlds, StakeMaps
<1>2. x \in D /\ s \in StakeRec /\ f \in Entries /\ c \in DOMAIN f
  BY <1>1 DEF Exists, StakeRec
<1>3. PICK C \in SUBSET Currencies : f \in [C -> Entry]
  BY <1>2 DEF Entries
<1>4. r = [[[w EXCEPT !.stakes = once] EXCEPT !.stakes = twice] EXCEPT !.pools = pools]
  BY DEF Claimed
<1>5. [owing EXCEPT ![c].paid = paid] = entries
  <2> HIDE DEF f, paid
  <2> QED BY <1>2, <1>3 DEF PaidEntry
<1>6. twice = stakes
  <2>1. once[x] = [s EXCEPT !.registrations = owing]
    BY <1>1, <1>2
  <2> HIDE DEF owing, entries
  <2>2. twice = [once EXCEPT ![x] = [once[x] EXCEPT !.registrations = entries]]
    <3>1. once[x].registrations = owing
      BY <1>2, <2>1 DEF StakeRec
    <3> HIDE DEF once, paid
    <3> QED BY <1>5, <3>1
  <2>3. [once[x] EXCEPT !.registrations = entries] = new
    BY <1>2, <2>1 DEF StakeRec
  <2>4. [once EXCEPT ![x] = new] = stakes
    <3> HIDE DEF new
    <3> QED BY <1>1, <1>2
  <2> QED BY <2>2, <2>3, <2>4
<1> HIDE DEF stakes, once, twice, pools, r
<1>7. [[[w EXCEPT !.stakes = once] EXCEPT !.stakes = stakes] EXCEPT !.pools = pools]
        = [w EXCEPT !.stakes = stakes, !.pools = pools]
  BY DEF Worlds
<1>8. r = [w EXCEPT !.stakes = stakes, !.pools = pools]
  BY <1>4, <1>6, <1>7
<1> QED BY <1>8 DEF Moved, Paid, PaidStake, stakes, pools, r

LEMMA EntryReplaced ==
  ASSUME NEW f \in Entries, NEW c \in DOMAIN f, NEW e \in Entry
  PROVE  /\ [f EXCEPT ![c] = e] \in Entries /\ c \in DOMAIN [f EXCEPT ![c] = e]
         /\ [f EXCEPT ![c] = e][c] = e /\ OthersKept(f, [f EXCEPT ![c] = e], c)
<1>1. PICK C \in SUBSET Currencies : f \in [C -> Entry]
  BY DEF Entries
<1>2. [f EXCEPT ![c] = e] \in [C -> Entry]
  BY <1>1
<1>3. [f EXCEPT ![c] = e] \in Entries
  BY <1>2 DEF Entries
<1> QED BY <1>3 DEF OthersKept

LEMMA ClaimKeeps ==
  ASSUME ConstantsAssumption, NEW w, WorldOK(w), NEW p \in PoolIds, NEW x, Exists(w, x)
  PROVE  /\ ~Claim(w, p, x).failed => Claim(w, p, x).value \in Nat
         /\ Good(w, Claim(w, p, x), -Claim(w, p, x).value)
<1> DEFINE n == w.stakes[x].amount
           q == w.pools[p]
           c == CurrencyOf[p]
           old == Registration(w, x, p)
           o == Owed(w, x, p)
           v == calculate_reward(w, x, p)
           debt == DebtAfterClaim(w, x, p)
           registered == HasRegistration(w, x, p) /\ old.pool = p
           new == Paid(q, v)
           s == PaidStake(w.stakes[x], c, debt, v)
           r == Moved(w, p, new, x, s)
<1>1. CASE ~registered \/ v > q.balance
  <2>1. Claim(w, p, x).failed
    BY <1>1, FailedGood DEF Claim, AsRegistered
  <2> QED BY <2>1 DEF Good
<1>2. CASE registered /\ ~(v > q.balance)
  <2>1. /\ w \in Worlds /\ x \in Ids /\ w.stakes[x] \in StakeRec /\ n \in Nat
        /\ w.stakes[x].registrations \in Entries /\ q \in PoolRec /\ q.index \in Nat
        /\ q.balance \in Nat /\ q.parked \in Nat /\ Money(w) \in Int
    BY PoolMeter, StakeTyped, PoolTyped, MoneyTyped
  <2>2. /\ old \in Entry /\ old.debt \in Nat /\ old.index \in Nat /\ old.paid \in Nat
        /\ c \in DOMAIN w.stakes[x].registrations /\ w.stakes[x].registrations[c] = old
    BY <1>2, <2>1, EntryTyped DEF HasRegistration, Registration
  <2>3. /\ o \in Nat /\ SharesIn(w, p)[x] = n /\ CreditsIn(w, p)[x] = o /\ Lifetime(w, x, p)
    BY <1>2, Registered
  <2>4. v \in Nat /\ v * P <= o /\ v * P \in Nat
    <3>1. P \in Nat /\ P > 0
      BY DEF ConstantsAssumption
    <3>2. (o \div P) \in Nat /\ (o \div P) * P <= o
      <4> HIDE DEF o
      <4> QED BY <2>3, <3>1, Division, DivisionFloor
    <3>3. v \in Nat /\ v * P <= o
      BY <3>2 DEF calculate_reward
    <3> HIDE DEF v
    <3> QED BY <3>1, <3>3
  <2>5. Claim(w, p, x) = Returns(r, v)
    <3>1. Claim(w, p, x) = Returns(Claimed(w, p, x, c, debt, v), v)
      BY <1>2 DEF Claim, AsRegistered, Claimed
    <3>2. Claimed(w, p, x, c, debt, v) = r
      <4> HIDE DEF debt, v, c
      <4> QED BY <2>1, <2>2, ClaimedWorld
    <3> QED BY <3>1, <3>2
  <2> DEFINE e == PaidEntry(old, debt, old.paid + v)
             g == [w.stakes[x].registrations EXCEPT ![c] = e]
  <2>6. debt = old.debt + v * P /\ debt \in Nat /\ old.paid + v \in Nat
    <3>1. debt = old.debt + v * P
      BY DEF DebtAfterClaim
    <3> HIDE DEF debt, v, old
    <3> QED BY <2>2, <2>4, <3>1
  <2>7. /\ e \in Entry /\ e.pool = p /\ e.debt = debt /\ e.index = old.index
        /\ e.paid = old.paid + v
    <3> DEFINE paid == old.paid + v
    <3>1. paid \in Nat /\ old.pool = p
      BY <1>2, <2>6
    <3> HIDE DEF old, debt, paid
    <3> QED BY <2>2, <2>6, <3>1 DEF Entry, PaidEntry
  <2> HIDE DEF e
  <2>8. /\ g \in Entries /\ c \in DOMAIN g /\ g[c] = e
        /\ OthersKept(w.stakes[x].registrations, g, c)
    <3> HIDE DEF c
    <3> QED BY <2>1, <2>2, <2>7, EntryReplaced
  <2>9. s \in StakeRec /\ s.amount = n /\ s.registrations = g
    <3>1. s = [w.stakes[x] EXCEPT !.registrations = g]
      BY <2>2 DEF PaidStake, e
    <3> HIDE DEF g, s
    <3> QED BY <2>1, <2>8, <3>1 DEF StakeRec
  <2>10. MeterOK(new, SharesIn(w, p), [CreditsIn(w, p) EXCEPT ![x] = o - v * P])
    <3>1. MeterOK(q, SharesIn(w, p), CreditsIn(w, p)) /\ CreditsIn(w, p) \in [Ids -> Nat]
      BY PoolMeter
    <3>2. v <= q.balance
      <4> HIDE DEF v
      <4> QED BY <1>2, <2>1, <2>4
    <3> HIDE DEF q, v, o
    <3>3. MeterOK([q EXCEPT !.balance = @ - v], SharesIn(w, p), [CreditsIn(w, p) EXCEPT ![x] = @ - v * P])
      BY <2>1, <2>3, <2>4, <3>1, <3>2, MeterPaid
    <3> QED BY <2>1, <2>3, <3>1, <3>3 DEF Paid
  <2>11. /\ new \in PoolRec /\ new.index = q.index /\ new.balance = q.balance + (-v)
         /\ new.parked = q.parked
    <3>1. new \in PoolRec
      BY <2>10 DEF MeterOK
    <3> HIDE DEF q, v
    <3>2. new.balance = q.balance - v /\ new.index = q.index /\ new.parked = q.parked
      BY <2>1 DEF Paid, PoolRec
    <3> QED BY <2>1, <2>4, <3>1, <3>2
  <2> HIDE DEF g, s, new
  <2>12. r.pools[p] = new /\ r.stakes[x] = s
    BY <2>1, <2>9, <2>11, MovedFields
  <2>13. Moves(w, r, p, x)
    BY <1>2, <2>1, <2>7, <2>8, <2>9, <2>11, MovedMoves
  <2> HIDE DEF r
  <2>14. HasRegistration(r, x, p) /\ Registration(r, x, p) = e
    BY <2>8, <2>9, <2>12 DEF HasRegistration, Registration
  <2>15. Owed(r, x, p) = o - v * P
    <3>1. Owed(r, x, p) = n * q.index - debt /\ o = n * q.index - old.debt
      BY <2>7, <2>9, <2>11, <2>12, <2>14 DEF Owed
    <3>2. n * q.index \in Int
      BY <2>1
    <3> HIDE DEF n, q, o, v, debt, old
    <3> QED BY <2>2, <2>4, <2>6, <3>1, <3>2
  <2>16. Lifetime(r, x, p)
    <3>1. old.index <= q.index /\ old.debt = n * old.index + old.paid * P
      BY <2>3 DEF Lifetime
    <3>2. r.pools[p].index = q.index /\ r.stakes[x].amount = n
      BY <2>9, <2>11, <2>12
    <3> HIDE DEF n, q, old, v, debt
    <3>3. (old.paid + v) * P = old.paid * P + v * P /\ old.paid * P \in Int /\ n * old.index \in Int
      BY <2>1, <2>2, <2>4 DEF ConstantsAssumption
    <3>4. debt = n * old.index + (old.paid + v) * P
      BY <2>2, <2>4, <2>6, <3>1, <3>3
    <3> QED BY <2>7, <2>14, <3>1, <3>2, <3>4 DEF Lifetime
  <2>17. SharesMoved(w, r, p, x) = SharesIn(w, p)
    <3>1. SharesIn(w, p) \in [Ids -> Nat]
      BY PoolMeter
    <3> QED BY <2>3, <2>9, <2>12, <2>14, <3>1 DEF SharesMoved
  <2>18. CreditsMoved(w, r, p, x) = [CreditsIn(w, p) EXCEPT ![x] = o - v * P]
    BY <2>14, <2>15 DEF CreditsMoved
  <2>19. WorldOK(r)
    BY <2>10, <2>12, <2>13, <2>16, <2>17, <2>18, MoveKeeps
  <2> HIDE DEF v, o
  <2>20. Money(r) = Money(w) + (-v)
    <3>1. -v \in Int
      BY <2>4
    <3> QED BY <2>1, <2>11, <2>12, <2>13, <3>1, MoneyMoved
  <2>21. Claim(w, p, x).value = v
    BY <2>5 DEF Returns
  <2> QED BY <2>4, <2>5, <2>19, <2>20, <2>21, ReturnsGood
<1> QED BY <1>1, <1>2

--------------------------------------------------------------------------------
(* stake.rs and routed.rs *)

LEMMA SetStakes ==
  ASSUME NEW w \in Worlds, NEW f \in StakeMaps
  PROVE  LET r == [w EXCEPT !.stakes = f]
         IN  /\ r \in Worlds /\ r.pools = w.pools /\ r.stakes = f /\ r.routed = w.routed
             /\ r.releases = w.releases
BY DEF Worlds

\* Where no pool and no registration moved, the checks hold as before.
LEMMA StakesMoved ==
  ASSUME NEW w, WorldOK(w), NEW r \in Worlds, r.pools = w.pools, r.releases = w.releases,
         StakesKnown(r),
         \A x \in Ids, p \in PoolIds :
            /\ In(r, x, p) <=> In(w, x, p)
            /\ In(w, x, p) => /\ r.stakes[x].amount = w.stakes[x].amount
                             /\ Registration(r, x, p) = Registration(w, x, p)
  PROVE  WorldOK(r) /\ Money(r) = Money(w)
<1>1. ASSUME NEW p \in PoolIds PROVE ViewOK(r, p)
  <2>1. ViewOK(w, p) /\ r.pools[p] = w.pools[p]
    BY DEF WorldOK
  <2>2. \A x \in Ids : In(r, x, p) <=> In(w, x, p)
    OBVIOUS
  <2>3. \A x \in Ids : In(w, x, p) => /\ r.stakes[x].amount = w.stakes[x].amount
                                      /\ Registration(r, x, p) = Registration(w, x, p)
    OBVIOUS
  <2> QED BY <2>1, <2>2, <2>3, SameView
<1> QED BY <1>1, MoneyUnmoved DEF WorldOK

NoRegistrations == [c \in {} |-> 0]

LEMMA StakeAdded ==
  ASSUME NEW D \in SUBSET Ids, NEW f \in [D -> StakeRec], NEW x \in Ids, NEW s \in StakeRec
  PROVE  /\ With(f, x, s) \in [D \cup {x} -> StakeRec] /\ D \cup {x} \in SUBSET Ids
         /\ With(f, x, s)[x] = s /\ OthersKept(f, With(f, x, s), x)
<1>1. /\ With(f, x, s) \in [D \cup {x} -> StakeRec] /\ With(f, x, s)[x] = s
      /\ OthersKept(f, With(f, x, s), x)
  BY WithKey
<1> QED BY <1>1

LEMMA NewStakeKeeps ==
  ASSUME ConstantsAssumption, NEW w, WorldOK(w), NEW x \in StakeIds \cup DOMAIN w.routed, x \in Ids,
         ~Exists(w, x), NEW n \in Nat
  PROVE  Good(w, NewStake(w, x, n), 0)
<1> DEFINE s == [amount |-> n, registrations |-> NoRegistrations]
           f == With(w.stakes, x, s)
           r == [w EXCEPT !.stakes = f]
<1>1. CASE n = 0
  BY <1>1, FailedGood DEF NewStake
<1>2. CASE n # 0
  <2>1. w \in Worlds /\ StakesKnown(w) /\ Money(w) \in Int
    BY MoneyTyped DEF WorldOK
  <2>2. PICK D \in SUBSET Ids : w.stakes \in [D -> StakeRec]
    BY <2>1 DEF Worlds, StakeMaps
  <2>3. s \in StakeRec /\ DOMAIN s.registrations = {}
    <3>1. NoRegistrations \in [{} -> Entry] /\ {} \in SUBSET Currencies
      BY DEF NoRegistrations
    <3>2. NoRegistrations \in Entries
      BY <3>1 DEF Entries
    <3> QED BY <3>1, <3>2 DEF StakeRec
  <2> HIDE DEF s
  <2>4. /\ f \in [D \cup {x} -> StakeRec] /\ D \cup {x} \in SUBSET Ids
        /\ f[x] = s /\ OthersKept(w.stakes, f, x)
    <3> DEFINE stakes == w.stakes
    <3>1. stakes \in [D -> StakeRec] /\ f = With(stakes, x, s)
      BY <2>2
    <3> HIDE DEF stakes, f
    <3>2. /\ With(stakes, x, s) \in [D \cup {x} -> StakeRec] /\ D \cup {x} \in SUBSET Ids
          /\ With(stakes, x, s)[x] = s /\ OthersKept(stakes, With(stakes, x, s), x)
      BY <2>3, <3>1, StakeAdded
    <3> QED BY <3>1, <3>2 DEF stakes
  <2>5. NewStake(w, x, n) = Done(r)
    BY <1>2 DEF NewStake, s, NoRegistrations
  <2> HIDE DEF f
  <2>6. /\ r \in Worlds /\ r.pools = w.pools /\ r.stakes = f /\ r.routed = w.routed
        /\ r.releases = w.releases
    <3>1. f \in StakeMaps
      BY <2>4 DEF StakeMaps
    <3> QED BY <2>1, <3>1, SetStakes
  <2> HIDE DEF r
  <2>7. DOMAIN r.stakes = D \cup {x} /\ DOMAIN w.stakes = D
    BY <2>2, <2>4, <2>6
  <2>8. StakesKnown(r)
    BY <2>1, <2>6, <2>7 DEF StakesKnown
  <2>9. ASSUME NEW y \in Ids, NEW p \in PoolIds
        PROVE  /\ In(r, y, p) <=> In(w, y, p)
               /\ In(w, y, p) => /\ r.stakes[y].amount = w.stakes[y].amount
                                /\ Registration(r, y, p) = Registration(w, y, p)
    <3>1. CASE y = x
      BY <2>3, <2>4, <2>6, <3>1 DEF In, RegisteredIn, HasRegistration
    <3>2. CASE y # x
      <4>1. /\ y \in DOMAIN r.stakes <=> y \in DOMAIN w.stakes
            /\ y \in DOMAIN w.stakes => r.stakes[y] = w.stakes[y]
        BY <2>4, <2>6, <3>2, OtherKept
      <4> QED BY <4>1 DEF In, Exists, RegisteredIn, HasRegistration, Registration
    <3> QED BY <3>1, <3>2
  <2>10. WorldOK(r) /\ Money(r) = Money(w)
    BY <2>6, <2>8, <2>9, StakesMoved
  <2>11. Money(w) = Money(w) + 0
    BY <2>1
  <2> QED BY <2>5, <2>10, <2>11, ReturnsGood
<1> QED BY <1>1, <1>2

\* Taking out a stake without registrations.
LEMMA StakeRemoved ==
  ASSUME NEW w, WorldOK(w), NEW x, Exists(w, x), w.stakes[x].registrations = NoRegistrations
  PROVE  LET r == [w EXCEPT !.stakes = Without(w.stakes, x)]
         IN  WorldOK(r) /\ Money(r) = Money(w) /\ r.stakes = Without(w.stakes, x)
<1> DEFINE f == Without(w.stakes, x)
           r == [w EXCEPT !.stakes = f]
<1>1. w \in Worlds /\ StakesKnown(w)
  BY DEF WorldOK
<1>2. PICK D \in SUBSET Ids : w.stakes \in [D -> StakeRec]
  BY <1>1 DEF Worlds, StakeMaps
<1>3. /\ f \in [D \ {x} -> StakeRec] /\ D \ {x} \in SUBSET Ids /\ OthersKept(w.stakes, f, x)
  BY <1>2, WithoutKey
<1> HIDE DEF f
<1>4. /\ r \in Worlds /\ r.pools = w.pools /\ r.stakes = f /\ r.routed = w.routed
      /\ r.releases = w.releases
  <2>1. f \in StakeMaps
    BY <1>3 DEF StakeMaps
  <2> QED BY <1>1, <2>1, SetStakes
<1> HIDE DEF r
<1>5. DOMAIN r.stakes = D \ {x} /\ DOMAIN w.stakes = D
  BY <1>2, <1>3, <1>4
<1>6. StakesKnown(r)
  BY <1>1, <1>4, <1>5 DEF StakesKnown
<1>7. ASSUME NEW y \in Ids, NEW p \in PoolIds
      PROVE  /\ In(r, y, p) <=> In(w, y, p)
             /\ In(w, y, p) => /\ r.stakes[y].amount = w.stakes[y].amount
                              /\ Registration(r, y, p) = Registration(w, y, p)
  <2>1. CASE y = x
    BY <1>5, <2>1 DEF In, Exists, RegisteredIn, HasRegistration, NoRegistrations
  <2>2. CASE y # x
    <3>1. /\ y \in DOMAIN r.stakes <=> y \in DOMAIN w.stakes
          /\ y \in DOMAIN w.stakes => r.stakes[y] = w.stakes[y]
      BY <1>3, <1>4, <2>2, OtherKept
    <3> QED BY <3>1 DEF In, Exists, RegisteredIn, HasRegistration, Registration
  <2> QED BY <2>1, <2>2
<1>8. WorldOK(r) /\ Money(r) = Money(w)
  BY <1>4, <1>6, <1>7, StakesMoved
<1> QED BY <1>4, <1>8 DEF r, f

LEMMA DestroyStakeKeeps ==
  ASSUME ConstantsAssumption, NEW w, WorldOK(w), NEW x, Exists(w, x)
  PROVE  Good(w, DestroyStake(w, x), 0)
<1> DEFINE r == [w EXCEPT !.stakes = Without(w.stakes, x)]
<1>1. CASE w.stakes[x].registrations # NoRegistrations
  BY <1>1, FailedGood DEF DestroyStake, NoRegistrations
<1>2. CASE w.stakes[x].registrations = NoRegistrations
  <2>1. DestroyStake(w, x) = Returns(r, w.stakes[x].amount)
    BY <1>2 DEF DestroyStake, NoRegistrations
  <2>2. WorldOK(r) /\ Money(r) = Money(w)
    BY <1>2, StakeRemoved
  <2>3. Money(w) = Money(w) + 0
    BY MoneyTyped DEF WorldOK
  <2> HIDE DEF r
  <2> QED BY <2>1, <2>2, <2>3, ReturnsGood
<1> QED BY <1>1, <1>2

\* A route fixes the parent and the pool of one routed stake.
LEMMA RouteAdded ==
  ASSUME NEW w, WorldOK(w), NEW r \in RoutedIds, NEW parent \in Parents, NEW d \in PoolIds
  PROVE  LET after == [w EXCEPT !.routed = With(@, r, [parent |-> parent, pool |-> d])]
         IN  /\ WorldOK(after) /\ Money(after) = Money(w) /\ after.stakes = w.stakes
             /\ r \in DOMAIN after.routed
<1> DEFINE Route == [parent : Parents, pool : PoolIds]
           route == [parent |-> parent, pool |-> d]
           f == With(w.routed, r, route)
           after == [w EXCEPT !.routed = f]
<1>1. w \in Worlds /\ StakesKnown(w)
  BY DEF WorldOK
<1>2. PICK D \in SUBSET RoutedIds : w.routed \in [D -> Route]
  BY <1>1 DEF Worlds, RouteMaps
<1>3. f \in [D \cup {r} -> Route] /\ D \cup {r} \in SUBSET RoutedIds
  <2> DEFINE routed == w.routed
  <2>1. routed \in [D -> Route] /\ f = With(routed, r, route) /\ route \in Route
    BY <1>2
  <2> HIDE DEF routed, f, Route, route
  <2>2. /\ With(routed, r, route) \in [D \cup {r} -> Route] /\ D \cup {r} \in SUBSET RoutedIds
    BY <2>1, WithKey
  <2> QED BY <2>1, <2>2
<1>4. f \in RouteMaps
  BY <1>3 DEF RouteMaps
<1> HIDE DEF f
<1>5. /\ after \in Worlds /\ after.pools = w.pools /\ after.stakes = w.stakes
      /\ after.routed = f /\ after.releases = w.releases
  BY <1>1, <1>4 DEF Worlds
<1> HIDE DEF after
<1>6. StakesKnown(after)
  BY <1>1, <1>2, <1>3, <1>5 DEF StakesKnown
<1>7. \A x \in Ids, p \in PoolIds :
            /\ In(after, x, p) <=> In(w, x, p)
            /\ In(w, x, p) => /\ after.stakes[x].amount = w.stakes[x].amount
                             /\ Registration(after, x, p) = Registration(w, x, p)
  BY <1>5 DEF In, Exists, RegisteredIn, HasRegistration, Registration
<1>8. WorldOK(after) /\ Money(after) = Money(w)
  BY <1>5, <1>6, <1>7, StakesMoved
<1>9. r \in DOMAIN after.routed
  BY <1>3, <1>5
<1> QED BY <1>5, <1>8, <1>9 DEF after, f, route

LEMMA RoutedTyped ==
  ASSUME NEW w, WorldOK(w), NEW r \in DOMAIN w.routed
  PROVE  r \in RoutedIds /\ r \in Ids /\ w.routed[r].pool \in PoolIds
<1>1. PICK D \in SUBSET RoutedIds : w.routed \in [D -> [parent : Parents, pool : PoolIds]]
  BY DEF WorldOK, Worlds, RouteMaps
<1> QED BY <1>1 DEF Ids

LEMMA RoutedNewKeeps ==
  ASSUME ConstantsAssumption, NEW w, WorldOK(w), NEW r \in RoutedIds, r \notin DOMAIN w.routed,
         NEW parent \in Parents, NEW n \in Nat, NEW d \in PoolIds
  PROVE  Good(w, RoutedNew(w, r, parent, n, d), 0)
<1> DEFINE after == [w EXCEPT !.routed = With(@, r, [parent |-> parent, pool |-> d])]
<1>1. /\ WorldOK(after) /\ Money(after) = Money(w) /\ after.stakes = w.stakes
      /\ r \in DOMAIN after.routed
  BY RouteAdded
<1>2. RoutedNew(w, r, parent, n, d) = NewStake(after, r, n)
  BY DEF RoutedNew
<1> HIDE DEF after
<1>3. ~Exists(after, r)
  <2>1. r \notin StakeIds
    BY DEF ConstantsAssumption
  <2> QED BY <1>1, <2>1 DEF WorldOK, StakesKnown, Exists
<1>4. Good(after, NewStake(after, r, n), 0)
  BY <1>1, <1>3, NewStakeKeeps DEF Ids
<1> QED BY <1>1, <1>2, <1>4 DEF Good

LEMMA RoutedRegisterKeeps ==
  ASSUME ConstantsAssumption, NEW w, WorldOK(w), NEW r, NEW parent, NEW p \in PoolIds
  PROVE  Good(w, RoutedRegister(w, r, parent, p), 0)
<1>1. CASE w.routed[r].parent # parent \/ ~Exists(w, r)
  BY <1>1, FailedGood DEF RoutedRegister, AsParent, OnPosition
<1>2. CASE w.routed[r].parent = parent /\ Exists(w, r)
  <2>1. RoutedRegister(w, r, parent, p) = Register(w, p, r)
    BY <1>2 DEF RoutedRegister, AsParent, OnPosition
  <2> QED BY <1>2, <2>1, RegisterKeeps
<1> QED BY <1>1, <1>2

LEMMA RoutedUnregisterKeeps ==
  ASSUME ConstantsAssumption, NEW w, WorldOK(w), NEW r, NEW parent, NEW p \in PoolIds
  PROVE  Good(w, RoutedUnregister(w, r, parent, p), 0)
<1>1. CASE w.routed[r].parent # parent \/ ~Exists(w, r)
  BY <1>1, FailedGood DEF RoutedUnregister, AsParent, OnPosition
<1>2. CASE w.routed[r].parent = parent /\ Exists(w, r)
  <2>1. RoutedUnregister(w, r, parent, p) = Unregister(w, p, r)
    BY <1>2 DEF RoutedUnregister, AsParent, OnPosition
  <2> QED BY <1>2, <2>1, UnregisterKeeps
<1> QED BY <1>1, <1>2

\* Taken out first and then destroyed: the stake is gone once.
LEMMA RoutedUnstakeKeeps ==
  ASSUME ConstantsAssumption, NEW w, WorldOK(w), NEW r, NEW parent
  PROVE  Good(w, RoutedUnstake(w, r, parent), 0)
<1> DEFINE destroyed == DestroyStake(w, r)
           stakes == Without(w.stakes, r)
           after == [w EXCEPT !.stakes = stakes]
           unstaked == [destroyed EXCEPT !.world.stakes = Without(@, r)]
<1>1. CASE w.routed[r].parent # parent \/ ~Exists(w, r)
  BY <1>1, FailedGood DEF RoutedUnstake, AsParent, OnPosition
<1>2. CASE w.routed[r].parent = parent /\ Exists(w, r)
  <2>1. RoutedUnstake(w, r, parent) = unstaked
    BY <1>2 DEF RoutedUnstake, AsParent, OnPosition
  <2>2. CASE w.stakes[r].registrations # NoRegistrations
    <3>1. destroyed = Failed(w, "stake", StakeAbort.PoolsRegistered)
      BY <2>2 DEF DestroyStake, NoRegistrations
    <3>2. unstaked.failed
      <4> HIDE DEF destroyed
      <4> QED BY <3>1 DEF Failed
    <3> QED BY <2>1, <3>2 DEF Good
  <2>3. CASE w.stakes[r].registrations = NoRegistrations
    <3>1. destroyed = Returns(after, w.stakes[r].amount)
      BY <2>3 DEF DestroyStake, NoRegistrations
    <3>2. WorldOK(after) /\ Money(after) = Money(w) /\ after.stakes = stakes
      BY <1>2, <2>3, StakeRemoved
    <3>3. Without(stakes, r) = stakes
      BY DEF Without, Restrict
    <3>4. after \in Worlds /\ Money(w) = Money(w) + 0
      BY <3>2, MoneyTyped DEF WorldOK
    <3> HIDE DEF destroyed, stakes, after
    <3>5. unstaked.world = after
      <4>1. unstaked.world = [after EXCEPT !.stakes = Without(after.stakes, r)]
        BY <3>1 DEF Returns
      <4>2. Without(after.stakes, r) = after.stakes
        BY <3>2, <3>3
      <4> QED BY <3>4, <4>1, <4>2 DEF Worlds
    <3> QED BY <2>1, <3>2, <3>4, <3>5 DEF Good
  <2> QED BY <2>2, <2>3
<1> QED BY <1>1, <1>2

LEMMA RoutedRestakeKeeps ==
  ASSUME ConstantsAssumption, NEW w, WorldOK(w), NEW r \in DOMAIN w.routed, NEW parent, NEW n \in Nat
  PROVE  Good(w, RoutedRestake(w, r, parent, n), 0)
<1>1. CASE w.routed[r].parent # parent \/ Exists(w, r)
  BY <1>1, FailedGood DEF RoutedRestake, AsParent
<1>2. CASE w.routed[r].parent = parent /\ ~Exists(w, r)
  <2>1. RoutedRestake(w, r, parent, n) = NewStake(w, r, n)
    BY <1>2 DEF RoutedRestake, AsParent
  <2>2. r \in Ids
    BY RoutedTyped
  <2> QED BY <1>2, <2>1, <2>2, NewStakeKeeps
<1> QED BY <1>1, <1>2

LEMMA ForwardKeeps ==
  ASSUME ConstantsAssumption, NEW w, WorldOK(w), NEW d \in PoolIds, NEW v \in Nat
  PROVE  Good(w, Forward(w, d, v), v)
<1> DEFINE parked == w.pools[d].parked + v
           r == [w EXCEPT !.pools[d].parked = parked]
<1>1. w \in Worlds /\ Money(w) \in Int /\ w.pools[d].parked \in Nat
  BY PoolTyped, MoneyTyped DEF WorldOK
<1>2. CASE v = 0
  <2>1. Forward(w, d, v) = Done(w) /\ Money(w) = Money(w) + v
    BY <1>1, <1>2 DEF Forward
  <2> QED BY <2>1, ReturnsGood
<1>3. CASE v # 0 /\ w.pools[d].staked_shares > 0
  BY <1>3, DepositKeeps DEF Forward
<1>4. CASE v # 0 /\ ~(w.pools[d].staked_shares > 0) /\ parked > MaxU64
  BY <1>4, FailedGood DEF Forward
<1>5. CASE v # 0 /\ ~(w.pools[d].staked_shares > 0) /\ ~(parked > MaxU64)
  <2>1. Forward(w, d, v) = Done(r)
    BY <1>5 DEF Forward
  <2>2. parked \in Nat /\ parked - w.pools[d].parked = v
    BY <1>1
  <2> HIDE DEF parked
  <2>3. WorldOK(r) /\ Money(r) = Money(w) + (parked - w.pools[d].parked)
    BY <2>2, ParkedKeeps
  <2> HIDE DEF r
  <2>4. Money(r) = Money(w) + v
    BY <2>2, <2>3
  <2> QED BY <2>1, <2>3, <2>4, ReturnsGood
<1> QED BY <1>2, <1>3, <1>4, <1>5

\* What the claim takes out of one pool is in the other when the sweep succeeds.
LEMMA RoutedSweepKeeps ==
  ASSUME ConstantsAssumption, NEW w, WorldOK(w), NEW r \in DOMAIN w.routed, NEW p \in PoolIds
  PROVE  Good(w, RoutedSweep(w, r, p), 0)
<1> DEFINE d == w.routed[r].pool
           claim == Claim(w, p, r)
           forward == Forward(claim.world, d, claim.value)
<1>1. CASE d = p \/ ~Exists(w, r)
  BY <1>1, FailedGood DEF RoutedSweep, OnPosition
<1>2. CASE d # p /\ Exists(w, r)
  <2>1. RoutedSweep(w, r, p) = IF claim.failed THEN claim ELSE forward
    BY <1>2 DEF RoutedSweep, OnPosition, AndThen
  <2>2. d \in PoolIds /\ Money(w) \in Int
    BY RoutedTyped, MoneyTyped DEF WorldOK
  <2>3. (~claim.failed => claim.value \in Nat) /\ Good(w, claim, -claim.value)
    BY <1>2, ClaimKeeps
  <2> HIDE DEF claim, d
  <2>4. CASE claim.failed
    BY <2>1, <2>4 DEF Good
  <2>5. CASE ~claim.failed
    <3>1. /\ claim.value \in Nat /\ WorldOK(claim.world)
          /\ Money(claim.world) = Money(w) + (-claim.value)
      BY <2>3, <2>5 DEF Good
    <3>2. Good(claim.world, forward, claim.value)
      BY <2>2, <3>1, ForwardKeeps
    <3>3. Money(claim.world) + claim.value = Money(w) + 0
      BY <2>2, <3>1
    <3> HIDE DEF forward
    <3>4. Good(w, forward, 0)
      BY <3>2, <3>3 DEF Good
    <3> QED BY <2>1, <2>5, <3>4
  <2> QED BY <2>4, <2>5
<1> QED BY <1>1, <1>2

--------------------------------------------------------------------------------
(* distributor.rs and the releases *)

LEMMA TotalIsSum == ASSUME NEW s PROVE Total(s) = SumFunction(s)
BY DEF Total, SumFunction, SumFunctionOnSet, FoldFunction

\* The floored parts of a total leave less than one unit per track.
LEMMA DistributionParts ==
  ASSUME ConstantsAssumption, NEW splits \in Tracklists, NEW total \in Nat
  PROVE  /\ Total(Distribution(total, splits)) \in Nat
         /\ total - Total(Distribution(total, splits)) \in 0..(Cardinality(DOMAIN splits) - 1)
<1> DEFINE S == DOMAIN splits
           scaled == [i \in S |-> total * splits[i]]
<1>1. IsFiniteSet(S) /\ splits \in [S -> Nat] /\ BPS \in Nat /\ BPS > 0
  BY DEF ConstantsAssumption, Tracklists
<1>2. SumFunction(splits) = BPS
  BY TotalIsSum DEF Tracklists
<1> HIDE DEF S
<1>3. splits \in [S -> Int]
  BY <1>1
<1>4. S # {}
  <2> SUFFICES ASSUME S = {} PROVE FALSE
    OBVIOUS
  <2>1. \A i \in S : splits[i] = 0
    OBVIOUS
  <2>2. SumFunction(splits) = 0
    BY <1>1, <1>3, <2>1, SumZero
  <2> QED BY <1>1, <1>2, <2>2
<1>5. SumFunction(scaled) = BPS * total
  <2>1. SumFunction(scaled) = total * SumFunction(splits)
    BY <1>1, <1>3, SumScale
  <2>2. total * BPS = BPS * total
    BY <1>1
  <2> QED BY <1>2, <2>1, <2>2
<1>6. scaled \in [S -> Nat]
  BY <1>1
<1>7. Total(Distribution(total, splits)) = SumFunction([i \in S |-> scaled[i] \div BPS])
  <2>1. Distribution(total, splits) = [i \in S |-> scaled[i] \div BPS]
    BY DEF Distribution, S
  <2> QED BY <2>1, TotalIsSum
<1> HIDE DEF scaled
<1>8. /\ SumFunction([i \in S |-> scaled[i] \div BPS]) \in Nat
      /\ total - SumFunction([i \in S |-> scaled[i] \div BPS]) \in 0..(Cardinality(S) - 1)
  BY <1>1, <1>4, <1>5, <1>6, RoundedParts
<1> QED BY <1>7, <1>8 DEF S

SetReleases(w, f) == [w EXCEPT !.releases = f]

\* A release changes its balance by d; no pool or stake moves.
LEMMA ReleasesKeep ==
  ASSUME ConstantsAssumption, NEW w, WorldOK(w), NEW f \in ReleaseMaps, NEW x \in DOMAIN f,
         NEW d \in Int, OthersKept(w.releases, f, x),
         f[x].balance = (IF x \in DOMAIN w.releases THEN w.releases[x].balance ELSE 0) + d
  PROVE  WorldOK(SetReleases(w, f)) /\ Money(SetReleases(w, f)) = Money(w) + d
<1> DEFINE r == SetReleases(w, f)
<1>1. w \in Worlds /\ StakesKnown(w) /\ \A p \in PoolIds : ViewOK(w, p)
  BY DEF WorldOK
<1>2. /\ r \in Worlds /\ r.pools = w.pools /\ r.stakes = w.stakes /\ r.routed = w.routed
      /\ r.releases = f
  BY <1>1 DEF Worlds, SetReleases
<1> HIDE DEF r
<1>3. ASSUME NEW p \in PoolIds PROVE ViewOK(r, p)
  <2>1. ViewOK(w, p) /\ r.pools[p] = w.pools[p]
    BY <1>1, <1>2
  <2>2. \A y \in Ids : In(r, y, p) <=> In(w, y, p)
    BY <1>2 DEF In, Exists, RegisteredIn, HasRegistration, Registration
  <2>3. \A y \in Ids : In(w, y, p) => /\ r.stakes[y].amount = w.stakes[y].amount
                                      /\ Registration(r, y, p) = Registration(w, y, p)
    BY <1>2 DEF Registration
  <2> QED BY <2>1, <2>2, <2>3, SameView
<1>4. WorldOK(r)
  BY <1>1, <1>2, <1>3 DEF WorldOK, StakesKnown
<1>5. /\ ReleaseMoney(w) \in [ReleaseIds -> Int] /\ ReleaseMoney(r) \in [ReleaseIds -> Int]
      /\ IsFiniteSet(ReleaseIds) /\ SumFunction(ReleaseMoney(w)) \in Int
      /\ SumFunction(PoolMoney(w)) \in Int
  BY <1>1, <1>2, MoneyTyped
<1>6. x \in ReleaseIds
  <2>1. PICK D \in SUBSET ReleaseIds : f \in [D -> ReleaseRec]
    BY DEF ReleaseMaps
  <2> QED BY <2>1
<1>7. ASSUME NEW y \in ReleaseIds, y # x PROVE ReleaseMoney(r)[y] = ReleaseMoney(w)[y]
  <2>1. /\ y \in DOMAIN f <=> y \in DOMAIN w.releases
        /\ y \in DOMAIN w.releases => f[y] = w.releases[y]
    BY <1>7, OtherKept
  <2> QED BY <1>2, <2>1 DEF ReleaseMoney
<1>8. ReleaseMoney(r)[x] = ReleaseMoney(w)[x] + d /\ ReleaseMoney(w)[x] \in Int
  <2>1. ReleaseMoney(r)[x] = f[x].balance
    BY <1>2, <1>6 DEF ReleaseMoney
  <2>2. ReleaseMoney(w)[x] = IF x \in DOMAIN w.releases THEN w.releases[x].balance ELSE 0
    BY <1>6 DEF ReleaseMoney
  <2> QED BY <1>5, <1>6, <2>1, <2>2
<1>9. SumFunction(ReleaseMoney(r))
        = SumFunction(ReleaseMoney(w)) - ReleaseMoney(w)[x] + ReleaseMoney(r)[x]
  BY <1>5, <1>6, <1>7, SumUpdate
<1>10. PoolMoney(r) = PoolMoney(w)
  BY <1>2 DEF PoolMoney
<1>11. Money(r) = Money(w) + d
  BY <1>5, <1>8, <1>9, <1>10 DEF Money
<1> QED BY <1>4, <1>11 DEF r

LEMMA ReleaseTyped ==
  ASSUME NEW w, WorldOK(w), NEW x \in DOMAIN w.releases
  PROVE  /\ x \in ReleaseIds /\ w.releases[x] \in ReleaseRec /\ w.releases[x].balance \in Nat
         /\ w.releases[x].splits \in Tracklists
<1>1. PICK D \in SUBSET ReleaseIds : w.releases \in [D -> ReleaseRec]
  BY DEF WorldOK, Worlds, ReleaseMaps
<1> QED BY <1>1 DEF ReleaseRec

LEMMA ReleaseSet ==
  ASSUME ConstantsAssumption, NEW w, WorldOK(w), NEW x \in DOMAIN w.releases, NEW b \in Nat
  PROVE  LET r == [w EXCEPT !.releases[x].balance = b]
         IN  WorldOK(r) /\ Money(r) = Money(w) + (b - w.releases[x].balance)
<1> DEFINE e == [w.releases[x] EXCEPT !.balance = b]
           f == [w.releases EXCEPT ![x] = e]
<1>1. PICK D \in SUBSET ReleaseIds : w.releases \in [D -> ReleaseRec]
  BY DEF WorldOK, Worlds, ReleaseMaps
<1>2. e \in ReleaseRec /\ e.balance = b
  BY ReleaseTyped DEF ReleaseRec
<1>3. [w EXCEPT !.releases[x].balance = b] = SetReleases(w, f)
  BY DEF SetReleases
<1> HIDE DEF e
<1>4. f \in [D -> ReleaseRec] /\ f[x] = e /\ OthersKept(w.releases, f, x) /\ x \in DOMAIN f
  BY <1>1, <1>2 DEF OthersKept
<1>5. f \in ReleaseMaps
  BY <1>4 DEF ReleaseMaps
<1> HIDE DEF f
<1>6. w.releases[x].balance \in Nat
  BY ReleaseTyped
<1> DEFINE a == w.releases[x].balance
           d == b - a
<1>7. d \in Int /\ f[x].balance = a + d /\ a = IF x \in DOMAIN w.releases THEN w.releases[x].balance ELSE 0
  BY <1>2, <1>4, <1>6
<1> HIDE DEF d
<1>8. WorldOK(SetReleases(w, f)) /\ Money(SetReleases(w, f)) = Money(w) + d
  BY <1>4, <1>5, <1>7, ReleasesKeep
<1> QED BY <1>3, <1>8 DEF d

LEMMA ReleaseAdded ==
  ASSUME NEW D \in SUBSET ReleaseIds, NEW f \in [D -> ReleaseRec], NEW x \in ReleaseIds,
         NEW e \in ReleaseRec
  PROVE  /\ With(f, x, e) \in [D \cup {x} -> ReleaseRec] /\ D \cup {x} \in SUBSET ReleaseIds
         /\ With(f, x, e)[x] = e /\ OthersKept(f, With(f, x, e), x)
<1>1. /\ With(f, x, e) \in [D \cup {x} -> ReleaseRec] /\ With(f, x, e)[x] = e
      /\ OthersKept(f, With(f, x, e), x)
  BY WithKey
<1> QED BY <1>1

LEMMA ReleaseNewKeeps ==
  ASSUME ConstantsAssumption, NEW w, WorldOK(w), NEW x \in ReleaseIds, x \notin DOMAIN w.releases,
         NEW splits \in Splits
  PROVE  Good(w, ReleaseNew(w, x, splits), 0)
<1> DEFINE e == [splits |-> splits, balance |-> 0]
           f == With(w.releases, x, e)
<1>1. CASE Total(splits) # BPS
  BY <1>1, FailedGood DEF ReleaseNew
<1>2. CASE Total(splits) = BPS
  <2>1. ReleaseNew(w, x, splits) = Done(SetReleases(w, f))
    BY <1>2 DEF ReleaseNew, SetReleases
  <2>2. e \in ReleaseRec /\ e.balance = 0
    BY <1>2 DEF ReleaseRec, Tracklists
  <2>3. PICK D \in SUBSET ReleaseIds : w.releases \in [D -> ReleaseRec]
    BY DEF WorldOK, Worlds, ReleaseMaps
  <2> HIDE DEF e
  <2>4. /\ f \in [D \cup {x} -> ReleaseRec] /\ D \cup {x} \in SUBSET ReleaseIds
        /\ f[x] = e /\ OthersKept(w.releases, f, x)
    <3> DEFINE old == w.releases
    <3>1. old \in [D -> ReleaseRec] /\ f = With(old, x, e) /\ e \in ReleaseRec
      BY <2>2, <2>3
    <3> HIDE DEF old, f
    <3>2. /\ With(old, x, e) \in [D \cup {x} -> ReleaseRec] /\ D \cup {x} \in SUBSET ReleaseIds
          /\ With(old, x, e)[x] = e /\ OthersKept(old, With(old, x, e), x)
      BY <3>1, ReleaseAdded
    <3> QED BY <3>1, <3>2 DEF old
  <2> HIDE DEF f
  <2>5. f \in ReleaseMaps /\ x \in DOMAIN f
    BY <2>4 DEF ReleaseMaps
  <2> DEFINE d == 0
  <2>6. /\ d \in Int
        /\ f[x].balance = (IF x \in DOMAIN w.releases THEN w.releases[x].balance ELSE 0) + d
    BY <2>2, <2>4
  <2> HIDE DEF d
  <2>7. WorldOK(SetReleases(w, f)) /\ Money(SetReleases(w, f)) = Money(w) + d
    BY <2>4, <2>5, <2>6, ReleasesKeep
  <2>8. Good(w, Done(SetReleases(w, f)), d)
    BY <2>7, ReturnsGood
  <2> QED BY <2>1, <2>8 DEF d
<1> QED BY <1>1, <1>2

LEMMA ReleaseFundKeeps ==
  ASSUME ConstantsAssumption, NEW w, WorldOK(w), NEW x \in DOMAIN w.releases, NEW v \in Nat
  PROVE  Good(w, ReleaseFund(w, x, v), v)
<1> DEFINE b == w.releases[x].balance + v
           r == [w EXCEPT !.releases[x].balance = b]
<1>1. CASE b > MaxU64
  BY <1>1, FailedGood DEF ReleaseFund
<1>2. CASE ~(b > MaxU64)
  <2>1. ReleaseFund(w, x, v) = Done(r)
    BY <1>2 DEF ReleaseFund
  <2>2. b \in Nat /\ b - w.releases[x].balance = v
    BY ReleaseTyped
  <2> HIDE DEF b
  <2>3. WorldOK(r) /\ Money(r) = Money(w) + (b - w.releases[x].balance)
    BY <2>2, ReleaseSet
  <2> HIDE DEF r
  <2> QED BY <2>1, <2>2, <2>3, ReturnsGood
<1> QED BY <1>1, <1>2

\* A distribution never fails, and sends all but less than a unit per track.
LEMMA DistributeKeeps ==
  ASSUME ConstantsAssumption, NEW w, WorldOK(w), NEW x \in DOMAIN w.releases
  PROVE  LET result == ReleaseDistribute(w, x)
             sent == IF result.value > 0 THEN result.value ELSE 0
         IN  /\ ~result.failed /\ sent \in Nat /\ Good(w, result, -sent)
             /\ w.releases[x].balance > 0 =>
                  result.world.releases[x].balance < Cardinality(DOMAIN w.releases[x].splits)
<1> DEFINE total == w.releases[x].balance
           sent == Total(Distribution(total, w.releases[x].splits))
           left == total - sent
           tracks == Cardinality(DOMAIN w.releases[x].splits)
           r == [w EXCEPT !.releases[x].balance = left]
           result == ReleaseDistribute(w, x)
<1>1. total \in Nat /\ w.releases[x].splits \in Tracklists /\ Money(w) \in Int /\ w \in Worlds
  BY ReleaseTyped, MoneyTyped DEF WorldOK
<1>2. sent \in Nat /\ left \in 0..(tracks - 1)
  <2> HIDE DEF total
  <2> QED BY <1>1, DistributionParts
<1>3. tracks \in Nat
  BY <1>1, FS_CardinalityType DEF ConstantsAssumption, Tracklists
<1> HIDE DEF sent, tracks
<1>4. left \in Nat /\ left < tracks /\ ~(sent > total) /\ left - total = -sent
  BY <1>1, <1>2, <1>3
<1>5. CASE total = 0
  <2>1. result = Done(w)
    BY <1>5 DEF ReleaseDistribute
  <2>2. ~result.failed /\ result.value = -1
    BY <2>1 DEF Done, Returns, NoValue
  <2>3. ~(result.value > 0)
    BY <2>2
  <2>4. Money(w) = Money(w) + (-0)
    BY <1>1
  <2> HIDE DEF result
  <2>5. Good(w, result, -0)
    BY <2>1, <2>4, ReturnsGood
  <2> QED BY <1>5, <2>2, <2>3, <2>5 DEF result
<1>6. CASE total # 0
  <2>1. result = Returns(r, sent)
    BY <1>4, <1>6 DEF ReleaseDistribute, sent
  <2> HIDE DEF left
  <2>2. WorldOK(r) /\ Money(r) = Money(w) + (left - total)
    BY <1>4, ReleaseSet
  <2>3. r.releases[x].balance = left
    BY <1>1 DEF Worlds
  <2> HIDE DEF r, result, total
  <2>4. ~result.failed /\ result.value = sent /\ result.world = r
    BY <2>1 DEF Returns
  <2>5. Good(w, result, -sent)
    BY <1>4, <2>1, <2>2, ReturnsGood
  <2>6. (IF result.value > 0 THEN result.value ELSE 0) = sent
    BY <1>2, <2>4
  <2>7. result.world.releases[x].balance < tracks
    BY <1>4, <2>3, <2>4
  <2> QED BY <1>2, <2>4, <2>5, <2>6, <2>7 DEF result, tracks
<1> QED BY <1>5, <1>6

--------------------------------------------------------------------------------
(* world.rs *)

\* What a successful op brings in and takes out of the world.
Incoming(op) == IF op.op \in {"deposit", "release_fund"} THEN op.value ELSE 0
Outgoing(op, result) ==
  IF op.op \in {"claim", "release_distribute"} /\ result.value > 0 THEN result.value ELSE 0

Kept(w, op) ==
  LET result == apply_inner(w, op)
  IN  ~result.failed => /\ Outgoing(op, result) \in Nat
                        /\ WorldOK(result.world)
                        /\ Money(result.world) = Money(w) + (Incoming(op) - Outgoing(op, result))

Neutral(op) == op.op \notin {"deposit", "release_fund", "claim", "release_distribute"}

LEMMA NeutralKept ==
  ASSUME NEW w, NEW op, Neutral(op), Good(w, apply_inner(w, op), 0)
  PROVE  Kept(w, op)
<1>1. /\ Incoming(op) = 0 /\ Outgoing(op, apply_inner(w, op)) = 0
  BY DEF Neutral, Incoming, Outgoing
<1>2. Incoming(op) - Outgoing(op, apply_inner(w, op)) = 0
  BY <1>1
<1> QED BY <1>1, <1>2 DEF Good, Kept

LEMMA WrongIdKept == ASSUME NEW w, NEW op, NamesWrongId(w, op) PROVE Kept(w, op)
<1>1. apply_inner(w, op) = Malformed(w)
  BY DEF apply_inner
<1>2. Malformed(w).failed
  BY FailedGood
<1> QED BY <1>1, <1>2 DEF Kept

LEMMA PoolOpKept ==
  ASSUME ConstantsAssumption, NEW w, WorldOK(w), NEW op \in PoolOps
  PROVE  Kept(w, op)
<1>1. CASE op \in [op : {"deposit"}, pool : PoolIds, value : 0..MaxDeposits]
  <2>1. op.op = "deposit" /\ op.pool \in PoolIds /\ op.value \in Nat
    BY <1>1 DEF ConstantsAssumption
  <2>2. apply_inner(w, op) = Deposit(w, op.pool, op.value)
    BY <2>1 DEF apply_inner, NamesWrongId
  <2>3. Good(w, apply_inner(w, op), op.value)
    BY <2>1, <2>2, DepositKeeps
  <2>4. Incoming(op) = op.value /\ Outgoing(op, apply_inner(w, op)) = 0
    BY <2>1 DEF Incoming, Outgoing
  <2>5. Incoming(op) - Outgoing(op, apply_inner(w, op)) = op.value
    BY <2>1, <2>4
  <2> QED BY <2>3, <2>4, <2>5 DEF Good, Kept
<1>2. CASE op \in [op : {"settle"}, pool : PoolIds]
  <2>1. op.op = "settle" /\ op.pool \in PoolIds
    BY <1>2
  <2>2. apply_inner(w, op) = Settle(w, op.pool)
    BY <2>1 DEF apply_inner, NamesWrongId
  <2> QED BY <2>1, <2>2, SettleKeeps, NeutralKept DEF Neutral
<1> QED BY <1>1, <1>2 DEF PoolOps

LEMMA StakeOpKept ==
  ASSUME ConstantsAssumption, NEW w, WorldOK(w), NEW op \in StakeOps, ~NamesWrongId(w, op)
  PROVE  Kept(w, op)
<1>1. CASE op \in [op : {"new_stake"}, stake : StakeIds, amount : Amounts]
  <2>1. op.op = "new_stake" /\ op.stake \in StakeIds /\ op.stake \in Ids /\ op.amount \in Nat
    BY <1>1 DEF ConstantsAssumption, Ids
  <2>2. ~Exists(w, op.stake)
    BY <2>1 DEF NamesWrongId
  <2>3. apply_inner(w, op) = NewStake(w, op.stake, op.amount)
    BY <2>1 DEF apply_inner
  <2> QED BY <2>1, <2>2, <2>3, NewStakeKeeps, NeutralKept DEF Neutral
<1>2. CASE op \in [op : {"destroy_stake"}, stake : StakeIds]
  <2>1. op.op = "destroy_stake"
    BY <1>2
  <2>2. Exists(w, op.stake)
    BY <2>1 DEF NamesWrongId
  <2>3. apply_inner(w, op) = DestroyStake(w, op.stake)
    BY <2>1 DEF apply_inner
  <2> QED BY <2>1, <2>2, <2>3, DestroyStakeKeeps, NeutralKept DEF Neutral
<1>3. CASE op \in [op : {"register", "unregister", "claim", "pending"},
                   pool : PoolIds, stake : StakeIds]
  <2>1. /\ op.op \in {"register", "unregister", "claim", "pending"} /\ op.pool \in PoolIds
    BY <1>3
  <2>2. Exists(w, op.stake)
    BY <2>1 DEF NamesWrongId
  <2>3. CASE op.op = "register"
    <3>1. apply_inner(w, op) = Register(w, op.pool, op.stake)
      BY <2>3 DEF apply_inner
    <3> QED BY <2>1, <2>2, <2>3, <3>1, RegisterKeeps, NeutralKept DEF Neutral
  <2>4. CASE op.op = "unregister"
    <3>1. apply_inner(w, op) = Unregister(w, op.pool, op.stake)
      BY <2>4 DEF apply_inner
    <3> QED BY <2>1, <2>2, <2>4, <3>1, UnregisterKeeps, NeutralKept DEF Neutral
  <2>5. CASE op.op = "claim"
    <3> DEFINE result == Claim(w, op.pool, op.stake)
    <3>1. apply_inner(w, op) = result
      BY <2>5 DEF apply_inner
    <3>2. (~result.failed => result.value \in Nat) /\ Good(w, result, -result.value)
      BY <2>1, <2>2, ClaimKeeps
    <3> HIDE DEF result
    <3>3. CASE result.failed
      BY <3>1, <3>3 DEF Kept
    <3>4. CASE ~result.failed
      <4>1. Incoming(op) = 0 /\ Outgoing(op, result) = result.value
        BY <2>5, <3>2, <3>4 DEF Incoming, Outgoing
      <4>2. Incoming(op) - Outgoing(op, result) = -result.value
        BY <3>2, <3>4, <4>1
      <4> QED BY <3>1, <3>2, <3>4, <4>1, <4>2 DEF Good, Kept
    <3> QED BY <3>3, <3>4
  <2>6. CASE op.op = "pending"
    <3>1. apply_inner(w, op) = Returns(w, Pending(w, op.pool, op.stake))
      BY <2>6 DEF apply_inner
    <3>2. Money(w) = Money(w) + 0
      BY MoneyTyped DEF WorldOK
    <3> QED BY <2>6, <3>1, <3>2, ReturnsGood, NeutralKept DEF Neutral
  <2> QED BY <2>1, <2>3, <2>4, <2>5, <2>6
<1> QED BY <1>1, <1>2, <1>3 DEF StakeOps

LEMMA RoutedOpKept ==
  ASSUME ConstantsAssumption, NEW w, WorldOK(w), NEW op \in RoutedOps, ~NamesWrongId(w, op)
  PROVE  Kept(w, op)
<1>1. CASE op \in [op : {"routed_new"}, routed : RoutedIds, parent : Parents, amount : Amounts,
                   routed_pool : PoolIds]
  <2>1. /\ op.op = "routed_new" /\ op.routed \in RoutedIds /\ op.parent \in Parents
        /\ op.amount \in Nat /\ op.routed_pool \in PoolIds
    BY <1>1 DEF ConstantsAssumption
  <2>2. op.routed \notin DOMAIN w.routed
    BY <2>1 DEF NamesWrongId
  <2>3. apply_inner(w, op) = RoutedNew(w, op.routed, op.parent, op.amount, op.routed_pool)
    BY <2>1 DEF apply_inner
  <2> QED BY <2>1, <2>2, <2>3, RoutedNewKeeps, NeutralKept DEF Neutral
<1>2. CASE op \in [op : {"routed_register", "routed_unregister"}, routed : RoutedIds,
                   parent : Parents, stake_pool : PoolIds]
  <2>1. op.op \in {"routed_register", "routed_unregister"} /\ op.stake_pool \in PoolIds
    BY <1>2
  <2>2. CASE op.op = "routed_register"
    <3>1. apply_inner(w, op) = RoutedRegister(w, op.routed, op.parent, op.stake_pool)
      BY <2>2 DEF apply_inner
    <3> QED BY <2>1, <2>2, <3>1, RoutedRegisterKeeps, NeutralKept DEF Neutral
  <2>3. CASE op.op = "routed_unregister"
    <3>1. apply_inner(w, op) = RoutedUnregister(w, op.routed, op.parent, op.stake_pool)
      BY <2>3 DEF apply_inner
    <3> QED BY <2>1, <2>3, <3>1, RoutedUnregisterKeeps, NeutralKept DEF Neutral
  <2> QED BY <2>1, <2>2, <2>3
<1>3. CASE op \in [op : {"routed_unstake"}, routed : RoutedIds, parent : Parents]
  <2>1. op.op = "routed_unstake"
    BY <1>3
  <2>2. apply_inner(w, op) = RoutedUnstake(w, op.routed, op.parent)
    BY <2>1 DEF apply_inner
  <2> QED BY <2>1, <2>2, RoutedUnstakeKeeps, NeutralKept DEF Neutral
<1>4. CASE op \in [op : {"routed_restake"}, routed : RoutedIds, parent : Parents, amount : Amounts]
  <2>1. op.op = "routed_restake" /\ op.amount \in Nat
    BY <1>4 DEF ConstantsAssumption
  <2>2. op.routed \in DOMAIN w.routed
    BY <2>1 DEF NamesWrongId
  <2>3. apply_inner(w, op) = RoutedRestake(w, op.routed, op.parent, op.amount)
    BY <2>1 DEF apply_inner
  <2> QED BY <2>1, <2>2, <2>3, RoutedRestakeKeeps, NeutralKept DEF Neutral
<1>5. CASE op \in [op : {"routed_sweep"}, routed : RoutedIds, stake_pool : PoolIds]
  <2>1. op.op = "routed_sweep" /\ op.stake_pool \in PoolIds
    BY <1>5
  <2>2. op.routed \in DOMAIN w.routed
    BY <2>1 DEF NamesWrongId
  <2>3. apply_inner(w, op) = RoutedSweep(w, op.routed, op.stake_pool)
    BY <2>1 DEF apply_inner
  <2> QED BY <2>1, <2>2, <2>3, RoutedSweepKeeps, NeutralKept DEF Neutral
<1> QED BY <1>1, <1>2, <1>3, <1>4, <1>5 DEF RoutedOps

LEMMA ReleaseOpKept ==
  ASSUME ConstantsAssumption, NEW w, WorldOK(w), NEW op \in ReleaseOps, ~NamesWrongId(w, op)
  PROVE  Kept(w, op)
<1>1. CASE op \in [op : {"release_new"}, release : ReleaseIds, splits : Splits]
  <2>1. op.op = "release_new" /\ op.release \in ReleaseIds /\ op.splits \in Splits
    BY <1>1
  <2>2. op.release \notin DOMAIN w.releases
    BY <2>1 DEF NamesWrongId
  <2>3. apply_inner(w, op) = ReleaseNew(w, op.release, op.splits)
    BY <2>1 DEF apply_inner
  <2> QED BY <2>1, <2>2, <2>3, ReleaseNewKeeps, NeutralKept DEF Neutral
<1>2. CASE op \in [op : {"release_fund"}, release : ReleaseIds, value : 1..MaxDeposits]
  <2>1. op.op = "release_fund" /\ op.value \in Nat
    BY <1>2 DEF ConstantsAssumption
  <2>2. op.release \in DOMAIN w.releases
    BY <2>1 DEF NamesWrongId
  <2>3. apply_inner(w, op) = ReleaseFund(w, op.release, op.value)
    BY <2>1 DEF apply_inner
  <2>4. Good(w, apply_inner(w, op), op.value)
    BY <2>1, <2>2, <2>3, ReleaseFundKeeps
  <2>5. Incoming(op) = op.value /\ Outgoing(op, apply_inner(w, op)) = 0
    BY <2>1 DEF Incoming, Outgoing
  <2>6. Incoming(op) - Outgoing(op, apply_inner(w, op)) = op.value
    BY <2>1, <2>5
  <2> QED BY <2>4, <2>5, <2>6 DEF Good, Kept
<1>3. CASE op \in [op : {"release_distribute"}, release : ReleaseIds]
  <2> DEFINE result == ReleaseDistribute(w, op.release)
             sent == IF result.value > 0 THEN result.value ELSE 0
  <2>1. op.op = "release_distribute"
    BY <1>3
  <2>2. op.release \in DOMAIN w.releases
    BY <2>1 DEF NamesWrongId
  <2>3. apply_inner(w, op) = result
    BY <2>1 DEF apply_inner
  <2>4. sent \in Nat /\ Good(w, result, -sent)
    BY <2>2, DistributeKeeps
  <2> HIDE DEF result
  <2>5. Incoming(op) = 0 /\ Outgoing(op, result) = sent
    BY <2>1 DEF Incoming, Outgoing
  <2> HIDE DEF sent
  <2>6. Incoming(op) - Outgoing(op, result) = -sent
    BY <2>4, <2>5
  <2> QED BY <2>3, <2>4, <2>5, <2>6 DEF Good, Kept
<1> QED BY <1>1, <1>2, <1>3 DEF ReleaseOps

\* An op that succeeds keeps the checks, and moves what it says it moves.
LEMMA OpKept ==
  ASSUME ConstantsAssumption, NEW w, WorldOK(w),
         NEW op \in PoolOps \cup StakeOps \cup RoutedOps \cup ReleaseOps
  PROVE  Kept(w, op)
<1>1. CASE NamesWrongId(w, op)
  BY <1>1, WrongIdKept
<1>2. CASE ~NamesWrongId(w, op)
  BY <1>2, PoolOpKept, StakeOpKept, RoutedOpKept, ReleaseOpKept
<1> QED BY <1>1, <1>2

--------------------------------------------------------------------------------
(* The checks after an op *)

LEMMA ListedAreIn ==
  ASSUME ConstantsAssumption, WorldOK(world), NEW p \in PoolIds
  PROVE  /\ registrations_in_pool(p) \in SUBSET Ids /\ IsFiniteSet(registrations_in_pool(p))
         /\ \A x \in Ids : x \in registrations_in_pool(p) <=> In(world, x, p)
         /\ \A x \in registrations_in_pool(p) :
              Owed(world, x, p) \in Nat /\ CreditsIn(world, p)[x] = Owed(world, x, p)
<1> DEFINE T == registrations_in_pool(p)
<1>1. T \in SUBSET Ids
  BY StakeTyped DEF registrations_in_pool, WorldOK, Exists
<1>2. \A x \in Ids : x \in T <=> In(world, x, p)
  BY DEF registrations_in_pool, In, Exists
<1>3. CreditsIn(world, p) \in [Ids -> Nat]
  BY PoolMeter
<1> HIDE DEF T
<1>4. ASSUME NEW x \in T PROVE Owed(world, x, p) \in Nat /\ CreditsIn(world, p)[x] = Owed(world, x, p)
  <2>1. x \in Ids /\ In(world, x, p)
    BY <1>1, <1>2
  <2>2. CreditsIn(world, p)[x] = Owed(world, x, p) /\ CreditsIn(world, p)[x] \in Nat
    BY <1>3, <2>1 DEF CreditsIn
  <2> QED BY <2>2
<1>5. IsFiniteSet(T)
  BY <1>1, IdsFinite, FS_Subset
<1> QED BY <1>1, <1>2, <1>4, <1>5 DEF T

LEMMA OwedSum ==
  ASSUME ConstantsAssumption, WorldOK(world), NEW p \in PoolIds
  PROVE  SumFunction([x \in registrations_in_pool(p) |-> Owed(world, x, p)])
           = SumFunction(CreditsIn(world, p))
<1> DEFINE T == registrations_in_pool(p)
           owed == [x \in T |-> Owed(world, x, p)]
           credits == CreditsIn(world, p)
<1>1. /\ T \in SUBSET Ids /\ \A x \in T : Owed(world, x, p) \in Nat /\ credits[x] = Owed(world, x, p)
  BY ListedAreIn
<1>2. \A x \in Ids \ T : credits[x] = 0
  BY ListedAreIn DEF CreditsIn
<1>3. credits \in [Ids -> Int] /\ IsFiniteSet(Ids)
  BY PoolMeter, IdsFinite
<1> HIDE DEF T, credits
<1>4. owed \in [T -> Int] /\ \A x \in T : owed[x] = credits[x]
  BY <1>1
<1> HIDE DEF owed
<1>5. SumFunction(owed) = SumFunction(credits)
  BY <1>1, <1>2, <1>3, <1>4, SumOverPart
<1> QED BY <1>5 DEF owed, T, credits

LEMMA BooksBalance ==
  ASSUME ConstantsAssumption, WorldOK(world), NEW p \in PoolIds
  PROVE  check_b2(p)
<1>1. world.pools[p].balance * P
        = SumFunction(CreditsIn(world, p)) + world.pools[p].carry + world.pools[p].forfeited
  BY PoolMeter DEF MeterOK
<1>2. \A x \in registrations_in_pool(p) : Owed(world, x, p) >= 0
  BY ListedAreIn
<1> QED BY <1>1, <1>2, OwedSum DEF check_b2

\* Floored entitlements add up to no more than the balance.
LEMMA PoolSolvent ==
  ASSUME ConstantsAssumption, WorldOK(world), NEW p \in PoolIds
  PROVE  check_b1(p)
<1> DEFINE T == registrations_in_pool(p)
           q == world.pools[p]
           owed == [x \in T |-> Owed(world, x, p)]
           rewards == [x \in T |-> calculate_reward(world, x, p)]
           rest == [x \in T |-> owed[x] + (-P) * rewards[x]]
           due == SumFunction(rewards)
<1>1. IsFiniteSet(T) /\ \A x \in T : Owed(world, x, p) \in Nat
  BY ListedAreIn
<1>2. P \in Nat /\ P > 0
  BY DEF ConstantsAssumption
<1>3. ASSUME NEW x \in T
      PROVE  owed[x] \in Nat /\ rewards[x] \in Nat /\ owed[x] + (-P) * rewards[x] \in Nat
  <2> DEFINE o == Owed(world, x, p)
             v == o \div P
  <2>1. o \in Nat
    BY <1>1
  <2>2. owed[x] = o /\ rewards[x] = v
    BY DEF calculate_reward
  <2> HIDE DEF o, owed, rewards
  <2>3. v \in Nat /\ v * P <= o
    BY <1>2, <2>1, Division, DivisionFloor
  <2> HIDE DEF v
  <2>4. (-P) * v = -(v * P) /\ v * P \in Nat
    BY <1>2, <2>3
  <2> QED BY <2>1, <2>2, <2>3, <2>4
<1>4. q.balance * P = SumFunction(owed) + q.carry + q.forfeited
  BY BooksBalance DEF check_b2
<1>5. q.balance \in Nat /\ q.carry \in Nat /\ q.forfeited \in Nat
  BY PoolMeter DEF PoolRec
<1>6. owed \in [T -> Int] /\ rewards \in [T -> Int] /\ rest \in [T -> Nat]
  BY <1>3
<1> HIDE DEF T, q, owed, rewards
<1>7. SumFunction(rest) = SumFunction(owed) + (-P) * due /\ due \in Int /\ SumFunction(owed) \in Int
  <2> DEFINE d == -P
  <2>1. d \in Int /\ rest = [x \in T |-> owed[x] + d * rewards[x]]
    BY <1>2
  <2> HIDE DEF d, rest
  <2>2. SumFunction(rest) = SumFunction(owed) + d * SumFunction(rewards)
    BY <1>1, <1>6, <2>1, SumLinear
  <2>3. SumFunction(rewards) \in Int /\ SumFunction(owed) \in Int
    BY <1>1, <1>6, SumType
  <2> QED BY <2>2, <2>3 DEF d
<1> HIDE DEF rest
<1>8. SumFunction(rest) \in Nat
  BY <1>1, <1>6, SumNonNegative
<1> HIDE DEF due
<1>9. due * P <= q.balance * P
  <2>1. (-P) * due = -(due * P) /\ due * P \in Int /\ q.balance * P \in Int
    BY <1>2, <1>5, <1>7
  <2> QED BY <1>4, <1>5, <1>7, <1>8, <2>1
<1>10. due <= q.balance
  <2> SUFFICES ASSUME due >= q.balance + 1 PROVE FALSE
    BY <1>5, <1>7
  <2>1. (q.balance + 1) * P <= due * P
    BY <1>2, <1>5, <1>7
  <2>2. (q.balance + 1) * P = q.balance * P + P /\ q.balance * P \in Int /\ due * P \in Int
    BY <1>2, <1>5, <1>7
  <2> QED BY <1>2, <1>9, <2>1, <2>2
<1> QED BY <1>10 DEF check_b1, due, rewards, T, q

\* Paid and pending is the floored share of the index's whole movement.
LEMMA PayoutExact ==
  ASSUME ConstantsAssumption, WorldOK(world), NEW p \in PoolIds
  PROVE  check_c4_exact(p)
<1> SUFFICES ASSUME NEW x \in registrations_in_pool(p)
             PROVE  LET reg == Registration(world, x, p)
                        moved == world.pools[p].index - reg.index
                    IN  /\ moved >= 0
                        /\ reg.paid + calculate_reward(world, x, p)
                             = (world.stakes[x].amount * moved) \div P
  BY DEF check_c4_exact
<1> DEFINE g == Registration(world, x, p)
           n == world.stakes[x].amount
           i == world.pools[p].index
           o == Owed(world, x, p)
           moved == i - g.index
<1>1. x \in Ids /\ In(world, x, p) /\ o \in Nat /\ world \in Worlds
  BY ListedAreIn DEF WorldOK
<1>2. Lifetime(world, x, p)
  BY <1>1 DEF WorldOK, ViewOK
<1>3. n \in Nat /\ g.debt \in Nat /\ g.index \in Nat /\ g.paid \in Nat /\ i \in Nat
  BY <1>1, StakeTyped, EntryTyped, PoolTyped DEF In, RegisteredIn
<1>4. g.index <= i /\ g.debt = n * g.index + g.paid * P /\ o = n * i - g.debt
  BY <1>2 DEF Lifetime, Owed
<1>5. P \in Nat /\ P > 0
  BY DEF ConstantsAssumption
<1>6. calculate_reward(world, x, p) = o \div P
  BY DEF calculate_reward
<1> HIDE DEF g, n, i, o
<1>7. n * moved = o + g.paid * P
  <2>1. n * moved = n * i - n * g.index
    BY <1>3
  <2>2. n * i \in Int /\ n * g.index \in Int /\ g.paid * P \in Int
    BY <1>3, <1>5
  <2> HIDE DEF moved
  <2> QED BY <1>1, <1>3, <1>4, <2>1, <2>2
<1>8. (n * moved) \div P = g.paid + (o \div P)
  <2>1. (o + g.paid * P) \div P = g.paid + (o \div P)
    BY <1>1, <1>3, <1>5, QuotientShift
  <2> QED BY <1>7, <2>1
<1>9. moved >= 0
  BY <1>3, <1>4
<1> QED BY <1>6, <1>8, <1>9 DEF g, n, i, moved

LEMMA ReleaseSum ==
  ASSUME ConstantsAssumption, WorldOK(world)
  PROVE  SumFunction([r \in DOMAIN world.releases |-> world.releases[r].balance])
           = SumFunction(ReleaseMoney(world))
<1> DEFINE T == DOMAIN world.releases
           held == [r \in T |-> world.releases[r].balance]
           f == ReleaseMoney(world)
<1>1. f \in [ReleaseIds -> Int] /\ IsFiniteSet(ReleaseIds)
  BY MoneyTyped DEF WorldOK
<1>2. \A r \in T : r \in ReleaseIds /\ held[r] \in Int
  BY ReleaseTyped
<1>3. (\A r \in T : held[r] = f[r]) /\ (\A r \in ReleaseIds \ T : f[r] = 0)
  BY <1>2 DEF ReleaseMoney
<1>4. held \in [T -> Int] /\ T \in SUBSET ReleaseIds
  BY <1>2
<1> HIDE DEF T, held, f
<1>5. SumFunction(held) = SumFunction(f)
  BY <1>1, <1>3, <1>4, SumOverPart
<1> QED BY <1>5 DEF held, f, T

--------------------------------------------------------------------------------
(* Who is registered with a pool, as what drives the simulator keeps account of it *)

Roll(w, p) == {x \in DOMAIN w.stakes : RegisteredIn(w, x, p)}

SameRoll(w, r, p) ==
  /\ DOMAIN r.stakes = DOMAIN w.stakes /\ Roll(r, p) = Roll(w, p)
  /\ r.pools[p].staked_shares = w.pools[p].staked_shares
  /\ \A x \in DOMAIN w.stakes : r.stakes[x].amount = w.stakes[x].amount

LEMMA DepositRoll ==
  ASSUME ConstantsAssumption, NEW w, WorldOK(w), NEW p \in PoolIds, NEW v \in Nat,
         ~Deposit(w, p, v).failed
  PROVE  SameRoll(w, Deposit(w, p, v).world, p)
<1> DEFINE q == w.pools[p]
           f == Folded(q, v)
           r == SetPool(w, p, f)
<1>1. /\ MeterOK(q, SharesIn(w, p), CreditsIn(w, p)) /\ w \in Worlds /\ q \in PoolRec
      /\ q.staked_shares \in Nat /\ q.staked_shares <= MaxU64
  BY PoolMeter DEF MeterOK, PoolRec
<1>2. q.staked_shares # 0 /\ Deposit(w, p, v) = Done(r)
  <2>1. ~(q.staked_shares = 0 \/ v = 0 \/ q.balance + v > MaxU64)
    BY FailedGood DEF Deposit
  <2> QED BY <2>1 DEF Deposit, SetPool
<1>3. f \in PoolRec /\ f.staked_shares = q.staked_shares
  BY <1>1, <1>2, FoldedFields
<1> HIDE DEF f
<1>4. r.pools[p] = f /\ r.stakes = w.stakes
  BY <1>1, <1>3, SetPoolFields
<1>5. Deposit(w, p, v).world = r
  BY <1>2 DEF Done, Returns
<1> HIDE DEF r
<1>6. Roll(r, p) = Roll(w, p)
  BY <1>4 DEF Roll, RegisteredIn, HasRegistration, Registration
<1> QED BY <1>3, <1>4, <1>5, <1>6 DEF SameRoll

\* A new stake with shares is made, and registered nowhere.
LEMMA NewStakeRoll ==
  ASSUME NEW w \in Worlds, NEW p \in PoolIds, NEW x, ~Exists(w, x), NEW n \in Nat, n > 0
  PROVE  LET result == NewStake(w, x, n)
             r == result.world
         IN  /\ ~result.failed /\ DOMAIN r.stakes = DOMAIN w.stakes \cup {x}
             /\ Roll(r, p) = Roll(w, p) /\ r.pools = w.pools /\ r.stakes[x].amount = n
<1> DEFINE s == [amount |-> n, registrations |-> NoRegistrations]
           f == With(w.stakes, x, s)
           r == [w EXCEPT !.stakes = f]
<1>1. NewStake(w, x, n) = Done(r)
  BY DEF NewStake, NoRegistrations
<1>2. ~Done(r).failed /\ Done(r).world = r
  BY DEF Done, Returns
<1>3. s.amount = n /\ DOMAIN s.registrations = {}
  BY DEF NoRegistrations
<1> HIDE DEF s
<1>4. /\ DOMAIN f = DOMAIN w.stakes \cup {x} /\ f[x] = s
      /\ \A y \in DOMAIN w.stakes : f[y] = w.stakes[y]
  BY DEF With, Exists
<1> HIDE DEF f
<1>5. r.stakes = f /\ r.pools = w.pools
  BY DEF Worlds
<1> HIDE DEF r
<1>6. Roll(r, p) = Roll(w, p)
  <2>1. ~RegisteredIn(r, x, p)
    BY <1>3, <1>4, <1>5 DEF RegisteredIn, HasRegistration
  <2>2. \A y \in DOMAIN w.stakes : RegisteredIn(r, y, p) <=> RegisteredIn(w, y, p)
    BY <1>4, <1>5 DEF RegisteredIn, HasRegistration, Registration
  <2> QED BY <1>4, <1>5, <2>1, <2>2 DEF Roll
<1> QED BY <1>1, <1>2, <1>3, <1>4, <1>5, <1>6

\* What a moved stake and pool object change of the roll.
LEMMA MovedRoll ==
  ASSUME NEW w \in Worlds, NEW p \in PoolIds, NEW q \in PoolRec, NEW x, Exists(w, x),
         NEW s \in StakeRec, s.amount = w.stakes[x].amount
  PROVE  LET r == Moved(w, p, q, x, s)
             c == CurrencyOf[p]
         IN  /\ DOMAIN r.stakes = DOMAIN w.stakes /\ r.pools[p] = q
             /\ \A y \in DOMAIN w.stakes : r.stakes[y].amount = w.stakes[y].amount
             /\ Roll(r, p) = IF c \in DOMAIN s.registrations /\ s.registrations[c].pool = p
                             THEN Roll(w, p) \cup {x} ELSE Roll(w, p) \ {x}
<1> DEFINE r == Moved(w, p, q, x, s)
           c == CurrencyOf[p]
           stays == c \in DOMAIN s.registrations /\ s.registrations[c].pool = p
<1>1. /\ r.pools[p] = q /\ r.stakes[x] = s /\ DOMAIN r.stakes = DOMAIN w.stakes
      /\ \A y \in DOMAIN w.stakes : y # x => r.stakes[y] = w.stakes[y]
  BY MovedFields
<1> HIDE DEF r
<1>2. RegisteredIn(r, x, p) <=> stays
  BY <1>1 DEF RegisteredIn, HasRegistration, Registration
<1>3. \A y \in DOMAIN w.stakes : y # x => (RegisteredIn(r, y, p) <=> RegisteredIn(w, y, p))
  BY <1>1 DEF RegisteredIn, HasRegistration, Registration
<1> HIDE DEF stays
<1>4. Roll(r, p) = IF stays THEN Roll(w, p) \cup {x} ELSE Roll(w, p) \ {x}
  BY <1>1, <1>2, <1>3 DEF Roll, Exists
<1>5. \A y \in DOMAIN w.stakes : r.stakes[y].amount = w.stakes[y].amount
  BY <1>1
<1> QED BY <1>1, <1>4, <1>5 DEF r, stays

LEMMA RegisterRoll ==
  ASSUME ConstantsAssumption, NEW w, WorldOK(w), NEW p \in PoolIds, NEW x, Exists(w, x),
         ~Register(w, p, x).failed
  PROVE  LET r == Register(w, p, x).world
         IN  /\ DOMAIN r.stakes = DOMAIN w.stakes /\ Roll(r, p) = Roll(w, p) \cup {x}
             /\ r.pools[p].staked_shares = w.pools[p].staked_shares + w.stakes[x].amount
<1> DEFINE n == w.stakes[x].amount
           q == w.pools[p]
           c == CurrencyOf[p]
           e == NewRegistration(w, p, n)
           new == [q EXCEPT !.staked_shares = @ + n]
           g == With(w.stakes[x].registrations, c, e)
           s == [w.stakes[x] EXCEPT !.registrations = g]
           r == Moved(w, p, new, x, s)
<1>1. /\ w \in Worlds /\ w.stakes[x] \in StakeRec /\ n \in Nat
      /\ w.stakes[x].registrations \in Entries /\ q \in PoolRec /\ q.index \in Nat
      /\ q.staked_shares \in Nat
  BY PoolMeter, StakeTyped, PoolTyped
<1>2. Register(w, p, x) = Done(r)
  <2>1. ~(HasRegistration(w, x, p) \/ q.staked_shares + n > MaxU64)
    BY FailedGood DEF Register
  <2> QED BY <2>1 DEF Register, Moved
<1>3. e \in Entry /\ e.pool = p
  <2>1. n * q.index \in Nat
    BY <1>1
  <2> QED BY <1>1, <2>1 DEF NewRegistration, Entry
<1>4. g \in Entries /\ c \in DOMAIN g /\ g[c] = e
  <2>1. c \in Currencies
    BY DEF Currencies
  <2> HIDE DEF e, c
  <2> QED BY <1>1, <1>3, <2>1, EntryAdded
<1> HIDE DEF e, g
<1>5. s \in StakeRec /\ s.amount = n /\ s.registrations = g
  BY <1>1, <1>4 DEF StakeRec
<1>6. new \in PoolRec /\ new.staked_shares = q.staked_shares + n
  BY <1>1 DEF PoolRec
<1> HIDE DEF s, new
<1>7. /\ DOMAIN r.stakes = DOMAIN w.stakes /\ r.pools[p] = new
      /\ Roll(r, p) = IF c \in DOMAIN s.registrations /\ s.registrations[c].pool = p
                      THEN Roll(w, p) \cup {x} ELSE Roll(w, p) \ {x}
  BY <1>1, <1>5, <1>6, MovedRoll
<1>8. Register(w, p, x).world = r
  BY <1>2 DEF Done, Returns
<1> QED BY <1>3, <1>4, <1>5, <1>6, <1>7, <1>8

\* A drained stake can always leave.
LEMMA UnregisterRoll ==
  ASSUME ConstantsAssumption, NEW w, WorldOK(w), NEW p \in PoolIds, NEW x \in Roll(w, p),
         Drained(w, x, p)
  PROVE  LET result == Unregister(w, p, x)
             r == result.world
         IN  /\ ~result.failed /\ DOMAIN r.stakes = DOMAIN w.stakes
             /\ Roll(r, p) = Roll(w, p) \ {x}
             /\ r.pools[p].staked_shares = w.pools[p].staked_shares - w.stakes[x].amount
<1> DEFINE n == w.stakes[x].amount
           q == w.pools[p]
           c == CurrencyOf[p]
           o == Owed(w, x, p)
           new == Emptied(q, o, n)
           s == Left(w.stakes[x], c)
           r == Moved(w, p, new, x, s)
<1>1. Exists(w, x) /\ HasRegistration(w, x, p) /\ Registration(w, x, p).pool = p
  BY DEF Roll, Exists, RegisteredIn
<1>2. /\ w \in Worlds /\ w.stakes[x] \in StakeRec /\ n \in Nat
      /\ w.stakes[x].registrations \in Entries /\ q \in PoolRec
      /\ q.staked_shares \in Nat /\ q.forfeited \in Nat /\ q.exits \in Nat
  BY <1>1, PoolMeter, StakeTyped DEF PoolRec
<1>3. Unregister(w, p, x) = Done(r)
  <2>1. Unregister(w, p, x) = Done(Exited(w, p, x, o, n, c))
    BY <1>1 DEF Unregister, AsRegistered, Exited
  <2> QED BY <2>1, ExitedWorld
<1>4. /\ o \in Nat /\ SharesIn(w, p)[x] = n /\ SharesIn(w, p) \in [Ids -> Nat] /\ x \in Ids
      /\ q.staked_shares = SumFunction(SharesIn(w, p))
  BY <1>1, Registered, PoolMeter DEF MeterOK
<1>5. n <= q.staked_shares
  <2>1. IsFiniteSet(Ids)
    BY IdsFinite
  <2> QED BY <1>4, <2>1, SumNonNegative
<1>6. new \in PoolRec /\ new.staked_shares = q.staked_shares - n
  <2> DEFINE f == q.forfeited + o
             e == q.exits + 1
             m == q.staked_shares - n
  <2>1. new = [q EXCEPT !.forfeited = f, !.exits = e, !.staked_shares = m]
    BY DEF Emptied
  <2> HIDE DEF q, o, n, new
  <2>2. f \in Nat /\ e \in Nat /\ m \in Nat
    BY <1>2, <1>4, <1>5
  <2> HIDE DEF f, e
  <2>3. new \in PoolRec /\ new.staked_shares = m
    <3> HIDE DEF m
    <3> QED BY <1>2, <2>1, <2>2 DEF PoolRec
  <2> QED BY <2>3
<1>7. s \in StakeRec /\ s.amount = n /\ c \notin DOMAIN s.registrations
  <2> DEFINE g == Without(w.stakes[x].registrations, c)
  <2>1. g \in Entries /\ c \notin DOMAIN g
    BY <1>2, EntryRemoved
  <2>2. s = [w.stakes[x] EXCEPT !.registrations = g]
    BY DEF Left
  <2> HIDE DEF g, s, c
  <2> QED BY <1>2, <2>1, <2>2 DEF StakeRec
<1> HIDE DEF new, s
<1>8. /\ DOMAIN r.stakes = DOMAIN w.stakes /\ r.pools[p] = new
      /\ Roll(r, p) = IF c \in DOMAIN s.registrations /\ s.registrations[c].pool = p
                      THEN Roll(w, p) \cup {x} ELSE Roll(w, p) \ {x}
  BY <1>1, <1>2, <1>6, <1>7, MovedRoll
<1>9. Done(r).world = r /\ ~Done(r).failed
  BY DEF Done, Returns
<1> HIDE DEF r
<1> QED BY <1>3, <1>6, <1>7, <1>8, <1>9

\* Nobody comes or goes by a claim, and it drains the stake it is made for.
LEMMA ClaimRoll ==
  ASSUME ConstantsAssumption, NEW w, WorldOK(w), NEW p \in PoolIds, NEW x, Exists(w, x),
         ~Claim(w, p, x).failed
  PROVE  SameRoll(w, Claim(w, p, x).world, p) /\ Drained(Claim(w, p, x).world, x, p)
<1> DEFINE n == w.stakes[x].amount
           q == w.pools[p]
           c == CurrencyOf[p]
           old == Registration(w, x, p)
           o == Owed(w, x, p)
           v == calculate_reward(w, x, p)
           debt == DebtAfterClaim(w, x, p)
           new == Paid(q, v)
           s == PaidStake(w.stakes[x], c, debt, v)
           r == Moved(w, p, new, x, s)
<1>1. HasRegistration(w, x, p) /\ old.pool = p /\ ~(v > q.balance)
  BY FailedGood DEF Claim, AsRegistered
<1>2. /\ w \in Worlds /\ w.stakes[x] \in StakeRec /\ n \in Nat
      /\ w.stakes[x].registrations \in Entries /\ q \in PoolRec /\ q.index \in Nat
      /\ q.balance \in Nat /\ P \in Nat /\ P > 0
  BY PoolMeter, StakeTyped, PoolTyped DEF ConstantsAssumption
<1>3. /\ old \in Entry /\ old.debt \in Nat /\ old.paid \in Nat
      /\ c \in DOMAIN w.stakes[x].registrations /\ w.stakes[x].registrations[c] = old
  BY <1>1, <1>2, EntryTyped DEF HasRegistration, Registration
<1>4. o \in Nat /\ o = n * q.index - old.debt /\ v = o \div P
  BY <1>1, Registered DEF Owed, calculate_reward
<1>5. v \in Nat /\ v * P \in Nat /\ v * P <= o /\ o - v * P < P
  <2> HIDE DEF o, v
  <2>1. v \in Nat /\ v * P <= o /\ o - v * P < P
    BY <1>2, <1>4, Division, DivisionFloor
  <2> QED BY <1>2, <2>1
<1>6. debt = old.debt + v * P /\ debt \in Nat /\ old.paid + v \in Nat
  <2>1. debt = old.debt + v * P
    BY DEF DebtAfterClaim
  <2> HIDE DEF debt, v, old
  <2> QED BY <1>3, <1>5, <2>1
<1>7. Claim(w, p, x) = Returns(r, v)
  <2>1. Claim(w, p, x) = Returns(Claimed(w, p, x, c, debt, v), v)
    BY <1>1 DEF Claim, AsRegistered, Claimed
  <2>2. Claimed(w, p, x, c, debt, v) = r
    <3> HIDE DEF debt, v, c
    <3> QED BY <1>2, <1>3, ClaimedWorld
  <2> QED BY <2>1, <2>2
<1> DEFINE e == PaidEntry(old, debt, old.paid + v)
           g == [w.stakes[x].registrations EXCEPT ![c] = e]
<1>8. e \in Entry /\ e.pool = p /\ e.debt = debt
  <2> DEFINE paid == old.paid + v
  <2>1. paid \in Nat /\ old.pool = p
    BY <1>1, <1>6
  <2> HIDE DEF old, debt, paid
  <2> QED BY <1>3, <1>6, <2>1 DEF Entry, PaidEntry
<1> HIDE DEF e
<1>9. g \in Entries /\ c \in DOMAIN g /\ g[c] = e
  <2> HIDE DEF c
  <2> QED BY <1>2, <1>3, <1>8, EntryReplaced
<1>10. s \in StakeRec /\ s.amount = n /\ s.registrations = g
  <2>1. s = [w.stakes[x] EXCEPT !.registrations = g]
    BY <1>3 DEF PaidStake, e
  <2> HIDE DEF g, s
  <2> QED BY <1>2, <1>9, <2>1 DEF StakeRec
<1>11. new \in PoolRec /\ new.index = q.index /\ new.staked_shares = q.staked_shares
  <2>1. q.balance - v \in Nat
    <3> HIDE DEF v
    <3> QED BY <1>1, <1>2, <1>5
  <2> HIDE DEF q, v
  <2> QED BY <1>2, <2>1 DEF Paid, PoolRec
<1> HIDE DEF g, s, new
<1>12. /\ DOMAIN r.stakes = DOMAIN w.stakes /\ r.pools[p] = new
       /\ \A y \in DOMAIN w.stakes : r.stakes[y].amount = w.stakes[y].amount
       /\ Roll(r, p) = IF c \in DOMAIN s.registrations /\ s.registrations[c].pool = p
                       THEN Roll(w, p) \cup {x} ELSE Roll(w, p) \ {x}
  BY <1>2, <1>10, <1>11, MovedRoll
<1>13. r.stakes[x] = s
  BY <1>2, <1>10, <1>11, MovedFields
<1> HIDE DEF r
<1>14. Roll(r, p) = Roll(w, p)
  <2>1. x \in Roll(w, p)
    BY <1>1 DEF Roll, Exists, RegisteredIn
  <2> QED BY <1>8, <1>9, <1>10, <1>12, <2>1
<1>15. Drained(r, x, p)
  <2>1. Owed(r, x, p) = n * q.index - debt
    BY <1>8, <1>9, <1>10, <1>11, <1>12, <1>13 DEF Owed, Registration
  <2>2. Owed(r, x, p) = o - v * P
    <3>1. n * q.index \in Int
      BY <1>2
    <3> HIDE DEF n, q, o, v, debt, old
    <3> QED BY <1>3, <1>4, <1>5, <1>6, <2>1, <3>1
  <2> DEFINE left == o - v * P
  <2>3. left \in Nat /\ left < P
    <3> HIDE DEF o, v
    <3> QED BY <1>2, <1>4, <1>5
  <2>4. Owed(r, x, p) = left
    BY <2>2
  <2> HIDE DEF left
  <2>5. left \div P = 0
    BY <1>2, <2>3
  <2> QED BY <2>4, <2>5 DEF Drained, calculate_reward
<1>16. Claim(w, p, x).world = r
  BY <1>7 DEF Returns
<1> QED BY <1>11, <1>12, <1>14, <1>15, <1>16 DEF SameRoll

\* The balance covers what any registered stake may claim.
LEMMA ClaimSucceeds ==
  ASSUME ConstantsAssumption, WorldOK(world), NEW p \in PoolIds, NEW x \in Roll(world, p)
  PROVE  ~Claim(world, p, x).failed
<1> DEFINE T == registrations_in_pool(p)
           rewards == [y \in T |-> calculate_reward(world, y, p)]
           q == world.pools[p]
<1>1. x \in T /\ IsFiniteSet(T) /\ \A y \in T : Owed(world, y, p) \in Nat
  BY ListedAreIn DEF Roll, registrations_in_pool
<1>2. \A y \in T : rewards[y] \in Nat
  <2> SUFFICES ASSUME NEW y \in T PROVE Owed(world, y, p) \div P \in Nat
    BY DEF calculate_reward
  <2>1. P \in Nat /\ P > 0
    BY DEF ConstantsAssumption
  <2> DEFINE a == Owed(world, y, p)
  <2>2. a \in Nat
    BY <1>1
  <2> HIDE DEF a
  <2>3. a \div P \in Nat
    BY <2>1, <2>2, Division
  <2> QED BY <2>3 DEF a
<1>3. SumFunction(rewards) <= q.balance /\ q.balance \in Nat
  BY PoolSolvent, PoolTyped DEF check_b1, WorldOK
<1>4. rewards[x] = calculate_reward(world, x, p)
  BY <1>1
<1> DEFINE due == SumFunction(rewards)
<1>5. rewards \in [T -> Nat] /\ rewards \in [T -> Int]
  BY <1>2
<1> HIDE DEF rewards, T
<1>6. due \in Nat /\ rewards[x] <= due /\ rewards[x] \in Nat
  BY <1>1, <1>5, SumNonNegative, SumType
<1> HIDE DEF due
<1>7. ~(calculate_reward(world, x, p) > q.balance)
  BY <1>3, <1>4, <1>6 DEF due
<1>8. HasRegistration(world, x, p) /\ Registration(world, x, p).pool = p
  BY DEF Roll, RegisteredIn
<1> QED BY <1>7, <1>8 DEF Claim, AsRegistered, Returns

--------------------------------------------------------------------------------
(* The specification *)

WorldInv ==
  /\ WorldOK(world)
  /\ minted \in Nat /\ paidOut \in Nat /\ minted = paidOut + Money(world)

LEMMA WorldInit ==
  ASSUME ConstantsAssumption, Init
  PROVE  WorldInv
<1> DEFINE w == NewWorld(PoolIds)
<1>1. world = w /\ minted = 0 /\ paidOut = 0
  BY DEF Init
<1>2. NewPool \in PoolRec
  BY DEF NewPool, PoolRec
<1>3. /\ w.pools = [p \in PoolIds |-> NewPool] /\ DOMAIN w.stakes = {}
      /\ DOMAIN w.routed = {} /\ DOMAIN w.releases = {}
  BY DEF NewWorld
<1>4. w \in Worlds
  <2>1. [x \in {} |-> 0] \in [{} -> StakeRec] /\ {} \in SUBSET Ids
    OBVIOUS
  <2>2. [x \in {} |-> 0] \in StakeMaps
    BY <2>1 DEF StakeMaps
  <2>3. [x \in {} |-> 0] \in [{} -> [parent : Parents, pool : PoolIds]] /\ {} \in SUBSET RoutedIds
    OBVIOUS
  <2>4. [x \in {} |-> 0] \in RouteMaps
    BY <2>3 DEF RouteMaps
  <2>5. [x \in {} |-> 0] \in [{} -> ReleaseRec] /\ {} \in SUBSET ReleaseIds
    OBVIOUS
  <2>6. [x \in {} |-> 0] \in ReleaseMaps
    BY <2>5 DEF ReleaseMaps
  <2>7. [p \in PoolIds |-> NewPool] \in [PoolIds -> PoolRec]
    BY <1>2
  <2> HIDE DEF w
  <2>8. w = [pools |-> [p \in PoolIds |-> NewPool], stakes |-> [x \in {} |-> 0],
             routed |-> [r \in {} |-> 0], releases |-> [r \in {} |-> 0]]
    BY DEF w, NewWorld
  <2> QED BY <2>2, <2>4, <2>6, <2>7, <2>8 DEF Worlds
<1> HIDE DEF w
<1>5. ASSUME NEW p \in PoolIds PROVE ViewOK(w, p)
  <2> DEFINE none == [x \in Ids |-> 0]
  <2>1. \A x \in Ids : ~In(w, x, p)
    BY <1>3 DEF In, Exists
  <2>2. SharesIn(w, p) = none /\ CreditsIn(w, p) = none
    BY <2>1 DEF SharesIn, CreditsIn
  <2>3. none \in [Ids -> Nat] /\ SumFunction(none) = 0
    <3>1. none \in [Ids -> Int] /\ \A x \in Ids : none[x] = 0
      OBVIOUS
    <3> HIDE DEF none
    <3>2. SumFunction(none) = 0
      BY <3>1, IdsFinite, SumZero
    <3> QED BY <3>1, <3>2 DEF none
  <2> HIDE DEF none
  <2> DEFINE q == NewPool
  <2>4. /\ q.balance = 0 /\ q.staked_shares = 0 /\ q.index = 0 /\ q.carry = 0
        /\ q.forfeited = 0 /\ q.exits = 0 /\ q.ideal = 0 /\ q.drift = 0 /\ q.fold_shares = 0
    BY DEF NewPool
  <2> HIDE DEF q
  <2>5. CarryOK(q) /\ ForfeitsOK(q) /\ IndexOK(q)
    <3>1. 0 * P = 0 /\ 0 * Scale = 0
      BY DEF ConstantsAssumption
    <3> QED BY <2>4, <3>1 DEF CarryOK, ForfeitsOK, IndexOK
  <2>6. MeterOK(q, none, none)
    <3>1. q.balance * P = 0 /\ q.staked_shares <= MaxU64
      BY <2>4 DEF ConstantsAssumption
    <3>2. q \in PoolRec
      BY <1>2 DEF q
    <3> QED BY <2>3, <2>4, <2>5, <3>1, <3>2 DEF MeterOK
  <2>7. w.pools[p] = q
    BY <1>3 DEF q
  <2> QED BY <2>1, <2>2, <2>6, <2>7 DEF ViewOK
<1>6. WorldOK(w)
  BY <1>3, <1>4, <1>5 DEF WorldOK, StakesKnown
<1>7. Money(w) = 0
  <2>1. \A p \in PoolIds : PoolMoney(w)[p] = 0
    BY <1>3 DEF PoolMoney, NewPool
  <2>2. \A r \in ReleaseIds : ReleaseMoney(w)[r] = 0
    BY <1>3 DEF ReleaseMoney
  <2>3. /\ PoolMoney(w) \in [PoolIds -> Int] /\ ReleaseMoney(w) \in [ReleaseIds -> Int]
        /\ IsFiniteSet(PoolIds) /\ IsFiniteSet(ReleaseIds)
    BY <1>4, MoneyTyped
  <2>4. SumFunction(PoolMoney(w)) = 0 /\ SumFunction(ReleaseMoney(w)) = 0
    BY <2>1, <2>2, <2>3, SumZero
  <2> QED BY <2>4 DEF Money
<1> QED BY <1>1, <1>6, <1>7 DEF WorldInv

\* A failed op leaves the snapshot, a successful one what it keeps.
LEMMA ApplyKeeps ==
  ASSUME ConstantsAssumption, WorldInv,
         NEW op \in PoolOps \cup StakeOps \cup RoutedOps \cup ReleaseOps, Apply(op)
  PROVE  WorldInv'
<1> DEFINE result == apply_inner(world, op)
           come == Incoming(op)
           gone == Outgoing(op, result)
<1>1. /\ WorldOK(world) /\ minted \in Nat /\ paidOut \in Nat /\ minted = paidOut + Money(world)
  BY DEF WorldInv
<1>2. Kept(world, op) /\ Money(world) \in Int
  BY <1>1, OpKept, MoneyTyped DEF WorldOK
<1>3. /\ world' = IF result.failed THEN world ELSE result.world
      /\ minted' = minted + IF ~result.failed /\ op.op \in {"deposit", "release_fund"}
                            THEN op.value ELSE 0
      /\ paidOut' = paidOut + IF ~result.failed /\ op.op \in {"claim", "release_distribute"}
                                 /\ result.value > 0
                              THEN result.value ELSE 0
  BY DEF Apply, After
<1>4. come \in Nat
  BY DEF Incoming, PoolOps, StakeOps, RoutedOps, ReleaseOps, ConstantsAssumption
<1> HIDE DEF result
<1>5. CASE result.failed
  <2>1. world' = world /\ minted' = minted /\ paidOut' = paidOut
    BY <1>1, <1>3, <1>5
  <2> QED BY <1>1, <2>1 DEF WorldInv
<1>6. CASE ~result.failed
  <2>1. world' = result.world /\ minted' = minted + come /\ paidOut' = paidOut + gone
    BY <1>3, <1>6 DEF Incoming, Outgoing
  <2>2. /\ gone \in Nat /\ WorldOK(result.world)
        /\ Money(result.world) = Money(world) + (come - gone)
    BY <1>2, <1>6 DEF Kept, result
  <2> HIDE DEF come, gone
  <2>3. WorldOK(world') /\ Money(world') = Money(world) + (come - gone)
    BY <2>1, <2>2
  <2>4. minted' \in Nat /\ paidOut' \in Nat /\ minted' = paidOut' + Money(world')
    BY <1>1, <1>2, <1>4, <2>1, <2>2, <2>3
  <2> QED BY <2>3, <2>4 DEF WorldInv
<1> QED BY <1>5, <1>6

\* The books of every pool, the registrations and the currency agree in every reachable
\* world: what the checks of invariants.rs rest on.
THEOREM SimulatorInvariant == Spec => []WorldInv
<1>1. Init => WorldInv
  BY ConstantsAssumption, WorldInit
<1>2. WorldInv /\ [Next]_vars => WorldInv'
  <2> SUFFICES ASSUME WorldInv, [Next]_vars PROVE WorldInv'
    OBVIOUS
  <2>1. CASE Next
    <3>1. PICK op \in PoolOps \cup StakeOps \cup RoutedOps \cup ReleaseOps : Apply(op)
      BY <2>1 DEF Next
    <3> QED BY <3>1, ConstantsAssumption, ApplyKeeps
  <2>2. CASE UNCHANGED vars
    BY <2>2 DEF vars, WorldInv
  <2> QED BY <2>1, <2>2
<1> QED BY <1>1, <1>2, PTL DEF Spec

\* The solvency and conservation checks never report: floored entitlements fit in the
\* balance, and the scaled balance is what is owed, carried and forfeited.
THEOREM ChecksB1AndB2NeverReport == Spec => []ConservationExact
<1>1. WorldInv => ConservationExact
  BY ConstantsAssumption, PoolSolvent, BooksBalance DEF WorldInv, ConservationExact
<1> QED BY <1>1, SimulatorInvariant, PTL

\* No op, failed or not, makes or loses currency, a sweep that fails in its second pool
\* least of all.
THEOREM NoOpMakesCurrency == Spec => []WorldConserves
<1>1. WorldInv => WorldConserves
  <2> SUFFICES ASSUME WorldInv PROVE WorldConserves
    OBVIOUS
  <2>1. /\ WorldOK(world) /\ paidOut \in Nat /\ minted = paidOut + Money(world)
    BY DEF WorldInv
  <2>2. /\ Money(world) = SumFunction(PoolMoney(world)) + SumFunction(ReleaseMoney(world))
        /\ SumFunction(PoolMoney(world)) \in Int /\ SumFunction(ReleaseMoney(world)) \in Int
    BY <2>1, ConstantsAssumption, MoneyTyped DEF WorldOK, Money
  <2>3. SumFunction([r \in DOMAIN world.releases |-> world.releases[r].balance])
          = SumFunction(ReleaseMoney(world))
    BY <2>1, ConstantsAssumption, ReleaseSum
  <2> QED BY <2>1, <2>2, <2>3 DEF WorldConserves, PoolMoney
<1> QED BY <1>1, SimulatorInvariant, PTL

\* The floored index and the exact one differ by the carry drift alone.
THEOREM DriftIsAllThatDiffers == Spec => []AccumulatorIdentity
<1>1. WorldInv => AccumulatorIdentity
  BY PoolMeter DEF WorldInv, AccumulatorIdentity, check_accumulator_identity, MeterOK, IndexOK
<1> QED BY <1>1, SimulatorInvariant, PTL

\* A registration was paid, and is pending, the floored share of the index's movement.
THEOREM PayoutsFollowTheIndex == Spec => []PayoutIdentity
<1>1. WorldInv => PayoutIdentity
  BY ConstantsAssumption, PayoutExact DEF WorldInv, PayoutIdentity
<1> QED BY <1>1, SimulatorInvariant, PTL

\* The carry stays below the last divisor, an exit forfeits less than a unit, and every
\* release can be distributed, leaving less than a unit per track.
THEOREM ResiduesBounded == Spec => []CarryAndResidueBounded
<1>1. WorldInv => CarryAndResidueBounded
  <2> SUFFICES ASSUME WorldInv PROVE CarryAndResidueBounded
    OBVIOUS
  <2>1. WorldOK(world)
    BY DEF WorldInv
  <2>2. ASSUME NEW p \in PoolIds PROVE check_b4(p) /\ check_b8(p)
    <3>1. /\ CarryOK(world.pools[p]) /\ ForfeitsOK(world.pools[p]) /\ world.pools[p].exits \in Nat
      BY <2>1, PoolMeter DEF MeterOK, PoolRec
    <3> QED BY <3>1 DEF CarryOK, ForfeitsOK, check_b4, check_b8
  <2>3. ASSUME NEW r \in DOMAIN world.releases PROVE check_distribution(r)
    BY <2>1, ConstantsAssumption, DistributeKeeps DEF check_distribution
  <2> QED BY <2>2, <2>3 DEF CarryAndResidueBounded
<1> QED BY <1>1, SimulatorInvariant, PTL
================================================================================
