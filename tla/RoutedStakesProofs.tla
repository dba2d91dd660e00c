--------------------------- MODULE RoutedStakesProofs ---------------------------
(***************************************************************************)
(* What holds of the pinned pool and the routed stakes for every set of    *)
(* pools, stakes, works and currencies.  A pool is looked at as three      *)
(* values: its object, the shares registered with it and the credit of     *)
(* each position (PoolOK).  A call changes such a view in one of four ways *)
(* or not at all, and RoutedInv says that every pool's view is in order.   *)
(***************************************************************************)
EXTENDS RoutedStakes, SumTheorems

PoolObject == [balance : Nat, staked_shares : Nat, index : Nat, carry : Nat]

\* The object q, the shares and the credits of one pool agree.
PoolOK(q, shares, credit) ==
  /\ q \in PoolObject
  /\ shares \in [Positions -> Nat] /\ credit \in [Positions -> Nat]
  /\ q.staked_shares = SumFunction(shares)
  /\ SumFunction(credit) + q.carry <= q.balance * PRECISION

LEMMA PositionsFinite ==
  ASSUME ConstantsAssumption
  PROVE  IsFiniteSet(Positions) /\ PRECISION \in Nat /\ PRECISION > 0
<1>1. IsFiniteSet(Holders) /\ IsFiniteSet(Routed) /\ PRECISION \in Nat /\ PRECISION > 0
  BY DEF ConstantsAssumption
<1>2. IsFiniteSet(Holders \cup Routed)
  BY <1>1, FS_Union
<1> QED BY <1>1, <1>2 DEF Positions

\* A pool object with these three fields changed.
Updated(q, b, i, c) == [q EXCEPT !.balance = b, !.index = i, !.carry = c]

LEMMA ObjectUpdate ==
  ASSUME NEW q \in PoolObject, NEW b \in Nat, NEW i \in Nat, NEW c \in Nat
  PROVE  /\ Updated(q, b, i, c) \in PoolObject
         /\ Updated(q, b, i, c).balance = b /\ Updated(q, b, i, c).index = i
         /\ Updated(q, b, i, c).carry = c
         /\ Updated(q, b, i, c).staked_shares = q.staked_shares
BY DEF PoolObject, Updated

\* What the sums of a view are.
LEMMA ViewSums ==
  ASSUME ConstantsAssumption, NEW q, NEW shares, NEW credit, PoolOK(q, shares, credit)
  PROVE  /\ q.balance \in Nat /\ q.staked_shares \in Nat /\ q.index \in Nat /\ q.carry \in Nat
         /\ shares \in [Positions -> Int] /\ credit \in [Positions -> Int]
         /\ SumFunction(shares) = q.staked_shares /\ SumFunction(credit) \in Nat
         /\ \A x \in Positions : credit[x] <= SumFunction(credit)
         /\ \A x \in Positions : shares[x] <= q.staked_shares
<1>1. shares \in [Positions -> Nat] /\ credit \in [Positions -> Nat] /\ IsFiniteSet(Positions)
  BY PositionsFinite DEF PoolOK
<1>2. /\ SumFunction(credit) \in Nat
      /\ \A x \in Positions : credit[x] <= SumFunction(credit)
      /\ \A x \in Positions : shares[x] <= SumFunction(shares)
  BY <1>1, SumNonNegative
<1> QED BY <1>1, <1>2 DEF PoolOK, PoolObject

\* A deposit credits every position by its shares at a whole rate.
Rate(q, v) == (v * PRECISION + q.carry) \div q.staked_shares

LEMMA DepositView ==
  ASSUME ConstantsAssumption, NEW q, NEW shares, NEW credit, PoolOK(q, shares, credit),
         NEW v \in Nat, q.staked_shares > 0
  PROVE  /\ Rate(q, v) \in Nat
         /\ Deposited(q, v).index = q.index + Rate(q, v)
         /\ Deposited(q, v).balance = q.balance + v
         /\ \A grown \in [Positions -> Int] :
              (\A x \in Positions : grown[x] = credit[x] + Rate(q, v) * shares[x])
                => PoolOK(Deposited(q, v), shares, grown)
<1> DEFINE n    == q.staked_shares
           m    == v * PRECISION + q.carry
           rate == m \div n
           left == m % n
           next == Deposited(q, v)
<1>1. /\ q.balance \in Nat /\ n \in Nat /\ q.index \in Nat /\ q.carry \in Nat /\ n > 0
      /\ SumFunction(credit) \in Nat /\ PRECISION \in Nat
  BY ViewSums, PositionsFinite
<1>2. v * PRECISION \in Nat /\ m \in Nat /\ q.balance * PRECISION \in Nat
  BY <1>1
<1>r. rate = Rate(q, v)
  BY DEF Rate
<1>3. rate \in Nat /\ left \in Nat /\ m = rate * n + left
  <2> HIDE DEF m, n
  <2> QED BY <1>1, <1>2, Division
<1>4. /\ next \in PoolObject /\ next.balance = q.balance + v /\ next.staked_shares = n
      /\ next.index = q.index + rate /\ next.carry = left
  <2> DEFINE b == q.balance + v
             i == q.index + rate
  <2>1. next = Updated(q, b, i, left)
    BY DEF Deposited, Updated
  <2>2. q \in PoolObject /\ b \in Nat /\ i \in Nat
    BY <1>1, <1>3 DEF PoolOK
  <2>3. left \in Nat
    BY <1>3
  <2> HIDE DEF next, rate, left, m, n, b, i
  <2>4. /\ next \in PoolObject /\ next.balance = b /\ next.index = i /\ next.carry = left
        /\ next.staked_shares = q.staked_shares
    <3>1. Updated(q, b, i, left) \in PoolObject
      BY <2>2, <2>3, ObjectUpdate
    <3>2. /\ Updated(q, b, i, left).balance = b /\ Updated(q, b, i, left).index = i
          /\ Updated(q, b, i, left).carry = left
          /\ Updated(q, b, i, left).staked_shares = q.staked_shares
      BY <2>2, <2>3, ObjectUpdate
    <3> QED BY <2>1, <3>1, <3>2
  <2> QED BY <2>4 DEF b, i, n
<1> SUFFICES ASSUME NEW grown \in [Positions -> Int],
                    \A x \in Positions : grown[x] = credit[x] + rate * shares[x]
             PROVE  PoolOK(next, shares, grown)
  BY <1>r, <1>3, <1>4
<1> HIDE DEF next, rate, left
<1>5. SumFunction(grown) = SumFunction(credit) + rate * n
  <2>1. rate \in Int /\ IsFiniteSet(Positions)
    BY <1>3, PositionsFinite
  <2>2. credit \in [Positions -> Int] /\ shares \in [Positions -> Int]
    BY ViewSums
  <2>3. SumFunction(grown) = SumFunction(credit) + rate * SumFunction(shares)
    <3>1. grown = [x \in Positions |-> credit[x] + rate * shares[x]]
      OBVIOUS
    <3> QED BY <2>1, <2>2, <3>1, SumLinear
  <2> QED BY <2>3 DEF PoolOK
<1>6. SumFunction(grown) + left <= (q.balance + v) * PRECISION
  <2>1. SumFunction(credit) + q.carry <= q.balance * PRECISION
    BY DEF PoolOK
  <2>2. (q.balance + v) * PRECISION = q.balance * PRECISION + v * PRECISION
    BY <1>1
  <2>3. rate * n \in Nat /\ rate * n + left = v * PRECISION + q.carry
    BY <1>1, <1>3
  <2> QED BY <1>1, <1>2, <1>3, <1>5, <2>1, <2>2, <2>3
<1>7. grown \in [Positions -> Nat]
  <2> SUFFICES ASSUME NEW x \in Positions PROVE grown[x] \in Nat
    OBVIOUS
  <2>1. credit[x] \in Nat /\ shares[x] \in Nat
    BY DEF PoolOK
  <2>2. rate * shares[x] \in Nat
    BY <1>3, <2>1
  <2> QED BY <2>1, <2>2
<1> QED BY <1>4, <1>6, <1>7 DEF PoolOK

\* A position that registers brings shares and no credit.
LEMMA RegisterView ==
  ASSUME ConstantsAssumption, NEW q, NEW shares, NEW credit, PoolOK(q, shares, credit),
         NEW x \in Positions, NEW n \in Nat, shares[x] = 0
  PROVE  PoolOK([q EXCEPT !.staked_shares = @ + n], [shares EXCEPT ![x] = n], credit)
<1> DEFINE next == [q EXCEPT !.staked_shares = @ + n]
           more == [shares EXCEPT ![x] = n]
<1>1. shares \in [Positions -> Nat] /\ q \in PoolObject /\ q.staked_shares \in Nat
  BY DEF PoolOK, PoolObject
<1>2. /\ next \in PoolObject /\ next.staked_shares = q.staked_shares + n
      /\ next.balance = q.balance /\ next.carry = q.carry
  BY <1>1 DEF PoolObject
<1>3. /\ more \in [Positions -> Nat] /\ more \in [Positions -> Int] /\ more[x] = n
      /\ \A y \in Positions : y # x => more[y] = shares[y]
  BY <1>1
<1> HIDE DEF next, more
<1>4. SumFunction(more) = SumFunction(shares) - shares[x] + more[x]
  <2>1. shares \in [Positions -> Int] /\ IsFiniteSet(Positions)
    BY PositionsFinite, ViewSums
  <2> QED BY <1>3, <2>1, SumUpdate
<1>5. next.staked_shares = SumFunction(more)
  BY <1>1, <1>2, <1>3, <1>4, ViewSums
<1> QED BY <1>2, <1>3, <1>5 DEF PoolOK, next, more

\* A position that leaves takes its shares away and leaves its credit behind.
LEMMA UnregisterView ==
  ASSUME ConstantsAssumption, NEW q, NEW shares, NEW credit, PoolOK(q, shares, credit),
         NEW x \in Positions
  PROVE  PoolOK([q EXCEPT !.staked_shares = @ - shares[x]], [shares EXCEPT ![x] = 0],
                [credit EXCEPT ![x] = 0])
<1> DEFINE next == [q EXCEPT !.staked_shares = @ - shares[x]]
           less == [shares EXCEPT ![x] = 0]
           owed == [credit EXCEPT ![x] = 0]
<1>1. /\ shares \in [Positions -> Nat] /\ credit \in [Positions -> Nat] /\ q \in PoolObject
      /\ shares[x] <= q.staked_shares /\ q.staked_shares \in Nat /\ shares[x] \in Nat
      /\ credit[x] \in Nat /\ q.balance \in Nat /\ q.carry \in Nat
      /\ SumFunction(credit) \in Nat
  BY ViewSums DEF PoolOK
<1>2. /\ next \in PoolObject /\ next.staked_shares = q.staked_shares - shares[x]
      /\ next.balance = q.balance /\ next.carry = q.carry
  BY <1>1 DEF PoolObject
<1>3. /\ less \in [Positions -> Nat] /\ less \in [Positions -> Int] /\ less[x] = 0
      /\ \A y \in Positions : y # x => less[y] = shares[y]
      /\ owed \in [Positions -> Nat] /\ owed \in [Positions -> Int] /\ owed[x] = 0
      /\ \A y \in Positions : y # x => owed[y] = credit[y]
  BY <1>1
<1> HIDE DEF next, less, owed
<1>4. /\ SumFunction(less) = SumFunction(shares) - shares[x] + less[x]
      /\ SumFunction(owed) = SumFunction(credit) - credit[x] + owed[x]
  <2>1. shares \in [Positions -> Int] /\ credit \in [Positions -> Int] /\ IsFiniteSet(Positions)
    BY PositionsFinite, ViewSums
  <2> QED BY <1>3, <2>1, SumUpdate
<1>5. next.staked_shares = SumFunction(less)
  BY <1>1, <1>2, <1>3, <1>4, ViewSums
<1>6. SumFunction(owed) + next.carry <= next.balance * PRECISION
  <2>1. SumFunction(credit) + q.carry <= q.balance * PRECISION /\ q.balance * PRECISION \in Nat
    BY <1>1, PositionsFinite DEF PoolOK
  <2> QED BY <1>1, <1>2, <1>3, <1>4, <2>1
<1> QED BY <1>2, <1>3, <1>5, <1>6 DEF PoolOK, next, less, owed

\* A position that claims takes w units out of its credit and out of the pool.
LEMMA ClaimView ==
  ASSUME ConstantsAssumption, NEW q, NEW shares, NEW credit, PoolOK(q, shares, credit),
         NEW x \in Positions, NEW w \in Nat, w * PRECISION <= credit[x], w <= q.balance
  PROVE  PoolOK([q EXCEPT !.balance = @ - w], shares,
                [credit EXCEPT ![x] = @ - w * PRECISION])
<1> DEFINE next == [q EXCEPT !.balance = @ - w]
           c    == w * PRECISION
           owed == [credit EXCEPT ![x] = @ - c]
<1>1. /\ credit \in [Positions -> Nat] /\ q \in PoolObject /\ credit[x] \in Nat
      /\ q.balance \in Nat /\ q.carry \in Nat /\ SumFunction(credit) \in Nat
      /\ PRECISION \in Nat
  BY ViewSums, PositionsFinite DEF PoolOK
<1>2. c \in Nat /\ c <= credit[x]
  BY <1>1
<1>3. /\ next \in PoolObject /\ next.staked_shares = q.staked_shares
      /\ next.balance = q.balance - w /\ next.carry = q.carry
  BY <1>1 DEF PoolObject
<1>4. (q.balance - w) * PRECISION = q.balance * PRECISION - c /\ q.balance * PRECISION \in Nat
  BY <1>1
<1> HIDE DEF next, c
<1>5. /\ owed \in [Positions -> Nat] /\ owed \in [Positions -> Int] /\ owed[x] = credit[x] - c
      /\ \A y \in Positions : y # x => owed[y] = credit[y]
  BY <1>1, <1>2
<1> HIDE DEF owed
<1>6. SumFunction(owed) = SumFunction(credit) - credit[x] + owed[x]
  <2>1. credit \in [Positions -> Int] /\ IsFiniteSet(Positions)
    BY PositionsFinite, ViewSums
  <2> QED BY <1>5, <2>1, SumUpdate
<1>7. SumFunction(owed) + next.carry <= next.balance * PRECISION
  <2>1. SumFunction(credit) + q.carry <= q.balance * PRECISION
    BY DEF PoolOK
  <2> QED BY <1>1, <1>2, <1>3, <1>4, <1>5, <1>6, <2>1
<1> QED BY <1>3, <1>5, <1>7 DEF PoolOK, next, owed, c

--------------------------------------------------------------------------------
(* Registrations: one entry per currency, naming a pool *)

Entry == [pool : Pools, debt : Nat]
Currencies == {CurrencyOf[p] : p \in Pools}
Registrations == UNION {[C -> Entry] : C \in SUBSET Currencies}

RegistrationsOK == registrations \in [Positions -> Registrations]

LEMMA RegistrationTyped ==
  ASSUME RegistrationsOK, NEW x \in Positions, NEW p \in Pools, HasRegistration(x, p)
  PROVE  Registration(x, p) \in Entry /\ Registration(x, p).debt \in Nat
BY DEF RegistrationsOK, Registrations, HasRegistration, Registration, Entry

\* An entry written for one currency: x is registered with p at that debt, with no
\* other pool of p's currency, and nothing else moved.
LEMMA EntryWritten ==
  ASSUME RegistrationsOK, NEW x \in Positions, NEW p \in Pools, NEW d \in Nat,
         registrations' = [registrations EXCEPT ![x] = WithRegistration(x, p, d)]
  PROVE  /\ RegistrationsOK'
         /\ RegisteredWith(x, p)' /\ Registration(x, p)'.debt = d
         /\ \A o \in Pools : (CurrencyOf[o] = CurrencyOf[p] /\ o # p) => ~RegisteredWith(x, o)'
         /\ \A y \in Positions, o \in Pools :
              (y # x \/ CurrencyOf[o] # CurrencyOf[p]) =>
                /\ RegisteredWith(y, o)' <=> RegisteredWith(y, o)
                /\ RegisteredWith(y, o) => Registration(y, o)' = Registration(y, o)
<1> DEFINE new == WithRegistration(x, p, d)
<1>1. registrations[x] \in Registrations
  BY DEF RegistrationsOK
<1>2. PICK C \in SUBSET Currencies : registrations[x] \in [C -> Entry]
  BY <1>1 DEF Registrations
<1>3. /\ DOMAIN new = C \cup {CurrencyOf[p]}
      /\ new[CurrencyOf[p]] = [pool |-> p, debt |-> d]
      /\ \A c \in C : c # CurrencyOf[p] => new[c] = registrations[x][c]
  BY <1>2 DEF WithRegistration
<1>4. new \in [C \cup {CurrencyOf[p]} -> Entry]
  BY <1>2 DEF WithRegistration, Entry
<1>5. new \in Registrations
  BY <1>2, <1>4 DEF Registrations, Currencies
<1> HIDE DEF new
<1>6. /\ registrations'[x] = new
      /\ \A y \in Positions : y # x => registrations'[y] = registrations[y]
  BY DEF RegistrationsOK, new
<1>7. RegistrationsOK'
  BY <1>5 DEF RegistrationsOK, new
<1>8. RegisteredWith(x, p)' /\ Registration(x, p)'.debt = d
  BY <1>3, <1>6 DEF RegisteredWith, HasRegistration, Registration
<1>9. ASSUME NEW o \in Pools, CurrencyOf[o] = CurrencyOf[p], o # p
      PROVE  ~RegisteredWith(x, o)'
  BY <1>3, <1>6, <1>9 DEF RegisteredWith, HasRegistration, Registration
<1>10. ASSUME NEW y \in Positions, NEW o \in Pools, y # x \/ CurrencyOf[o] # CurrencyOf[p]
       PROVE  /\ RegisteredWith(y, o)' <=> RegisteredWith(y, o)
              /\ RegisteredWith(y, o) => Registration(y, o)' = Registration(y, o)
  <2>1. CASE y # x
    BY <1>6, <2>1 DEF RegisteredWith, HasRegistration, Registration
  <2>2. CASE y = x
    BY <1>2, <1>3, <1>6, <1>10, <2>2 DEF RegisteredWith, HasRegistration, Registration
  <2> QED BY <2>1, <2>2
<1> QED BY <1>7, <1>8, <1>9, <1>10

\* An entry removed.
LEMMA EntryRemoved ==
  ASSUME RegistrationsOK, NEW x \in Positions, NEW p \in Pools, RegisteredWith(x, p),
         registrations' = [registrations EXCEPT ![x] = WithoutRegistration(x, p)]
  PROVE  /\ RegistrationsOK'
         /\ ~RegisteredWith(x, p)'
         /\ \A y \in Positions, o \in Pools :
              (y # x \/ o # p) =>
                /\ RegisteredWith(y, o)' <=> RegisteredWith(y, o)
                /\ RegisteredWith(y, o) => Registration(y, o)' = Registration(y, o)
<1> DEFINE new == WithoutRegistration(x, p)
<1>1. registrations[x] \in Registrations
  BY DEF RegistrationsOK
<1>2. PICK C \in SUBSET Currencies : registrations[x] \in [C -> Entry]
  BY <1>1 DEF Registrations
<1>3. new = [c \in C \ {CurrencyOf[p]} |-> registrations[x][c]]
  BY <1>2 DEF WithoutRegistration, Restrict
<1>4. /\ new \in [C \ {CurrencyOf[p]} -> Entry] /\ DOMAIN new = C \ {CurrencyOf[p]}
      /\ \A c \in C : c # CurrencyOf[p] => new[c] = registrations[x][c]
  BY <1>2, <1>3
<1>5. new \in Registrations
  BY <1>2, <1>4 DEF Registrations
<1> HIDE DEF new
<1>6. /\ registrations'[x] = new
      /\ \A y \in Positions : y # x => registrations'[y] = registrations[y]
  BY DEF RegistrationsOK, new
<1>7. RegistrationsOK'
  BY <1>5 DEF RegistrationsOK, new
<1>8. ~RegisteredWith(x, p)'
  BY <1>4, <1>6 DEF RegisteredWith, HasRegistration, Registration
<1>9. ASSUME NEW y \in Positions, NEW o \in Pools, y # x \/ o # p
      PROVE  /\ RegisteredWith(y, o)' <=> RegisteredWith(y, o)
             /\ RegisteredWith(y, o) => Registration(y, o)' = Registration(y, o)
  <2>1. CASE y # x
    BY <1>6, <2>1 DEF RegisteredWith, HasRegistration, Registration
  <2>2. CASE y = x
    <3>1. CASE CurrencyOf[o] = CurrencyOf[p]
      BY <1>2, <1>4, <1>6, <1>9, <2>2, <3>1 DEF RegisteredWith, HasRegistration, Registration
    <3>2. CASE CurrencyOf[o] # CurrencyOf[p]
      BY <1>2, <1>4, <1>6, <2>2, <3>2 DEF RegisteredWith, HasRegistration, Registration
    <3> QED BY <3>1, <3>2
  <2> QED BY <2>1, <2>2
<1> QED BY <1>7, <1>8, <1>9

--------------------------------------------------------------------------------
(* The view of one pool, before and after a call *)

Credits(p) == [x \in Positions |-> Owed(x, p)]
ViewOK(p) == PoolOK(pool[p], SharesIn(p), Credits(p))

AmountsOK == amount \in [Positions -> Nat]

\* The same stakes are registered with o, with the same shares and debts.
SameMembers(o) ==
  \A y \in Positions :
    /\ RegisteredWith(y, o)' <=> RegisteredWith(y, o)
    /\ RegisteredWith(y, o) =>
         amount'[y] = amount[y] /\ Registration(y, o)'.debt = Registration(y, o).debt

\* What a call may do to a view: nothing, a payment of v, x joins, x leaves, or x
\* takes the whole units of its credit.
Kept(o) == pool'[o] = pool[o] /\ SharesIn(o)' = SharesIn(o) /\ Credits(o)' = Credits(o)

Paid(o, v) ==
  /\ pool[o].staked_shares > 0 /\ v > 0
  /\ pool'[o] = Deposited(pool[o], v)
  /\ pool'[o].balance = pool[o].balance + v
  /\ SharesIn(o)' = SharesIn(o)
  /\ Credits(o)' = [x \in Positions |-> Credits(o)[x] + SharesIn(o)[x] * Rate(pool[o], v)]

SameFunds(o) == pool'[o].balance = pool[o].balance /\ pool'[o].carry = pool[o].carry

Joined(x, o) ==
  /\ SharesIn(o)[x] = 0 /\ amount[x] > 0
  /\ SharesIn(o)' = [SharesIn(o) EXCEPT ![x] = amount[x]]
  /\ Credits(o)' = Credits(o) /\ SameFunds(o)

Left(x, o) ==
  /\ SharesIn(o)[x] > 0 /\ Credits(o)[x] \div PRECISION = 0
  /\ SharesIn(o)' = [SharesIn(o) EXCEPT ![x] = 0]
  /\ Credits(o)' = [Credits(o) EXCEPT ![x] = 0] /\ SameFunds(o)

TookReward(x, o) ==
  /\ SharesIn(o)[x] > 0
  /\ pool'[o].balance = pool[o].balance - (Credits(o)[x] \div PRECISION)
  /\ pool'[o].carry = pool[o].carry
  /\ SharesIn(o)' = SharesIn(o)
  /\ Credits(o)' = [Credits(o) EXCEPT ![x] = @ % PRECISION]

ViewStep(o) ==
  \/ Kept(o)
  \/ \E v \in Nat : Paid(o, v)
  \/ \E x \in Positions : Joined(x, o) \/ Left(x, o) \/ TookReward(x, o)

\* What the view says of one position.
LEMMA CreditOf ==
  ASSUME RegistrationsOK, AmountsOK, NEW x \in Positions, NEW p \in Pools, ViewOK(p),
         RegisteredWith(x, p)
  PROVE  /\ Owed(x, p) \in Nat /\ amount[x] \in Nat /\ pool[p].index \in Nat
         /\ Registration(x, p).debt \in Nat /\ amount[x] * pool[p].index \in Nat
         /\ Owed(x, p) = amount[x] * pool[p].index - Registration(x, p).debt
         /\ SharesIn(p)[x] = amount[x] /\ Credits(p)[x] = Owed(x, p)
<1>1. Credits(p)[x] = Owed(x, p) /\ Credits(p)[x] \in Nat
  BY DEF ViewOK, PoolOK, Credits
<1>2. amount[x] \in Nat /\ pool[p].index \in Nat
  BY DEF ViewOK, PoolOK, PoolObject, AmountsOK
<1>3. Registration(x, p).debt \in Nat
  BY RegistrationTyped DEF RegisteredWith
<1>4. amount[x] * pool[p].index \in Nat
  BY <1>2
<1>5. Owed(x, p) = amount[x] * pool[p].index - Registration(x, p).debt
  BY DEF Owed
<1>6. SharesIn(p)[x] = amount[x]
  BY DEF SharesIn
<1> QED BY <1>1, <1>2, <1>3, <1>4, <1>5, <1>6

\* A pool no call touched.
LEMMA ViewKept ==
  ASSUME NEW o \in Pools, ViewOK(o), SameMembers(o), pool'[o] = pool[o]
  PROVE  /\ ViewOK(o)' /\ Kept(o)
         /\ \A y \in Positions : Owed(y, o)' = Owed(y, o)
<1>1. \A y \in Positions : Owed(y, o)' = Owed(y, o)
  BY DEF SameMembers, Owed
<1>2. SharesIn(o)' = SharesIn(o)
  BY DEF SameMembers, SharesIn
<1>3. Credits(o)' = Credits(o)
  BY <1>1 DEF Credits
<1>4. ViewOK(o)'
  BY <1>2, <1>3 DEF ViewOK
<1> QED BY <1>1, <1>2, <1>3, <1>4 DEF Kept

\* A pool that was paid v.
LEMMA ViewPaid ==
  ASSUME ConstantsAssumption, RegistrationsOK, AmountsOK, NEW o \in Pools, ViewOK(o),
         SameMembers(o), NEW v \in Nat, v > 0, pool[o].staked_shares > 0,
         pool'[o] = Deposited(pool[o], v)
  PROVE  /\ ViewOK(o)' /\ Paid(o, v)
         /\ \A y \in Positions : Owed(y, o)' >= Owed(y, o)
<1> DEFINE q     == pool[o]
           rate  == Rate(q, v)
           next  == Deposited(q, v)
           grown == Credits(o)'
<1>1. /\ rate \in Nat /\ next.index = q.index + rate /\ next.balance = q.balance + v
      /\ \A g \in [Positions -> Int] :
           (\A x \in Positions : g[x] = Credits(o)[x] + rate * SharesIn(o)[x])
             => PoolOK(next, SharesIn(o), g)
  BY DepositView DEF ViewOK
<1> HIDE DEF next, rate
<1>2. SharesIn(o)' = SharesIn(o)
  BY DEF SameMembers, SharesIn
<1>3. ASSUME NEW y \in Positions
      PROVE  /\ grown[y] = Owed(y, o)' /\ Owed(y, o)' \in Int /\ Owed(y, o)' >= Owed(y, o)
             /\ Owed(y, o)' = Credits(o)[y] + rate * SharesIn(o)[y]
  <2>1. grown[y] = Owed(y, o)'
    BY DEF Credits
  <2>2. CASE RegisteredWith(y, o)
    <3>1. /\ Owed(y, o) \in Nat /\ amount[y] \in Nat /\ q.index \in Nat
          /\ Registration(y, o).debt \in Nat
          /\ Owed(y, o) = amount[y] * q.index - Registration(y, o).debt
          /\ SharesIn(o)[y] = amount[y] /\ Credits(o)[y] = Owed(y, o)
      BY <2>2, CreditOf
    <3>2. Owed(y, o)' = amount[y] * (q.index + rate) - Registration(y, o).debt
      BY <1>1, <2>2 DEF SameMembers, Owed, next
    <3>3. amount[y] * (q.index + rate) = amount[y] * q.index + rate * amount[y]
      BY <1>1, <3>1
    <3>4. rate * amount[y] \in Nat /\ amount[y] * q.index \in Nat
      BY <1>1, <3>1
    <3> HIDE DEF q, grown
    <3> QED BY <2>1, <3>1, <3>2, <3>3, <3>4
  <2>3. CASE ~RegisteredWith(y, o)
    <3>1. Owed(y, o) = 0 /\ Owed(y, o)' = 0
      BY <2>3 DEF SameMembers, Owed
    <3>2. Credits(o)[y] = 0 /\ SharesIn(o)[y] = 0
      BY <2>3, <3>1 DEF Credits, SharesIn
    <3>3. rate * 0 = 0
      BY <1>1
    <3> QED BY <2>1, <3>1, <3>2, <3>3
  <2> QED BY <2>2, <2>3
<1>4. grown \in [Positions -> Int]
  BY <1>3 DEF Credits
<1>5. PoolOK(next, SharesIn(o), grown)
  <2> HIDE DEF grown
  <2> QED BY <1>1, <1>3, <1>4
<1>6. ViewOK(o)'
  BY <1>2, <1>5 DEF ViewOK, next
<1>7. grown = [x \in Positions |-> Credits(o)[x] + SharesIn(o)[x] * Rate(pool[o], v)]
  <2>1. ASSUME NEW y \in Positions
        PROVE  grown[y] = Credits(o)[y] + SharesIn(o)[y] * Rate(pool[o], v)
    <3>1. SharesIn(o)[y] \in Nat
      BY DEF ViewOK, PoolOK
    <3>2. rate * SharesIn(o)[y] = SharesIn(o)[y] * rate
      BY <1>1, <3>1
    <3> HIDE DEF grown
    <3> QED BY <1>3, <3>2 DEF rate
  <2> QED BY <2>1 DEF Credits
<1>8. Paid(o, v)
  <2>1. pool'[o] = Deposited(q, v) /\ pool'[o].balance = q.balance + v
    BY <1>1 DEF next
  <2> QED BY <1>2, <1>7, <2>1 DEF Paid
<1> QED BY <1>3, <1>6, <1>8

\* A pool from which x claimed its reward.
LEMMA ViewClaimed ==
  ASSUME ConstantsAssumption, RegistrationsOK, AmountsOK, NEW x \in Positions,
         NEW p \in Pools, ViewOK(p), RegisteredWith(x, p), amount[x] > 0, Payable(x, p),
         amount' = amount, RegisteredWith(x, p)',
         Registration(x, p)'.debt = Registration(x, p).debt + Reward(x, p) * PRECISION,
         \A y \in Positions : y # x =>
            /\ RegisteredWith(y, p)' <=> RegisteredWith(y, p)
            /\ RegisteredWith(y, p) => Registration(y, p)' = Registration(y, p),
         pool'[p] = Claimed(x, p)
  PROVE  /\ ViewOK(p)' /\ TookReward(x, p)
         /\ Reward(x, p) \in Nat /\ Reward(x, p) = Owed(x, p) \div PRECISION
         /\ Owed(x, p)' = Owed(x, p) - Reward(x, p) * PRECISION
         /\ pool'[p].balance = pool[p].balance - Reward(x, p)
         /\ \A y \in Positions : y # x => Owed(y, p)' = Owed(y, p)
<1> DEFINE w == Reward(x, p)
           owed == Owed(x, p)
           d == Registration(x, p).debt
           q == pool[p]
           next == [q EXCEPT !.balance = @ - w]
<1>1. /\ owed \in Nat /\ amount[x] \in Nat /\ q.index \in Nat /\ d \in Nat
      /\ owed = amount[x] * q.index - d /\ amount[x] * q.index \in Nat
      /\ Credits(p)[x] = owed
  BY CreditOf
<1>2. w = owed \div PRECISION
  BY <1>1 DEF Reward, calculate_reward
<1>3. w \in Nat /\ w * PRECISION <= owed /\ w <= q.balance
  <2>1. w <= q.balance
    BY DEF Payable
  <2>2. owed \in Nat
    BY <1>1
  <2> HIDE DEF w, owed
  <2> QED BY <1>2, <2>1, <2>2, PositionsFinite, Division, DivisionFloor
<1>4. pool'[p] = next /\ next.index = q.index /\ next.balance = q.balance - w
  BY DEF Claimed, ViewOK, PoolOK, PoolObject
<1>5. Owed(x, p)' = owed - w * PRECISION
  <2>1. Owed(x, p)' = amount[x] * q.index - (d + w * PRECISION)
    BY <1>4 DEF Owed
  <2>2. w * PRECISION \in Nat
    BY <1>3, PositionsFinite
  <2> HIDE DEF w, owed, d, q
  <2> QED BY <1>1, <2>1, <2>2
<1>6. \A y \in Positions : y # x => Owed(y, p)' = Owed(y, p)
  BY <1>4 DEF Owed
<1>7. SharesIn(p)' = SharesIn(p)
  BY DEF SharesIn
<1>8. Credits(p)' = [Credits(p) EXCEPT ![x] = @ - w * PRECISION]
  <2> HIDE DEF w
  <2> QED BY <1>1, <1>5, <1>6 DEF Credits
<1>9. PoolOK(next, SharesIn(p), [Credits(p) EXCEPT ![x] = @ - w * PRECISION])
  <2>1. PoolOK(q, SharesIn(p), Credits(p))
    BY DEF ViewOK
  <2> HIDE DEF w, q, owed
  <2> QED BY <1>1, <1>3, <2>1, ClaimView
<1>10. ViewOK(p)'
  <2> HIDE DEF next, w
  <2> QED BY <1>4, <1>7, <1>8, <1>9 DEF ViewOK
<1>11. TookReward(x, p)
  <2>1. SharesIn(p)[x] > 0
    BY DEF SharesIn
  <2>2. owed - w * PRECISION = owed % PRECISION
    <3>1. owed \in Nat /\ PRECISION \in Nat /\ PRECISION > 0
      BY <1>1, PositionsFinite
    <3> HIDE DEF w, owed
    <3>2. owed = w * PRECISION + (owed % PRECISION) /\ owed % PRECISION \in Nat
      BY <1>2, <3>1, Division
    <3>3. w * PRECISION \in Nat
      BY <1>3, <3>1
    <3> QED BY <3>1, <3>2, <3>3
  <2>3. [Credits(p) EXCEPT ![x] = @ - w * PRECISION] = [Credits(p) EXCEPT ![x] = @ % PRECISION]
    <3> HIDE DEF w, owed
    <3> QED BY <1>1, <2>2
  <2>4. pool'[p].carry = q.carry
    BY <1>4 DEF ViewOK, PoolOK, PoolObject
  <2> HIDE DEF w
  <2> QED BY <1>1, <1>2, <1>4, <1>7, <1>8, <2>1, <2>3, <2>4 DEF TookReward
<1> QED BY <1>2, <1>3, <1>4, <1>5, <1>6, <1>10, <1>11

\* A pool in which x registered at the current index.
LEMMA ViewJoined ==
  ASSUME ConstantsAssumption, AmountsOK, NEW x \in Positions, NEW p \in Pools, ViewOK(p),
         ~RegisteredWith(x, p), amount[x] > 0, amount' = amount, RegisteredWith(x, p)',
         Registration(x, p)'.debt = amount[x] * pool[p].index,
         \A y \in Positions : y # x =>
            /\ RegisteredWith(y, p)' <=> RegisteredWith(y, p)
            /\ RegisteredWith(y, p) => Registration(y, p)' = Registration(y, p),
         pool'[p] = [pool[p] EXCEPT !.staked_shares = @ + amount[x]]
  PROVE  /\ ViewOK(p)' /\ Joined(x, p)
         /\ \A y \in Positions : Owed(y, p)' = Owed(y, p)
<1> DEFINE q    == pool[p]
           n    == amount[x]
           next == [q EXCEPT !.staked_shares = @ + n]
<1>1. q \in PoolObject /\ q.index \in Nat /\ n \in Nat /\ SharesIn(p) \in [Positions -> Nat]
  BY DEF ViewOK, PoolOK, PoolObject, AmountsOK
<1>2. SharesIn(p)[x] = 0 /\ Owed(x, p) = 0
  BY DEF SharesIn, Owed
<1>3. pool'[p] = next /\ next.index = q.index
  BY <1>1 DEF PoolObject
<1>4. Owed(x, p)' = 0
  <2>1. Owed(x, p)' = n * q.index - n * q.index
    BY <1>3 DEF Owed
  <2>2. n * q.index \in Nat
    BY <1>1
  <2> HIDE DEF n, q
  <2> QED BY <2>1, <2>2
<1>5. \A y \in Positions : Owed(y, p)' = Owed(y, p)
  <2> SUFFICES ASSUME NEW y \in Positions, y # x PROVE Owed(y, p)' = Owed(y, p)
    BY <1>2, <1>4
  <2> QED BY <1>3 DEF Owed
<1>6. Credits(p)' = Credits(p)
  BY <1>5 DEF Credits
<1>7. SharesIn(p)' = [SharesIn(p) EXCEPT ![x] = n]
  BY DEF SharesIn
<1>8. PoolOK(next, [SharesIn(p) EXCEPT ![x] = n], Credits(p))
  <2>1. PoolOK(q, SharesIn(p), Credits(p))
    BY DEF ViewOK
  <2> HIDE DEF n, q
  <2> QED BY <1>1, <1>2, <2>1, RegisterView
<1>9. ViewOK(p)'
  <2> HIDE DEF next, n
  <2> QED BY <1>3, <1>6, <1>7, <1>8 DEF ViewOK
<1>10. Joined(x, p)
  <2>1. next.balance = q.balance /\ next.carry = q.carry
    BY <1>1 DEF PoolObject
  <2> QED BY <1>2, <1>3, <1>6, <1>7, <2>1 DEF Joined, SameFunds
<1> QED BY <1>5, <1>9, <1>10

\* A pool that x left.
LEMMA ViewLeft ==
  ASSUME ConstantsAssumption, RegistrationsOK, AmountsOK, NEW x \in Positions,
         NEW p \in Pools, ViewOK(p), RegisteredWith(x, p), amount[x] > 0,
         Reward(x, p) = 0, amount' = amount, ~RegisteredWith(x, p)',
         \A y \in Positions : y # x =>
            /\ RegisteredWith(y, p)' <=> RegisteredWith(y, p)
            /\ RegisteredWith(y, p) => Registration(y, p)' = Registration(y, p),
         pool'[p] = [pool[p] EXCEPT !.staked_shares = @ - amount[x]]
  PROVE  /\ ViewOK(p)' /\ Left(x, p)
         /\ Owed(x, p) < PRECISION
         /\ \A y \in Positions : y # x => Owed(y, p)' = Owed(y, p)
<1> DEFINE q    == pool[p]
           next == [q EXCEPT !.staked_shares = @ - SharesIn(p)[x]]
<1>1. SharesIn(p)[x] = amount[x]
  BY DEF SharesIn
<1>2. q \in PoolObject
  BY DEF ViewOK, PoolOK
<1>3. pool'[p] = next /\ next.index = q.index
  BY <1>1, <1>2 DEF PoolObject
<1>4. Owed(x, p)' = 0
  BY DEF Owed
<1>5. \A y \in Positions : y # x => Owed(y, p)' = Owed(y, p)
  BY <1>3 DEF Owed
<1>6. Credits(p)' = [Credits(p) EXCEPT ![x] = 0]
  BY <1>4, <1>5 DEF Credits
<1>7. SharesIn(p)' = [SharesIn(p) EXCEPT ![x] = 0]
  BY DEF SharesIn
<1>8. PoolOK(next, [SharesIn(p) EXCEPT ![x] = 0], [Credits(p) EXCEPT ![x] = 0])
  <2>1. PoolOK(q, SharesIn(p), Credits(p))
    BY DEF ViewOK
  <2> HIDE DEF q
  <2> QED BY <2>1, UnregisterView
<1>9. ViewOK(p)'
  <2> HIDE DEF next
  <2> QED BY <1>3, <1>6, <1>7, <1>8 DEF ViewOK
<1>10. /\ Owed(x, p) \in Nat /\ Credits(p)[x] = Owed(x, p)
       /\ Owed(x, p) = amount[x] * q.index - Registration(x, p).debt
  BY CreditOf
<1>11. Owed(x, p) \div PRECISION = 0
  BY <1>10 DEF Reward, calculate_reward
<1>12. Owed(x, p) < PRECISION
  <2>1. Owed(x, p) - 0 * PRECISION < PRECISION
    BY <1>10, <1>11, PositionsFinite, DivisionFloor
  <2> QED BY <1>10, <2>1, PositionsFinite
<1>13. Left(x, p)
  <2>1. next.balance = q.balance /\ next.carry = q.carry
    BY <1>2 DEF PoolObject
  <2> QED BY <1>1, <1>3, <1>6, <1>7, <1>10, <1>11, <2>1 DEF Left, SameFunds
<1> QED BY <1>5, <1>9, <1>12, <1>13

--------------------------------------------------------------------------------
(* The invariant *)

Funds == [settled : Nat, redeemed : Nat, arriving : Nat, coins : Nat]

AddressesOK ==
  /\ address \in [Pools -> Funds]
  /\ \A p \in Pools : address[p].redeemed <= address[p].settled

\* A position that holds nothing is registered nowhere, and a routed stake that was
\* not created holds nothing.
HoldingsOK ==
  /\ derived \subseteq Routed
  /\ \A x \in Positions, p \in Pools : RegisteredWith(x, p) => amount[x] > 0
  /\ \A r \in Routed : r \notin derived => amount[r] = 0
  /\ \A x \in Positions : amount[x] <= ShareSupply

RoutedInv ==
  /\ pool \in [Pools -> PoolObject] /\ AmountsOK /\ RegistrationsOK
  /\ AddressesOK /\ HoldingsOK
  /\ \A p \in Pools : ViewOK(p)

\* RoutedInv holds of the world before the first call.
LEMMA RoutedInit == ASSUME ConstantsAssumption, Init PROVE RoutedInv
<1> USE DEF Init
<1>1. pool \in [Pools -> PoolObject] /\ AmountsOK /\ AddressesOK
  BY DEF NewPool, PoolObject, AmountsOK, AddressesOK, Funds, NoFunds
<1>2. RegistrationsOK
  <2>1. NoRegistrations \in [{} -> Entry]
    BY DEF NoRegistrations
  <2>2. NoRegistrations \in Registrations
    BY <2>1 DEF Registrations
  <2> QED BY <2>2 DEF RegistrationsOK
<1>3. \A x \in Positions, p \in Pools : ~RegisteredWith(x, p)
  BY DEF RegisteredWith, HasRegistration, NoRegistrations
<1>4. HoldingsOK
  BY <1>3 DEF HoldingsOK, Positions
<1>5. ASSUME NEW p \in Pools PROVE ViewOK(p)
  <2> DEFINE zero == [x \in Positions |-> 0]
  <2>1. SharesIn(p) = zero /\ Credits(p) = zero
    BY <1>3 DEF SharesIn, Credits, Owed
  <2>2. zero \in [Positions -> Int] /\ zero \in [Positions -> Nat] /\ \A x \in Positions : zero[x] = 0
    OBVIOUS
  <2> HIDE DEF zero
  <2>3. SumFunction(zero) = 0
    BY <2>2, PositionsFinite, SumZero
  <2>4. /\ pool[p] \in PoolObject /\ pool[p].staked_shares = 0 /\ pool[p].carry = 0
        /\ pool[p].balance = 0
    BY DEF NewPool, PoolObject
  <2>5. 0 + 0 <= 0 * PRECISION
    BY PositionsFinite
  <2> QED BY <2>1, <2>2, <2>3, <2>4, <2>5 DEF ViewOK, PoolOK
<1> QED BY <1>1, <1>2, <1>4, <1>5 DEF RoutedInv

--------------------------------------------------------------------------------
(* One step per call.  Safe is what every one of them must show. *)

Safe == RoutedInv' /\ RouteKept /\ \A o \in Pools : ViewStep(o)

LEMMA OwedIsNatural ==
  ASSUME NEW p \in Pools, ViewOK(p), NEW x \in Positions
  PROVE  Owed(x, p) \in Nat
BY DEF ViewOK, PoolOK, Credits

\* A routed stake whose credit did not fall is no concern of RouteKept.
LEMMA NothingFell ==
  ASSUME RoutedInv, RoutedInv',
         \A x \in Positions, p \in Pools : Owed(x, p)' >= Owed(x, p)
  PROVE  RouteKept
<1> SUFFICES ASSUME NEW r \in Routed, NEW p \in Pools, Owed(r, p)' < Owed(r, p)
             PROVE  FALSE
  BY DEF RouteKept
<1>1. r \in Positions
  BY DEF Positions
<1>2. Owed(r, p) \in Nat
  BY <1>1, OwedIsNatural DEF RoutedInv
<1>3. Owed(r, p)' \in Nat
  BY <1>1 DEF RoutedInv, ViewOK, PoolOK, Credits
<1> QED BY <1>1, <1>2, <1>3

\* A step that touches no pool, no registration and no registered stake.
LEMMA QuietStep ==
  ASSUME RoutedInv, pool' = pool, registrations' = registrations,
         \A y \in Positions, o \in Pools : RegisteredWith(y, o) => amount'[y] = amount[y],
         AmountsOK', AddressesOK', HoldingsOK'
  PROVE  Safe
<1>1. ASSUME NEW o \in Pools
      PROVE  ViewOK(o)' /\ Kept(o) /\ \A y \in Positions : Owed(y, o)' = Owed(y, o)
  <2>1. SameMembers(o)
    BY DEF SameMembers, RegisteredWith, HasRegistration, Registration
  <2> QED BY <2>1, ViewKept DEF RoutedInv
<1>2. RoutedInv'
  BY <1>1 DEF RoutedInv, RegistrationsOK
<1>3. RouteKept
  <2>1. ASSUME NEW x \in Positions, NEW p \in Pools PROVE Owed(x, p)' >= Owed(x, p)
    BY <1>1, OwedIsNatural DEF RoutedInv
  <2> QED BY <1>2, <2>1, NothingFell
<1> QED BY <1>1, <1>2, <1>3 DEF Safe, ViewStep

\* stake::new and stake::destroy write the amount of a stake registered nowhere.
LEMMA AmountStep ==
  ASSUME RoutedInv, NEW x \in Positions, NEW n \in Nat, n <= ShareSupply,
         \A o \in Pools : ~RegisteredWith(x, o),
         amount' = [amount EXCEPT ![x] = n], x \in Routed /\ x \notin derived' => n = 0,
         derived \subseteq derived', derived' \subseteq Routed,
         UNCHANGED <<pool, registrations, address>>
  PROVE  Safe
<1>1. AmountsOK' /\ amount'[x] = n /\ \A y \in Positions : y # x => amount'[y] = amount[y]
  BY DEF RoutedInv, AmountsOK
<1>2. \A y \in Positions, o \in Pools : RegisteredWith(y, o) => amount'[y] = amount[y]
  BY <1>1
<1>3. HoldingsOK'
  <2>1. \A y \in Positions, o \in Pools : RegisteredWith(y, o)' => amount'[y] > 0
    BY <1>1 DEF RoutedInv, HoldingsOK, RegisteredWith, HasRegistration, Registration
  <2>2. \A r \in Routed : r \notin derived' => amount'[r] = 0
    BY <1>1 DEF RoutedInv, HoldingsOK, Positions
  <2>3. \A y \in Positions : amount'[y] <= ShareSupply
    BY <1>1 DEF RoutedInv, HoldingsOK
  <2> QED BY <2>1, <2>2, <2>3 DEF HoldingsOK
<1>4. AddressesOK'
  BY DEF RoutedInv, AddressesOK
<1> QED BY <1>1, <1>2, <1>3, <1>4, QuietStep

\* A stake with nothing is registered nowhere.
LEMMA EmptyUnregistered ==
  ASSUME RoutedInv, NEW x \in Positions, amount[x] = 0
  PROVE  \A o \in Pools : ~RegisteredWith(x, o)
BY DEF RoutedInv, HoldingsOK

LEMMA NewStakeStep ==
  ASSUME ConstantsAssumption, RoutedInv, NEW x \in Positions, NEW n \in 1..ShareSupply,
         NewStake(x, n), amount[x] = 0, x \in Routed => x \in derived',
         derived \subseteq derived', derived' \subseteq Routed
  PROVE  Safe
<1>1. n \in Nat /\ n <= ShareSupply
  BY DEF ConstantsAssumption
<1>2. amount' = [amount EXCEPT ![x] = n] /\ UNCHANGED <<pool, registrations, address>>
  BY DEF NewStake
<1> QED BY <1>1, <1>2, EmptyUnregistered, AmountStep

LEMMA DestroyStakeStep ==
  ASSUME ConstantsAssumption, RoutedInv, NEW x \in Positions, DestroyStake(x)
  PROVE  Safe
<1>1. \A o \in Pools : ~RegisteredWith(x, o)
  BY DEF DestroyStake, NothingRegistered, NoRegistrations, RegisteredWith, HasRegistration
<1>2. /\ amount' = [amount EXCEPT ![x] = 0] /\ derived' = derived
      /\ UNCHANGED <<pool, registrations, address>> /\ derived \subseteq Routed
      /\ 0 \in Nat /\ 0 <= ShareSupply
  BY DEF DestroyStake, ConstantsAssumption, RoutedInv, HoldingsOK
<1> QED BY <1>1, <1>2, AmountStep

\* What happens at an address alone.
LEMMA AddressStep ==
  ASSUME RoutedInv, AddressesOK', UNCHANGED <<pool, derived, amount, registrations>>
  PROVE  Safe
<1>1. AmountsOK'
  BY DEF RoutedInv, AmountsOK
<1>2. HoldingsOK'
  BY DEF RoutedInv, HoldingsOK, RegisteredWith, HasRegistration, Registration
<1> QED BY <1>1, <1>2, QuietStep

\* One address whose record is a record of naturals with no more redeemed than settled.
LEMMA AddressWritten ==
  ASSUME AddressesOK, NEW p \in Pools, NEW f \in Funds, f.redeemed <= f.settled,
         address' = [address EXCEPT ![p] = f]
  PROVE  AddressesOK'
BY DEF AddressesOK

CoinsMoved(f, c, a) == [f EXCEPT !.coins = c, !.arriving = a]

LEMMA CoinsMovedRecord ==
  ASSUME NEW f \in Funds, NEW c \in Nat, NEW a \in Nat
  PROVE  /\ CoinsMoved(f, c, a) \in Funds
         /\ CoinsMoved(f, c, a).redeemed = f.redeemed /\ CoinsMoved(f, c, a).settled = f.settled
BY DEF Funds, CoinsMoved

LEMMA RecoverCoinsStep ==
  ASSUME RoutedInv, NEW p \in Pools, NEW v \in Nat, RecoverCoins(p, v)
  PROVE  Safe
<1> DEFINE f == [address[p] EXCEPT !.coins = @ - v, !.arriving = @ + v]
<1>1. address[p] \in Funds /\ address[p].redeemed <= address[p].settled
  BY DEF RoutedInv, AddressesOK
<1>2. v <= address[p].coins
  BY <1>1 DEF RecoverCoins, Funds
<1>3. f \in Funds /\ f.redeemed <= f.settled
  <2>1. /\ address[p].coins - v \in Nat /\ address[p].arriving + v \in Nat
        /\ address[p].coins \in Nat /\ address[p].arriving \in Nat
        /\ address[p].settled \in Nat /\ address[p].redeemed \in Nat
    BY <1>1, <1>2 DEF Funds
  <2> DEFINE c == address[p].coins - v
             a == address[p].arriving + v
             g == address[p]
  <2>2. f = CoinsMoved(g, c, a)
    BY DEF CoinsMoved
  <2>3. g \in Funds /\ c \in Nat /\ a \in Nat /\ g.redeemed <= g.settled
    BY <1>1, <2>1
  <2> HIDE DEF g, c, a, f
  <2>4. CoinsMoved(g, c, a) \in Funds
    BY <2>3, CoinsMovedRecord
  <2>5. CoinsMoved(g, c, a).redeemed = g.redeemed /\ CoinsMoved(g, c, a).settled = g.settled
    BY <2>3, CoinsMovedRecord
  <2> QED BY <2>2, <2>3, <2>4, <2>5
<1>4. address' = [address EXCEPT ![p] = f]
  BY DEF RecoverCoins
<1> HIDE DEF f
<1>5. AddressesOK'
  BY <1>3, <1>4, AddressWritten DEF RoutedInv
<1> QED BY <1>5, AddressStep DEF RecoverCoins

LEMMA SendStep ==
  ASSUME RoutedInv, NEW p \in Pools, NEW v \in Nat, SendFunds(p, v) \/ SendCoins(p, v)
  PROVE  Safe
<1>1. address[p] \in Funds /\ address[p].redeemed <= address[p].settled
  BY DEF RoutedInv, AddressesOK
<1>2. CASE SendFunds(p, v)
  <2> DEFINE f == [address[p] EXCEPT !.arriving = @ + v]
  <2>1. f \in Funds /\ f.redeemed <= f.settled
    BY <1>1 DEF Funds
  <2>2. address' = [address EXCEPT ![p] = f]
    BY <1>2 DEF SendFunds
  <2> HIDE DEF f
  <2>3. AddressesOK'
    BY <2>1, <2>2, AddressWritten DEF RoutedInv
  <2> QED BY <1>2, <2>3, AddressStep DEF SendFunds
<1>3. CASE SendCoins(p, v)
  <2> DEFINE f == [address[p] EXCEPT !.coins = @ + v]
  <2>1. f \in Funds /\ f.redeemed <= f.settled
    BY <1>1 DEF Funds
  <2>2. address' = [address EXCEPT ![p] = f]
    BY <1>3 DEF SendCoins
  <2> HIDE DEF f
  <2>3. AddressesOK'
    BY <2>1, <2>2, AddressWritten DEF RoutedInv
  <2> QED BY <1>3, <2>3, AddressStep DEF SendCoins
<1> QED BY <1>2, <1>3

LEMMA NextCommitStep ==
  ASSUME RoutedInv, NextCommit
  PROVE  Safe
<1>1. AddressesOK'
  <2>1. ASSUME NEW p \in Pools
        PROVE  address'[p] \in Funds /\ address'[p].redeemed <= address'[p].settled
    BY DEF RoutedInv, AddressesOK, Funds, NextCommit
  <2>2. DOMAIN address' = Pools /\ address' = [p \in Pools |-> address'[p]]
    BY DEF NextCommit
  <2> QED BY <2>1, <2>2 DEF AddressesOK
<1> QED BY <1>1, AddressStep DEF NextCommit

\* The parts of RoutedInv that are about holdings, when only registrations moved.
LEMMA HoldingsKept ==
  ASSUME RoutedInv, amount' = amount, derived' = derived,
         \A y \in Positions, o \in Pools : RegisteredWith(y, o)' => amount[y] > 0
  PROVE  AmountsOK' /\ HoldingsOK'
BY DEF RoutedInv, AmountsOK, HoldingsOK

\* register_stake, by a holder or through a wrapper.
LEMMA RegisterStep ==
  ASSUME ConstantsAssumption, RoutedInv, NEW x \in Positions, NEW p \in Pools,
         RegisterStake(x, p)
  PROVE  Safe
<1> DEFINE d == amount[x] * pool[p].index
<1>1. RegistrationsOK /\ AmountsOK /\ pool \in [Pools -> PoolObject]
  BY DEF RoutedInv
<1>2. d \in Nat /\ amount[x] > 0
  <2>1. amount[x] \in Nat /\ pool[p].index \in Nat
    BY <1>1 DEF AmountsOK, PoolObject
  <2> QED BY <2>1 DEF RegisterStake
<1>3. /\ registrations' = [registrations EXCEPT ![x] = WithRegistration(x, p, d)]
      /\ pool' = [pool EXCEPT ![p].staked_shares = @ + amount[x]]
      /\ UNCHANGED <<derived, amount, address, outside>>
      /\ ~HasRegistration(x, p)
  BY DEF RegisterStake
<1> HIDE DEF d
<1>4. /\ RegistrationsOK'
      /\ RegisteredWith(x, p)' /\ Registration(x, p)'.debt = d
      /\ \A o \in Pools : (CurrencyOf[o] = CurrencyOf[p] /\ o # p) => ~RegisteredWith(x, o)'
      /\ \A y \in Positions, o \in Pools :
           (y # x \/ CurrencyOf[o] # CurrencyOf[p]) =>
             /\ RegisteredWith(y, o)' <=> RegisteredWith(y, o)
             /\ RegisteredWith(y, o) => Registration(y, o)' = Registration(y, o)
  BY <1>1, <1>2, <1>3, EntryWritten
<1>5. ViewOK(p)' /\ Joined(x, p) /\ \A y \in Positions : Owed(y, p)' = Owed(y, p)
  <2>1. ~RegisteredWith(x, p)
    BY <1>3 DEF RegisteredWith
  <2>2. pool'[p] = [pool[p] EXCEPT !.staked_shares = @ + amount[x]]
    BY <1>1, <1>3
  <2>3. /\ ViewOK(p) /\ amount' = amount
        /\ \A y \in Positions : y # x =>
             /\ RegisteredWith(y, p)' <=> RegisteredWith(y, p)
             /\ RegisteredWith(y, p) => Registration(y, p)' = Registration(y, p)
    BY <1>3, <1>4 DEF RoutedInv
  <2> QED BY <1>1, <1>2, <1>4, <2>1, <2>2, <2>3, ViewJoined DEF d
<1>6. ASSUME NEW o \in Pools, o # p
      PROVE  ViewOK(o)' /\ Kept(o) /\ \A y \in Positions : Owed(y, o)' = Owed(y, o)
  <2>1. SameMembers(o)
    <3>1. CurrencyOf[o] = CurrencyOf[p] => ~RegisteredWith(x, o)
      BY <1>3 DEF RegisteredWith, HasRegistration
    <3> QED BY <1>3, <1>4, <1>6, <3>1 DEF SameMembers
  <2>2. pool'[o] = pool[o] /\ ViewOK(o)
    BY <1>1, <1>3, <1>6 DEF RoutedInv
  <2> QED BY <2>1, <2>2, ViewKept
<1>7. \A o \in Pools : ViewOK(o)' /\ ViewStep(o)
  BY <1>5, <1>6 DEF ViewStep
<1>8. RoutedInv'
  <2>1. \A y \in Positions, o \in Pools : RegisteredWith(y, o)' => amount[y] > 0
    BY <1>2, <1>4 DEF RoutedInv, HoldingsOK
  <2>2. AmountsOK' /\ HoldingsOK'
    BY <1>3, <2>1, HoldingsKept
  <2>3. pool' \in [Pools -> PoolObject]
    <3>1. \A o \in Pools : pool'[o] \in PoolObject
      BY <1>7 DEF ViewOK, PoolOK
    <3> QED BY <1>1, <1>3, <3>1
  <2>4. AddressesOK'
    BY <1>3 DEF RoutedInv, AddressesOK
  <2> QED BY <1>4, <1>7, <2>2, <2>3, <2>4 DEF RoutedInv
<1>9. RouteKept
  <2>1. ASSUME NEW y \in Positions, NEW o \in Pools PROVE Owed(y, o)' >= Owed(y, o)
    <3>1. Owed(y, o)' = Owed(y, o)
      BY <1>5, <1>6
    <3> QED BY <3>1, OwedIsNatural DEF RoutedInv
  <2> QED BY <1>8, <2>1, NothingFell
<1> QED BY <1>7, <1>8, <1>9 DEF Safe

\* unregister_stake, by a holder or through a wrapper.
LEMMA UnregisterStep ==
  ASSUME ConstantsAssumption, RoutedInv, NEW x \in Positions, NEW p \in Pools,
         UnregisterStake(x, p)
  PROVE  Safe
<1>1. RegistrationsOK /\ AmountsOK /\ pool \in [Pools -> PoolObject]
  BY DEF RoutedInv
<1>2. /\ registrations' = [registrations EXCEPT ![x] = WithoutRegistration(x, p)]
      /\ pool' = [pool EXCEPT ![p].staked_shares = @ - amount[x]]
      /\ UNCHANGED <<derived, amount, address, outside>>
      /\ RegisteredWith(x, p) /\ Reward(x, p) = 0
  BY DEF UnregisterStake, Drained
<1>3. amount[x] > 0
  BY <1>2 DEF RoutedInv, HoldingsOK
<1>4. /\ RegistrationsOK' /\ ~RegisteredWith(x, p)'
      /\ \A y \in Positions, o \in Pools :
           (y # x \/ o # p) =>
             /\ RegisteredWith(y, o)' <=> RegisteredWith(y, o)
             /\ RegisteredWith(y, o) => Registration(y, o)' = Registration(y, o)
  BY <1>1, <1>2, EntryRemoved
<1>5. /\ ViewOK(p)' /\ Left(x, p) /\ Owed(x, p) < PRECISION
      /\ \A y \in Positions : y # x => Owed(y, p)' = Owed(y, p)
  <2>1. pool'[p] = [pool[p] EXCEPT !.staked_shares = @ - amount[x]]
    BY <1>1, <1>2
  <2>2. /\ ViewOK(p) /\ amount' = amount
        /\ \A y \in Positions : y # x =>
             /\ RegisteredWith(y, p)' <=> RegisteredWith(y, p)
             /\ RegisteredWith(y, p) => Registration(y, p)' = Registration(y, p)
    BY <1>2, <1>4 DEF RoutedInv
  <2> QED BY <1>1, <1>2, <1>3, <1>4, <2>1, <2>2, ViewLeft
<1>6. ASSUME NEW o \in Pools, o # p
      PROVE  ViewOK(o)' /\ Kept(o) /\ \A y \in Positions : Owed(y, o)' = Owed(y, o)
  <2>1. SameMembers(o)
    BY <1>2, <1>4, <1>6 DEF SameMembers
  <2>2. pool'[o] = pool[o] /\ ViewOK(o)
    BY <1>1, <1>2, <1>6 DEF RoutedInv
  <2> QED BY <2>1, <2>2, ViewKept
<1>7. \A o \in Pools : ViewOK(o)' /\ ViewStep(o)
  BY <1>5, <1>6 DEF ViewStep
<1>8. RoutedInv'
  <2>1. \A y \in Positions, o \in Pools : RegisteredWith(y, o)' => amount[y] > 0
    BY <1>4 DEF RoutedInv, HoldingsOK
  <2>2. AmountsOK' /\ HoldingsOK'
    BY <1>2, <2>1, HoldingsKept
  <2>3. pool' \in [Pools -> PoolObject]
    <3>1. \A o \in Pools : pool'[o] \in PoolObject
      BY <1>7 DEF ViewOK, PoolOK
    <3> QED BY <1>1, <1>2, <3>1
  <2>4. AddressesOK'
    BY <1>2 DEF RoutedInv, AddressesOK
  <2> QED BY <1>4, <1>7, <2>2, <2>3, <2>4 DEF RoutedInv
<1>9. RouteKept
  <2> SUFFICES ASSUME NEW r \in Routed, NEW o \in Pools, Owed(r, o)' < Owed(r, o)
               PROVE  ~RegisteredWith(r, o)' /\ Owed(r, o) < PRECISION
    BY DEF RouteKept
  <2>1. r \in Positions
    BY DEF Positions
  <2>2. Owed(r, o) \in Nat
    BY <2>1, OwedIsNatural DEF RoutedInv
  <2>3. r = x /\ o = p
    BY <1>5, <1>6, <2>1, <2>2
  <2> QED BY <1>4, <1>5, <2>3
<1> QED BY <1>7, <1>8, <1>9 DEF Safe

\* A payment of v into one pool, by deposit or by settle.
LEMMA PaymentStep ==
  ASSUME ConstantsAssumption, RoutedInv, AddressesOK', NEW p \in Pools, NEW v \in Nat,
         DepositAccepted(pool[p], v), pool' = [pool EXCEPT ![p] = Deposited(@, v)],
         UNCHANGED <<derived, amount, registrations>>
  PROVE  Safe
<1>1. /\ RegistrationsOK /\ AmountsOK /\ pool \in [Pools -> PoolObject]
      /\ pool[p].staked_shares > 0 /\ v > 0
  BY DEF RoutedInv, DepositAccepted
<1>2. \A o \in Pools : SameMembers(o)
  BY DEF SameMembers, RegisteredWith, HasRegistration, Registration
<1>3. ViewOK(p)' /\ Paid(p, v) /\ \A y \in Positions : Owed(y, p)' >= Owed(y, p)
  <2>1. pool'[p] = Deposited(pool[p], v) /\ ViewOK(p)
    BY <1>1 DEF RoutedInv
  <2> QED BY <1>1, <1>2, <2>1, ViewPaid
<1>4. ASSUME NEW o \in Pools, o # p
      PROVE  ViewOK(o)' /\ Kept(o) /\ \A y \in Positions : Owed(y, o)' = Owed(y, o)
  <2>1. pool'[o] = pool[o] /\ ViewOK(o)
    BY <1>1, <1>4 DEF RoutedInv
  <2> QED BY <1>2, <2>1, ViewKept
<1>5. \A o \in Pools : ViewOK(o)' /\ ViewStep(o)
  BY <1>3, <1>4 DEF ViewStep
<1>6. RoutedInv'
  <2>1. \A y \in Positions, o \in Pools : RegisteredWith(y, o)' => amount[y] > 0
    BY <1>2 DEF SameMembers, RoutedInv, HoldingsOK
  <2>2. AmountsOK' /\ HoldingsOK'
    BY <2>1, HoldingsKept
  <2>3. pool' \in [Pools -> PoolObject]
    <3>1. \A o \in Pools : pool'[o] \in PoolObject
      BY <1>5 DEF ViewOK, PoolOK
    <3> QED BY <1>1, <3>1
  <2>4. RegistrationsOK'
    BY <1>1 DEF RegistrationsOK
  <2> QED BY <1>5, <2>2, <2>3, <2>4 DEF RoutedInv
<1>7. RouteKept
  <2>1. ASSUME NEW y \in Positions, NEW o \in Pools PROVE Owed(y, o)' >= Owed(y, o)
    <3>1. CASE o = p
      BY <1>3, <3>1
    <3>2. CASE o # p
      <4>1. Owed(y, o)' = Owed(y, o) /\ Owed(y, o) \in Nat
        BY <1>4, <3>2, OwedIsNatural DEF RoutedInv
      <4> QED BY <4>1
    <3> QED BY <3>1, <3>2
  <2> QED BY <1>6, <2>1, NothingFell
<1> QED BY <1>5, <1>6, <1>7 DEF Safe

LEMMA DepositStep ==
  ASSUME ConstantsAssumption, RoutedInv, NEW p \in Pools, NEW v \in Nat, Deposit(p, v)
  PROVE  Safe
<1>1. AddressesOK'
  BY DEF Deposit, RoutedInv, AddressesOK
<1> QED BY <1>1, PaymentStep DEF Deposit

LEMMA SettleStep ==
  ASSUME ConstantsAssumption, RoutedInv, NEW p \in Pools, Settle(p)
  PROVE  Safe
<1> DEFINE v == SettledValue(p)
           f == [address[p] EXCEPT !.redeemed = v]
<1>1. address[p] \in Funds
  BY DEF RoutedInv, AddressesOK
<1>2. v \in Nat /\ v <= address[p].settled
  BY <1>1 DEF SettledValue, Funds
<1>3. f \in Funds /\ f.redeemed <= f.settled
  <2> HIDE DEF v
  <2> QED BY <1>1, <1>2 DEF Funds
<1>4. /\ address' = [address EXCEPT ![p] = f] /\ DepositAccepted(pool[p], v)
      /\ pool' = [pool EXCEPT ![p] = Deposited(@, v)]
      /\ UNCHANGED <<derived, amount, registrations>>
  BY DEF Settle
<1> HIDE DEF f, v
<1>5. AddressesOK'
  BY <1>3, <1>4, AddressWritten DEF RoutedInv
<1> QED BY <1>2, <1>4, <1>5, PaymentStep

\* claim_rewards at p, whatever becomes of the reward.
LEMMA ClaimAt ==
  ASSUME ConstantsAssumption, RoutedInv, NEW x \in Positions, NEW p \in Pools,
         ClaimRewards(x, p), pool'[p] = Claimed(x, p), UNCHANGED <<derived, amount>>
  PROVE  /\ RegistrationsOK' /\ AmountsOK' /\ HoldingsOK' /\ ViewOK(p)' /\ TookReward(x, p)
         /\ RegisteredWith(x, p)' /\ Reward(x, p) \in Nat /\ Reward(x, p) <= pool[p].balance
         /\ Owed(x, p)' = Owed(x, p) - Reward(x, p) * PRECISION
         /\ pool'[p].balance = pool[p].balance - Reward(x, p)
         /\ \A y \in Positions : y # x => Owed(y, p)' = Owed(y, p)
         /\ \A o \in Pools : o # p => SameMembers(o)
<1> DEFINE d == Registration(x, p).debt + Reward(x, p) * PRECISION
<1>1. RegistrationsOK /\ AmountsOK /\ ViewOK(p)
  BY DEF RoutedInv
<1>2. /\ RegisteredWith(x, p) /\ Payable(x, p)
      /\ registrations' = [registrations EXCEPT ![x] = WithRegistration(x, p, d)]
  BY DEF ClaimRewards
<1>3. amount[x] > 0
  BY <1>2 DEF RoutedInv, HoldingsOK
<1>4. d \in Nat
  <2>1. /\ Registration(x, p).debt \in Nat /\ Owed(x, p) \in Nat
        /\ Owed(x, p) = amount[x] * pool[p].index - Registration(x, p).debt
    BY <1>1, <1>2, CreditOf
  <2>2. Reward(x, p) = Owed(x, p) \div PRECISION
    BY <2>1 DEF Reward, calculate_reward
  <2>3. Reward(x, p) \in Nat
    BY <2>1, <2>2, PositionsFinite, Division
  <2> QED BY <2>1, <2>3, PositionsFinite
<1> HIDE DEF d
<1>5. /\ RegistrationsOK'
      /\ RegisteredWith(x, p)' /\ Registration(x, p)'.debt = d
      /\ \A o \in Pools : (CurrencyOf[o] = CurrencyOf[p] /\ o # p) => ~RegisteredWith(x, o)'
      /\ \A y \in Positions, o \in Pools :
           (y # x \/ CurrencyOf[o] # CurrencyOf[p]) =>
             /\ RegisteredWith(y, o)' <=> RegisteredWith(y, o)
             /\ RegisteredWith(y, o) => Registration(y, o)' = Registration(y, o)
  BY <1>1, <1>2, <1>4, EntryWritten
<1>6. /\ ViewOK(p)' /\ TookReward(x, p)
      /\ Reward(x, p) \in Nat /\ Reward(x, p) = Owed(x, p) \div PRECISION
      /\ Owed(x, p)' = Owed(x, p) - Reward(x, p) * PRECISION
      /\ pool'[p].balance = pool[p].balance - Reward(x, p)
      /\ \A y \in Positions : y # x => Owed(y, p)' = Owed(y, p)
  <2>1. Registration(x, p)'.debt = Registration(x, p).debt + Reward(x, p) * PRECISION
    BY <1>5 DEF d
  <2>2. /\ amount' = amount
        /\ \A y \in Positions : y # x =>
             /\ RegisteredWith(y, p)' <=> RegisteredWith(y, p)
             /\ RegisteredWith(y, p) => Registration(y, p)' = Registration(y, p)
    BY <1>5
  <2> QED BY <1>1, <1>2, <1>3, <1>5, <2>1, <2>2, ViewClaimed
<1>7. ASSUME NEW o \in Pools, o # p PROVE SameMembers(o)
  <2>1. CurrencyOf[o] = CurrencyOf[p] => ~RegisteredWith(x, o)
    BY <1>2, <1>7 DEF RegisteredWith, Registration
  <2> QED BY <1>5, <1>7, <2>1 DEF SameMembers
<1>8. AmountsOK' /\ HoldingsOK'
  <2>1. \A y \in Positions, o \in Pools : RegisteredWith(y, o)' => amount[y] > 0
    BY <1>3, <1>5 DEF RoutedInv, HoldingsOK
  <2> QED BY <2>1, HoldingsKept
<1>9. Reward(x, p) <= pool[p].balance
  BY <1>2 DEF Payable
<1> QED BY <1>5, <1>6, <1>7, <1>8, <1>9

\* A holder keeps what it claims; no routed stake's credit falls.
LEMMA HolderClaimsStep ==
  ASSUME ConstantsAssumption, RoutedInv, NEW s \in Holders, NEW p \in Pools,
         HolderClaims(s, p)
  PROVE  Safe
<1>1. /\ s \in Positions /\ ClaimRewards(s, p) /\ pool' = [pool EXCEPT ![p] = Claimed(s, p)]
      /\ UNCHANGED <<derived, amount, address>> /\ pool \in [Pools -> PoolObject]
  BY DEF HolderClaims, Positions, RoutedInv
<1>2. /\ RegistrationsOK' /\ AmountsOK' /\ HoldingsOK' /\ ViewOK(p)' /\ TookReward(s, p)
      /\ \A y \in Positions : y # s => Owed(y, p)' = Owed(y, p)
      /\ \A o \in Pools : o # p => SameMembers(o)
  <2>1. pool'[p] = Claimed(s, p)
    BY <1>1
  <2> QED BY <1>1, <2>1, ClaimAt
<1>3. ASSUME NEW o \in Pools, o # p
      PROVE  ViewOK(o)' /\ Kept(o) /\ \A y \in Positions : Owed(y, o)' = Owed(y, o)
  <2>1. pool'[o] = pool[o] /\ ViewOK(o)
    BY <1>1, <1>3 DEF RoutedInv
  <2> QED BY <1>2, <1>3, <2>1, ViewKept
<1>4. \A o \in Pools : ViewOK(o)' /\ ViewStep(o)
  BY <1>1, <1>2, <1>3 DEF ViewStep
<1>5. RoutedInv'
  <2>1. pool' \in [Pools -> PoolObject]
    <3>1. \A o \in Pools : pool'[o] \in PoolObject
      BY <1>4 DEF ViewOK, PoolOK
    <3> QED BY <1>1, <3>1
  <2>2. AddressesOK'
    BY <1>1 DEF RoutedInv, AddressesOK
  <2> QED BY <1>2, <1>4, <2>1, <2>2 DEF RoutedInv
<1>6. RouteKept
  <2> SUFFICES ASSUME NEW r \in Routed, NEW o \in Pools, Owed(r, o)' < Owed(r, o)
               PROVE  FALSE
    BY DEF RouteKept
  <2>1. r \in Positions /\ r # s
    BY DEF Positions, ConstantsAssumption
  <2>2. Owed(r, o) \in Nat
    BY <2>1, OwedIsNatural DEF RoutedInv
  <2> QED BY <1>2, <1>3, <2>1, <2>2
<1> QED BY <1>4, <1>5, <1>6 DEF Safe

LEMMA SweepReward ==
  ASSUME ConstantsAssumption, RoutedInv, NEW r \in Routed, NEW p \in Pools,
         NEW d \in Pools, NEW q, Sweep(r, p, d, q)
  PROVE  Reward(r, p) \in Nat
<1>1. /\ r \in Positions /\ RegisteredWith(r, p) /\ RegistrationsOK /\ AmountsOK
      /\ ViewOK(p)
  BY DEF Sweep, ClaimRewards, Positions, RoutedInv
<1>2. /\ Owed(r, p) \in Nat
      /\ Owed(r, p) = amount[r] * pool[p].index - Registration(r, p).debt
  BY <1>1, CreditOf
<1>3. Reward(r, p) = Owed(r, p) \div PRECISION
  BY <1>2 DEF Reward, calculate_reward
<1> QED BY <1>2, <1>3, PositionsFinite, Division

\* What sweep does to its destination d: nothing, a payment, or funds sent to d's
\* address.
SweepArrives(d, value) ==
  \/ value = 0 /\ pool'[d] = pool[d] /\ address' = address
  \/ /\ value > 0 /\ pool'[d] = Deposited(pool[d], value)
     /\ pool[d].staked_shares > 0 /\ address' = address
  \/ /\ value > 0 /\ pool'[d] = pool[d]
     /\ address' = [address EXCEPT ![d].arriving = @ + value]

LEMMA SweepShape ==
  ASSUME RoutedInv, NEW r \in Routed, NEW p \in Pools, NEW d \in Pools, NEW q,
         Sweep(r, p, d, q), Reward(r, p) \in Nat
  PROVE  /\ p # d /\ pool'[p] = Claimed(r, p) /\ SweepArrives(d, Reward(r, p))
         /\ \A o \in Pools : o # p /\ o # d => pool'[o] = pool[o]
         /\ pool' = [o \in Pools |-> pool'[o]]
<1> DEFINE value == Reward(r, p)
<1>1. p # d /\ pool \in [Pools -> PoolObject]
  BY DEF Sweep, SweepTypes, RoutedInv
<1>2. CASE value > 0 /\ Parks(d)
  <2>1. /\ pool' = [pool EXCEPT ![p] = Claimed(r, p)]
        /\ address' = [address EXCEPT ![d].arriving = @ + value]
    BY <1>2 DEF Sweep
  <2> HIDE DEF value
  <2>2. pool'[p] = Claimed(r, p) /\ \A o \in Pools : o # p => pool'[o] = pool[o]
    BY <1>1, <2>1
  <2>3. pool' = [o \in Pools |-> pool'[o]]
    BY <1>1, <2>1
  <2>4. SweepArrives(d, value)
    BY <1>1, <1>2, <2>1, <2>2 DEF SweepArrives
  <2> QED BY <1>1, <2>2, <2>3, <2>4 DEF value
<1>3. CASE ~(value > 0 /\ Parks(d))
  <2> DEFINE f == IF value = 0 THEN pool[d] ELSE Deposited(pool[d], value)
  <2>1. /\ value > 0 => DepositAccepted(pool[d], value)
        /\ pool' = [pool EXCEPT ![p] = Claimed(r, p),
                                ![d] = IF value = 0 THEN @ ELSE Deposited(@, value)]
        /\ address' = address
    BY <1>3 DEF Sweep
  <2>2. pool'[p] = Claimed(r, p) /\ pool'[d] = f
    BY <1>1, <2>1
  <2>3. \A o \in Pools : o # p /\ o # d => pool'[o] = pool[o]
    BY <1>1, <2>1
  <2>4. pool' = [o \in Pools |-> pool'[o]]
    BY <1>1, <2>1
  <2> HIDE DEF value
  <2>5. SweepArrives(d, value)
    <3>1. CASE value = 0
      BY <2>1, <2>2, <3>1 DEF SweepArrives
    <3>2. CASE value # 0
      <4>1. value > 0
        BY <3>2 DEF value
      <4> QED BY <2>1, <2>2, <3>2, <4>1 DEF SweepArrives, DepositAccepted
    <3> QED BY <3>1, <3>2
  <2> QED BY <1>1, <2>2, <2>3, <2>4, <2>5 DEF value
<1> QED BY <1>2, <1>3

\* What reaches d's pool or its address is the whole reward.
LEMMA SweepHeld ==
  ASSUME RoutedInv, NEW d \in Pools, NEW value \in Nat, SweepArrives(d, value)
  PROVE  Held(d)' = Held(d) + value /\ AddressesOK' /\ Held(d) \in Int
<1>1. /\ pool[d].balance \in Nat /\ address[d] \in Funds
      /\ address[d].settled \in Nat /\ address[d].redeemed \in Nat
      /\ address[d].arriving \in Nat /\ address[d].coins \in Nat
      /\ address[d].redeemed <= address[d].settled
  BY DEF RoutedInv, PoolObject, AddressesOK, Funds
<1>2. Held(d) \in Int
  BY <1>1 DEF Held
<1>3. CASE value = 0 /\ pool'[d] = pool[d] /\ address' = address
  <2>1. Held(d)' = Held(d)
    BY <1>3 DEF Held
  <2> QED BY <1>2, <1>3, <2>1 DEF RoutedInv, AddressesOK
<1>4. CASE pool'[d] = Deposited(pool[d], value) /\ address' = address
  <2>1. pool'[d].balance = pool[d].balance + value
    BY <1>4 DEF Deposited, RoutedInv, PoolObject
  <2>2. Held(d)' = Held(d) + value
    BY <1>1, <1>4, <2>1 DEF Held
  <2> QED BY <1>2, <1>4, <2>2 DEF RoutedInv, AddressesOK
<1>5. CASE pool'[d] = pool[d] /\ address' = [address EXCEPT ![d].arriving = @ + value]
  <2> DEFINE f == [address[d] EXCEPT !.arriving = @ + value]
  <2>1. /\ f \in Funds /\ f.settled = address[d].settled /\ f.redeemed = address[d].redeemed
        /\ f.arriving = address[d].arriving + value /\ f.coins = address[d].coins
    BY <1>1 DEF Funds
  <2>2. address' = [address EXCEPT ![d] = f] /\ address \in [Pools -> Funds] /\ AddressesOK
    BY <1>5 DEF RoutedInv, AddressesOK
  <2> HIDE DEF f
  <2>3. AddressesOK' /\ address'[d] = f
    BY <1>1, <2>1, <2>2, AddressWritten
  <2>4. Held(d)' = Held(d) + value
    <3>1. Held(d)' = pool[d].balance + (f.settled - f.redeemed) + f.arriving + f.coins
      BY <1>5, <2>3 DEF Held
    <3> QED BY <1>1, <2>1, <3>1 DEF Held
  <2> QED BY <1>2, <2>3, <2>4
<1> QED BY <1>3, <1>4, <1>5 DEF SweepArrives

\* sweep: a claim at the stake's pool and an arrival at the parent's.
LEMMA SweepStep ==
  ASSUME ConstantsAssumption, RoutedInv, NEW r \in Routed, NEW p \in Pools,
         NEW d \in Pools, NEW q, Sweep(r, p, d, q)
  PROVE  Safe
<1> DEFINE value == Reward(r, p)
<1>1. /\ r \in Positions /\ ClaimRewards(r, p) /\ UNCHANGED <<derived, amount>>
      /\ outside' = outside /\ ParentOf[d] = ParentOf[r] /\ ShareOf[d] = RouteShare[r]
  BY DEF Sweep, SweepTypes, DerivedFrom, Positions
<1>2. value \in Nat
  BY SweepReward
<1>3. /\ p # d /\ pool'[p] = Claimed(r, p) /\ SweepArrives(d, value)
      /\ \A o \in Pools : o # p /\ o # d => pool'[o] = pool[o]
      /\ pool' = [o \in Pools |-> pool'[o]]
  BY <1>2, SweepShape
<1>4. /\ RegistrationsOK' /\ AmountsOK' /\ HoldingsOK' /\ ViewOK(p)' /\ TookReward(r, p)
      /\ RegisteredWith(r, p)'
      /\ Owed(r, p)' = Owed(r, p) - value * PRECISION
      /\ \A y \in Positions : y # r => Owed(y, p)' = Owed(y, p)
      /\ \A o \in Pools : o # p => SameMembers(o)
  BY <1>1, <1>3, ClaimAt
<1> HIDE DEF value
<1>5. Held(d)' = Held(d) + value /\ AddressesOK' /\ Held(d) \in Int
  BY <1>2, <1>3, SweepHeld
<1>6. /\ ViewOK(d)' /\ ViewStep(d)
      /\ \A y \in Positions : Owed(y, d)' >= Owed(y, d)
  <2>1. SameMembers(d) /\ ViewOK(d) /\ RegistrationsOK /\ AmountsOK
    BY <1>3, <1>4 DEF RoutedInv
  <2>2. CASE pool'[d] = pool[d]
    <3>1. ViewOK(d)' /\ Kept(d) /\ \A y \in Positions : Owed(y, d)' = Owed(y, d)
      BY <2>1, <2>2, ViewKept
    <3>2. \A y \in Positions : Owed(y, d) \in Nat
      BY <2>1, OwedIsNatural
    <3> QED BY <3>1, <3>2 DEF ViewStep
  <2>3. CASE value > 0 /\ pool'[d] = Deposited(pool[d], value) /\ pool[d].staked_shares > 0
    <3>1. /\ ViewOK(d)' /\ Paid(d, value)
          /\ \A y \in Positions : Owed(y, d)' >= Owed(y, d)
      BY <1>2, <2>1, <2>3, ViewPaid
    <3> QED BY <1>2, <3>1 DEF ViewStep
  <2> QED BY <1>3, <2>2, <2>3 DEF SweepArrives
<1>7. ASSUME NEW o \in Pools, o # p, o # d
      PROVE  ViewOK(o)' /\ Kept(o) /\ \A y \in Positions : Owed(y, o)' = Owed(y, o)
  <2>1. pool'[o] = pool[o] /\ ViewOK(o) /\ SameMembers(o)
    BY <1>3, <1>4, <1>7 DEF RoutedInv
  <2> QED BY <2>1, ViewKept
<1>8. \A o \in Pools : ViewOK(o)' /\ ViewStep(o)
  BY <1>1, <1>4, <1>6, <1>7 DEF ViewStep
<1>9. RoutedInv'
  <2>1. pool' \in [Pools -> PoolObject]
    <3>1. \A o \in Pools : pool'[o] \in PoolObject
      BY <1>8 DEF ViewOK, PoolOK
    <3> QED BY <1>3, <3>1
  <2> QED BY <1>4, <1>5, <1>8, <2>1 DEF RoutedInv
<1>10. RouteKept
  <2> SUFFICES ASSUME NEW x \in Routed, NEW o \in Pools, Owed(x, o)' < Owed(x, o)
               PROVE  /\ RegisteredWith(x, o)' /\ outside' = outside
                      /\ \E e \in Pools :
                           /\ ParentOf[e] = ParentOf[x] /\ ShareOf[e] = RouteShare[x]
                           /\ (Held(e)' - Held(e)) * PRECISION = Owed(x, o) - Owed(x, o)'
    BY DEF RouteKept
  <2>1. x \in Positions
    BY DEF Positions
  <2>2. Owed(x, o) \in Nat
    BY <2>1, OwedIsNatural DEF RoutedInv
  <2>3. Owed(x, o)' \in Nat
    BY <1>9, <2>1 DEF RoutedInv, ViewOK, PoolOK, Credits
  <2>4. x = r /\ o = p
    BY <1>4, <1>6, <1>7, <2>1, <2>2, <2>3
  <2>5. (Held(d)' - Held(d)) * PRECISION = Owed(r, p) - Owed(r, p)'
    <3>1. Held(d)' - Held(d) = value
      BY <1>2, <1>5
    <3>2. value * PRECISION \in Nat
      BY <1>2, PositionsFinite
    <3> QED BY <1>4, <2>2, <2>3, <2>4, <3>1, <3>2
  <2> QED BY <1>1, <1>4, <2>4, <2>5
<1> QED BY <1>8, <1>9, <1>10 DEF Safe

\* Every step of the system is safe, a stuttering one included.
LEMMA RoutedStep == ASSUME ConstantsAssumption, RoutedInv, [Next]_vars PROVE Safe
<1>1. ASSUME NEW s \in Holders, NEW n \in 1..ShareSupply, HolderNewStake(s, n) PROVE Safe
  <2>1. /\ s \in Positions /\ NewStake(s, n) /\ amount[s] = 0 /\ derived' = derived
        /\ s \notin Routed /\ derived \subseteq Routed
    BY <1>1 DEF HolderNewStake, Positions, ConstantsAssumption, RoutedInv, HoldingsOK
  <2> QED BY <2>1, NewStakeStep
<1>2. ASSUME NEW x \in Positions, DestroyStake(x) PROVE Safe
  BY <1>2, DestroyStakeStep
<1>3. ASSUME NEW x \in Positions, NEW p \in Pools, RegisterStake(x, p) PROVE Safe
  BY <1>3, RegisterStep
<1>4. ASSUME NEW x \in Positions, NEW p \in Pools, UnregisterStake(x, p) PROVE Safe
  BY <1>4, UnregisterStep
<1>5. ASSUME NEW s \in Holders, NEW p \in Pools, HolderClaims(s, p) PROVE Safe
  BY <1>5, HolderClaimsStep
<1>6. ASSUME NEW p \in Pools, NEW v \in 1..CurrencySupply,
             Deposit(p, v) \/ RecoverCoins(p, v) \/ SendFunds(p, v) \/ SendCoins(p, v)
      PROVE  Safe
  <2>1. v \in Nat
    BY DEF ConstantsAssumption
  <2> QED BY <1>6, <2>1, DepositStep, RecoverCoinsStep, SendStep
<1>7. ASSUME NEW p \in Pools, Settle(p) PROVE Safe
  BY <1>7, SettleStep
<1>8. ASSUME NEW r \in Routed, NEW n \in 1..ShareSupply, RoutedNew(r, n) PROVE Safe
  <2>1. /\ r \in Positions /\ NewStake(r, n) /\ derived' = derived \cup {r}
        /\ amount[r] = 0 /\ derived' \subseteq Routed
    BY <1>8 DEF RoutedNew, Positions, RoutedInv, HoldingsOK
  <2> QED BY <2>1, NewStakeStep
<1>9. ASSUME NEW r \in Routed, NEW q \in Parents, NEW n \in 1..ShareSupply, Restake(r, q, n)
      PROVE  Safe
  <2>1. /\ r \in Positions /\ NewStake(r, n) /\ derived' = derived /\ r \in derived
        /\ ~(amount[r] > 0) /\ derived \subseteq Routed /\ amount[r] \in Nat
    BY <1>9 DEF Restake, HasStake, Positions, RoutedInv, HoldingsOK, AmountsOK
  <2>2. amount[r] = 0
    BY <2>1
  <2> QED BY <2>1, <2>2, NewStakeStep
<1>10. ASSUME NEW r \in Routed, NEW p \in Pools, NEW d \in Pools, NEW q, Sweep(r, p, d, q)
       PROVE  Safe
  BY <1>10, SweepStep
<1>11. ASSUME NextCommit PROVE Safe
  BY <1>11, NextCommitStep
<1>12. ASSUME UNCHANGED vars PROVE Safe
  <2>1. UNCHANGED <<pool, derived, amount, registrations, address>>
    BY <1>12 DEF vars
  <2>2. AddressesOK'
    BY <2>1 DEF RoutedInv, AddressesOK
  <2> QED BY <2>1, <2>2, AddressStep
<1>13. Holders \subseteq Positions /\ Routed \subseteq Positions
  BY DEF Positions
<1> QED
  <2>1. CASE \E s \in Holders : DestroyStake(s)
    BY <1>2, <1>13, <2>1
  <2>2. CASE \E s \in Holders, p \in Pools : RegisterStake(s, p) \/ UnregisterStake(s, p)
    BY <1>3, <1>4, <1>13, <2>2
  <2>3. CASE \E r \in Routed, q \in Parents, p \in Pools :
               RoutedRegister(r, q, p) \/ RoutedUnregister(r, q, p)
    BY <1>3, <1>4, <1>13, <2>3 DEF RoutedRegister, RoutedUnregister
  <2>4. CASE \E r \in Routed, q \in Parents : Unstake(r, q)
    BY <1>2, <1>13, <2>4 DEF Unstake
  <2> QED BY <1>1, <1>5, <1>6, <1>7, <1>8, <1>9, <1>10, <1>11, <1>12,
             <2>1, <2>2, <2>3, <2>4 DEF Next

\* Pool objects, wrapped stakes, their registrations and the addresses stay of their
\* types and in agreement, whatever is called, by whom and with which parent.
THEOREM RoutedInvariant == Spec => []RoutedInv
<1>1. Init => RoutedInv
  BY ConstantsAssumption, RoutedInit
<1>2. RoutedInv /\ [Next]_vars => RoutedInv'
  BY ConstantsAssumption, RoutedStep DEF Safe
<1> QED BY <1>1, <1>2, PTL DEF Spec

\* Every pool's divisor is the shares registered with it and with no other pool of its
\* currency, however stakes were wrapped, registered, unstaked and restaked.
THEOREM RoutedDivisorsExact == Spec => []DivisorsExact
<1>1. RoutedInv => DivisorsExact
  BY DEF RoutedInv, ViewOK, PoolOK, DivisorsExact
<1> QED BY <1>1, RoutedInvariant, PTL

\* No pool, and no chain of pools a sweep runs through, owes more than it holds.
THEOREM RoutedPoolsSolvent == Spec => []PoolsSolvent
<1>1. RoutedInv => PoolsSolvent
  <2> SUFFICES ASSUME RoutedInv, NEW p \in Pools
               PROVE  /\ \A x \in Positions : Owed(x, p) >= 0
                      /\ SumFunction([x \in Positions |-> Owed(x, p)]) + pool[p].carry
                           <= pool[p].balance * PRECISION
    BY DEF PoolsSolvent
  <2>1. ViewOK(p)
    BY DEF RoutedInv
  <2>2. SumFunction(Credits(p)) + pool[p].carry <= pool[p].balance * PRECISION
    BY <2>1 DEF ViewOK, PoolOK
  <2>3. \A x \in Positions : Owed(x, p) >= 0
    BY <2>1, OwedIsNatural
  <2> QED BY <2>2, <2>3 DEF Credits
<1> QED BY <1>1, RoutedInvariant, PTL

\* What a wrapped stake earns reaches its parent's pool in the step that takes it from
\* the wrapped stake's credit: by sweep alone, whole, and to no caller.
THEOREM RewardsReachTheParent == Spec => RewardsStayRouted
<1>1. RoutedInv /\ [Next]_vars => [RouteKept]_vars
  BY ConstantsAssumption, RoutedStep DEF Safe
<1> QED BY <1>1, RoutedInvariant, PTL DEF Spec, RewardsStayRouted

--------------------------------------------------------------------------------
(* That a sweep is never blocked, without ENABLED: its guard and its effect *)

\* What sweep asks of the state.
SweepAccepted(r, p, d, q) ==
  /\ SweepTypes(r, p, d)
  /\ DerivedFrom(r, q) /\ DerivedFrom(d, q)
  /\ HasStake(r)
  /\ RegisteredWith(r, p) /\ Payable(r, p)
  /\ Reward(r, p) > 0 => Parks(d) \/ DepositAccepted(pool[d], Reward(r, p))

\* What it assigns, to every variable.
SweepAssigns(r, p, d) ==
  LET value == Reward(r, p)
      parked == value > 0 /\ Parks(d)
  IN
  /\ registrations' =
       [registrations EXCEPT ![r] =
           WithRegistration(r, p, Registration(r, p).debt + value * PRECISION)]
  /\ address' = IF parked THEN [address EXCEPT ![d].arriving = @ + value] ELSE address
  /\ pool' = IF parked THEN [pool EXCEPT ![p] = Claimed(r, p)]
             ELSE [pool EXCEPT ![p] = Claimed(r, p),
                               ![d] = IF value = 0 THEN @ ELSE Deposited(@, value)]
  /\ derived' = derived /\ amount' = amount /\ outside' = outside

\* Every registered routed stake is accepted, from and to whatever pools its types and
\* its parent allow; the bound on an index stands apart.
SweepsAccepted ==
  \A r \in derived, p, d \in Pools :
    (SweepTypes(r, p, d) /\ RegisteredWith(r, p) /\ ParentOf[d] = ParentOf[r]) =>
      \/ SweepAccepted(r, p, d, ParentOf[r])
      \/ /\ pool[d].staked_shares > 0
         /\ Deposited(pool[d], Reward(r, p)).index > MaxIndex

\* An accepted sweep has a next state, and a sweep is nothing else.
LEMMA SweepIsAccepted ==
  ASSUME RoutedInv, NEW r \in Routed, NEW p \in Pools, NEW d \in Pools, NEW q,
         Reward(r, p) \in Nat
  PROVE  Sweep(r, p, d, q) <=> SweepAccepted(r, p, d, q) /\ SweepAssigns(r, p, d)
<1> DEFINE value == Reward(r, p)
<1>1. ShareOf[p] = ShareOf[r] <=> ShareOf[r] = ShareOf[p]
  OBVIOUS
<1>2. CASE value > 0 /\ Parks(d)
  BY <1>1, <1>2 DEF Sweep, SweepAccepted, SweepAssigns, ClaimRewards, SweepTypes
<1>3. CASE ~(value > 0 /\ Parks(d))
  BY <1>1, <1>3 DEF Sweep, SweepAccepted, SweepAssigns, ClaimRewards, SweepTypes
<1> QED BY <1>2, <1>3

\* The claim of a registered stake is payable: its credit is within what the pool holds.
LEMMA ClaimPayable ==
  ASSUME ConstantsAssumption, RoutedInv, NEW x \in Positions, NEW p \in Pools,
         RegisteredWith(x, p)
  PROVE  Payable(x, p) /\ Reward(x, p) \in Nat
<1>1. RegistrationsOK /\ AmountsOK /\ ViewOK(p)
  BY DEF RoutedInv
<1>2. /\ Owed(x, p) \in Nat /\ amount[x] * pool[p].index \in Nat
      /\ Registration(x, p).debt \in Nat /\ Credits(p)[x] = Owed(x, p)
      /\ Owed(x, p) = amount[x] * pool[p].index - Registration(x, p).debt
  BY <1>1, CreditOf
<1> DEFINE o == Owed(x, p)
           b == pool[p].balance
           v == Reward(x, p)
<1>3. o <= b * PRECISION /\ b \in Nat
  <2> DEFINE sum == SumFunction(Credits(p))
             c == pool[p].carry
             held == b * PRECISION
  <2>1. /\ b \in Nat /\ c \in Nat /\ sum \in Nat /\ o <= sum
    BY <1>1, <1>2, ViewSums DEF ViewOK
  <2>2. sum + c <= held
    BY <1>1 DEF ViewOK, PoolOK
  <2>3. held \in Nat
    BY <2>1, PositionsFinite
  <2> HIDE DEF sum, c, held, o, b
  <2>4. o \in Nat
    BY <1>2 DEF o
  <2>5. o <= held
    BY <2>1, <2>2, <2>3, <2>4
  <2> QED BY <2>1, <2>5 DEF held
<1>4. v = o \div PRECISION
  BY <1>2 DEF Reward, calculate_reward
<1>5. o \in Nat
  BY <1>2
<1> HIDE DEF o, b, v
<1>6. v \in Nat /\ v * PRECISION <= o
  BY <1>4, <1>5, PositionsFinite, Division
<1>7. v <= b
  <2> SUFFICES ASSUME b + 1 <= v PROVE FALSE
    BY <1>3, <1>6
  <2>1. PICK k \in Nat : v = b + 1 + k
    <3>1. v - (b + 1) \in Nat /\ v = b + 1 + (v - (b + 1))
      BY <1>3, <1>6
    <3> QED BY <3>1
  <2>2. v * PRECISION = b * PRECISION + PRECISION + k * PRECISION /\ k * PRECISION \in Nat
        /\ b * PRECISION \in Nat
    BY <1>3, <2>1, PositionsFinite
  <2> QED BY <1>3, <1>5, <1>6, <2>2, PositionsFinite
<1>8. Registration(x, p).debt <= amount[x] * pool[p].index
  BY <1>2
<1> QED BY <1>6, <1>7, <1>8 DEF Payable, b, v

\* A sweep is never blocked by its destination's state: every registered routed stake
\* is accepted for any pool of its parent, as its claim is payable and what it claims is
\* parked where it cannot be deposited.  With SweepIsAccepted, SweepNeverBlocked.
THEOREM SweepsAlwaysAccepted == Spec => []SweepsAccepted
<1>1. RoutedInv => SweepsAccepted
  <2> SUFFICES ASSUME RoutedInv, NEW r \in derived, NEW p \in Pools, NEW d \in Pools,
                      SweepTypes(r, p, d), RegisteredWith(r, p), ParentOf[d] = ParentOf[r],
                      ~(/\ pool[d].staked_shares > 0
                        /\ Deposited(pool[d], Reward(r, p)).index > MaxIndex)
               PROVE  SweepAccepted(r, p, d, ParentOf[r])
    BY DEF SweepsAccepted
  <2>1. r \in Routed /\ r \in Positions /\ HasStake(r)
    BY DEF RoutedInv, HoldingsOK, HasStake, Positions
  <2>2. Payable(r, p) /\ Reward(r, p) \in Nat
    BY <2>1, ConstantsAssumption, ClaimPayable
  <2>3. ASSUME Reward(r, p) > 0, ~Parks(d)
        PROVE  DepositAccepted(pool[d], Reward(r, p))
    <3> DEFINE v == Reward(r, p)
               i == Deposited(pool[d], v).index
    <3>1. PoolOK(pool[d], SharesIn(d), Credits(d)) /\ pool[d].index \in Nat
          /\ pool[d].staked_shares \in Nat
      BY DEF RoutedInv, ViewOK, PoolObject
    <3>2. pool[d].staked_shares > 0
      BY <2>3, <3>1 DEF Parks
    <3>3. v \in Nat
      BY <2>2
    <3> HIDE DEF v
    <3>4. Rate(pool[d], v) \in Nat /\ i = pool[d].index + Rate(pool[d], v)
      BY <3>1, <3>2, <3>3, ConstantsAssumption, DepositView
    <3> HIDE DEF i
    <3>5. i \in Nat /\ MaxIndex \in Nat
      BY <3>1, <3>4, ConstantsAssumption
    <3>6. ~(i > MaxIndex)
      BY <3>2 DEF i, v
    <3>7. i <= MaxIndex
      BY <3>5, <3>6
    <3> QED BY <2>3, <3>2, <3>7 DEF DepositAccepted, i, v
  <2>4. DerivedFrom(r, ParentOf[r]) /\ DerivedFrom(d, ParentOf[r])
    BY DEF DerivedFrom
  <2> QED BY <2>1, <2>2, <2>3, <2>4 DEF SweepAccepted
<1> QED BY <1>1, RoutedInvariant, PTL

--------------------------------------------------------------------------------
(* Conservation: what is held for the pools and what is outside is the supply *)

AllHeld == [p \in Pools |-> Held(p)]

WorldOK == outside \in Nat /\ outside + SumFunction(AllHeld) = CurrencySupply

LEMMA HeldParts ==
  ASSUME RoutedInv, NEW p \in Pools
  PROVE  /\ pool[p] \in PoolObject /\ address[p] \in Funds
         /\ pool[p].balance \in Nat /\ pool[p].staked_shares \in Nat
         /\ address[p].settled \in Nat /\ address[p].redeemed \in Nat
         /\ address[p].arriving \in Nat /\ address[p].coins \in Nat
         /\ address[p].redeemed <= address[p].settled
         /\ Held(p) = pool[p].balance + (address[p].settled - address[p].redeemed)
                        + address[p].arriving + address[p].coins
         /\ Held(p) \in Nat /\ pool[p].balance <= Held(p)
<1>1. /\ pool[p] \in PoolObject /\ address[p] \in Funds
      /\ address[p].redeemed <= address[p].settled
  BY DEF RoutedInv, AddressesOK
<1>2. /\ pool[p].balance \in Nat /\ pool[p].staked_shares \in Nat
      /\ address[p].settled \in Nat /\ address[p].redeemed \in Nat
      /\ address[p].arriving \in Nat /\ address[p].coins \in Nat
  BY <1>1 DEF PoolObject, Funds
<1> QED BY <1>1, <1>2 DEF Held

LEMMA HeldIsNatural == RoutedInv => AllHeld \in [Pools -> Nat] /\ AllHeld \in [Pools -> Int]
BY HeldParts DEF AllHeld

\* Currency that moves between one pool's place and the outside; v may be negative.
LEMMA MoveOutside ==
  ASSUME ConstantsAssumption, RoutedInv, WorldOK, NEW p \in Pools, NEW v \in Int,
         Held(p)' = Held(p) + v, \A o \in Pools : o # p => Held(o)' = Held(o),
         outside' = outside - v, outside' \in Nat
  PROVE  WorldOK'
<1>1. AllHeld \in [Pools -> Int] /\ IsFiniteSet(Pools)
  BY HeldIsNatural DEF ConstantsAssumption
<1>2. AllHeld' \in [Pools -> Int]
  <2>1. \A o \in Pools : Held(o)' \in Int
    <3>1. \A o \in Pools : Held(o) \in Int
      BY HeldParts
    <3> QED BY <3>1
  <2> QED BY <2>1 DEF AllHeld
<1>3. \A o \in Pools : o # p => AllHeld'[o] = AllHeld[o]
  BY DEF AllHeld
<1> DEFINE h == AllHeld'
<1>4. SumFunction(h) = SumFunction(AllHeld) - AllHeld[p] + h[p]
  <2>1. h \in [Pools -> Int] /\ \A o \in Pools : o # p => h[o] = AllHeld[o]
    BY <1>2, <1>3
  <2> HIDE DEF h
  <2> QED BY <1>1, <2>1, SumUpdate
<1>5. h[p] = AllHeld[p] + v /\ AllHeld[p] \in Int
  BY <1>1 DEF AllHeld
<1>6. SumFunction(AllHeld) \in Int
  BY <1>1, SumType
<1>7. SumFunction(h) = SumFunction(AllHeld) + v
  <2> HIDE DEF h
  <2> QED BY <1>4, <1>5, <1>6
<1> QED BY <1>6, <1>7 DEF WorldOK

LEMMA NothingMoved ==
  ASSUME WorldOK, \A o \in Pools : Held(o)' = Held(o), outside' = outside
  PROVE  WorldOK'
<1>1. AllHeld' = AllHeld
  BY DEF AllHeld
<1> QED BY <1>1 DEF WorldOK

\* Currency that moves from one pool's place to another's.
LEMMA MoveBetween ==
  ASSUME ConstantsAssumption, RoutedInv, WorldOK, NEW p \in Pools, NEW d \in Pools, p # d,
         NEW w \in Int, Held(p)' = Held(p) - w, Held(d)' = Held(d) + w,
         \A o \in Pools : o # p /\ o # d => Held(o)' = Held(o), outside' = outside
  PROVE  WorldOK'
<1> DEFINE f == AllHeld
           g == [f EXCEPT ![p] = Held(p) - w]
           h == AllHeld'
<1>1. f \in [Pools -> Int] /\ IsFiniteSet(Pools) /\ f[p] = Held(p) /\ f[d] = Held(d)
  BY HeldIsNatural DEF ConstantsAssumption, AllHeld
<1>2. Held(p) \in Int /\ Held(d) \in Int /\ \A o \in Pools : Held(o) \in Int
  BY HeldParts
<1>3. /\ g \in [Pools -> Int] /\ g[p] = f[p] - w /\ g[d] = f[d]
      /\ \A o \in Pools : o # p => g[o] = f[o]
  BY <1>1, <1>2
<1>4. /\ h \in [Pools -> Int] /\ h[d] = g[d] + w
      /\ \A o \in Pools : o # d => h[o] = g[o]
  BY <1>1, <1>2, <1>3 DEF AllHeld
<1> HIDE DEF f, g, h
<1>5. SumFunction(g) = SumFunction(f) - f[p] + g[p]
  BY <1>1, <1>3, SumUpdate
<1>6. SumFunction(h) = SumFunction(g) - g[d] + h[d]
  BY <1>1, <1>3, <1>4, SumUpdate
<1>7. SumFunction(f) \in Int /\ SumFunction(g) \in Int /\ f[p] \in Int /\ f[d] \in Int
  BY <1>1, <1>3, SumType
<1>8. SumFunction(h) = SumFunction(f)
  BY <1>3, <1>4, <1>5, <1>6, <1>7
<1> QED BY <1>8 DEF WorldOK, f, h

\* Register and unregister leave every pool's balance where it is.
LEMMA StakedSharesWritten ==
  ASSUME RoutedInv, NEW p \in Pools, NEW n,
         pool' = [pool EXCEPT ![p].staked_shares = n], address' = address
  PROVE  \A o \in Pools : Held(o)' = Held(o)
<1> SUFFICES ASSUME NEW o \in Pools PROVE Held(o)' = Held(o)
  OBVIOUS
<1>1. pool'[o].balance = pool[o].balance
  BY HeldParts DEF RoutedInv, PoolObject
<1> QED BY <1>1 DEF Held

LEMMA WorldDeposit ==
  ASSUME ConstantsAssumption, RoutedInv, WorldOK, NEW p \in Pools, NEW v \in Nat, Deposit(p, v)
  PROVE  WorldOK'
<1>1. /\ v <= outside /\ outside' = outside - v /\ address' = address
      /\ pool' = [pool EXCEPT ![p] = Deposited(@, v)] /\ pool \in [Pools -> PoolObject]
  BY DEF Deposit, RoutedInv
<1>2. pool[p] \in PoolObject /\ pool[p].balance \in Nat
  BY HeldParts
<1>3. pool'[p].balance = pool[p].balance + v /\ \A o \in Pools : o # p => pool'[o] = pool[o]
  BY <1>1, <1>2 DEF Deposited, PoolObject
<1>4. Held(p)' = Held(p) + v /\ \A o \in Pools : o # p => Held(o)' = Held(o)
  BY <1>1, <1>3, HeldParts DEF Held
<1>5. outside' \in Nat
  BY <1>1 DEF WorldOK
<1> QED BY <1>1, <1>4, <1>5, MoveOutside

LEMMA WorldSettle ==
  ASSUME ConstantsAssumption, RoutedInv, WorldOK, NEW p \in Pools, Settle(p)
  PROVE  WorldOK'
<1> DEFINE v == SettledValue(p)
<1>1. /\ address[p].redeemed = 0 /\ v \in Nat
      /\ address' = [address EXCEPT ![p].redeemed = v] /\ outside' = outside
      /\ pool' = [pool EXCEPT ![p] = Deposited(@, v)]
      /\ pool \in [Pools -> PoolObject] /\ address \in [Pools -> Funds]
  BY HeldParts DEF Settle, WithdrawAccepted, SettledValue, RoutedInv, AddressesOK
<1> HIDE DEF v
<1>2. /\ pool[p] \in PoolObject /\ pool[p].balance \in Nat /\ address[p] \in Funds
  BY HeldParts
<1>3. pool'[p].balance = pool[p].balance + v /\ \A o \in Pools : o # p => pool'[o] = pool[o]
  BY <1>1, <1>2 DEF Deposited, PoolObject
<1>4. /\ address'[p].redeemed = v /\ address'[p].settled = address[p].settled
      /\ address'[p].arriving = address[p].arriving /\ address'[p].coins = address[p].coins
      /\ \A o \in Pools : o # p => address'[o] = address[o]
  BY <1>1, <1>2 DEF Funds
<1>5. Held(p)' = Held(p)
  <2>1. Held(p)' = (pool[p].balance + v) + (address[p].settled - v)
                     + address[p].arriving + address[p].coins
    BY <1>3, <1>4 DEF Held
  <2> QED BY <1>1, <2>1, HeldParts
<1>6. \A o \in Pools : o # p => Held(o)' = Held(o)
  BY <1>3, <1>4 DEF Held
<1> QED BY <1>1, <1>5, <1>6, NothingMoved

LEMMA WorldRecoverCoins ==
  ASSUME ConstantsAssumption, RoutedInv, WorldOK, NEW p \in Pools, NEW v \in Nat,
         RecoverCoins(p, v)
  PROVE  WorldOK'
<1> DEFINE f == CoinsMoved(address[p], address[p].coins - v, address[p].arriving + v)
<1>1. /\ address' = [address EXCEPT ![p] = f] /\ pool' = pool /\ outside' = outside
      /\ address \in [Pools -> Funds]
  BY DEF RecoverCoins, CoinsMoved, RoutedInv, AddressesOK
<1>2. /\ f.coins = address[p].coins - v /\ f.arriving = address[p].arriving + v
      /\ f.settled = address[p].settled /\ f.redeemed = address[p].redeemed
  BY HeldParts DEF CoinsMoved, Funds
<1> HIDE DEF f
<1>3. Held(p)' = Held(p)
  <2>1. Held(p)' = pool[p].balance + (address[p].settled - address[p].redeemed)
                     + (address[p].arriving + v) + (address[p].coins - v)
    BY <1>1, <1>2 DEF Held
  <2> QED BY <2>1, HeldParts
<1>4. \A o \in Pools : o # p => Held(o)' = Held(o)
  BY <1>1 DEF Held
<1> QED BY <1>1, <1>3, <1>4, NothingMoved

LEMMA WorldSend ==
  ASSUME ConstantsAssumption, RoutedInv, WorldOK, NEW p \in Pools, NEW v \in Nat,
         SendFunds(p, v) \/ SendCoins(p, v)
  PROVE  WorldOK'
<1>1. /\ v <= outside /\ outside' = outside - v /\ pool' = pool
      /\ address \in [Pools -> Funds] /\ address[p] \in Funds
  BY HeldParts DEF SendFunds, SendCoins, RoutedInv, AddressesOK
<1>2. Held(p)' = Held(p) + v
  <2>1. CASE SendFunds(p, v)
    <3>1. /\ address'[p].arriving = address[p].arriving + v
          /\ address'[p].coins = address[p].coins /\ address'[p].settled = address[p].settled
          /\ address'[p].redeemed = address[p].redeemed
      BY <1>1, <2>1 DEF SendFunds, Funds
    <3>2. Held(p)' = pool[p].balance + (address[p].settled - address[p].redeemed)
                       + (address[p].arriving + v) + address[p].coins
      BY <1>1, <3>1 DEF Held
    <3> QED BY <3>2, HeldParts
  <2>2. CASE SendCoins(p, v)
    <3>1. /\ address'[p].coins = address[p].coins + v
          /\ address'[p].arriving = address[p].arriving
          /\ address'[p].settled = address[p].settled
          /\ address'[p].redeemed = address[p].redeemed
      BY <1>1, <2>2 DEF SendCoins, Funds
    <3>2. Held(p)' = pool[p].balance + (address[p].settled - address[p].redeemed)
                       + address[p].arriving + (address[p].coins + v)
      BY <1>1, <3>1 DEF Held
    <3> QED BY <3>2, HeldParts
  <2> QED BY <2>1, <2>2
<1>3. \A o \in Pools : o # p => Held(o)' = Held(o)
  BY <1>1 DEF SendFunds, SendCoins, Held
<1>4. outside' \in Nat
  BY <1>1 DEF WorldOK
<1> QED BY <1>1, <1>2, <1>3, <1>4, MoveOutside

LEMMA WorldNextCommit ==
  ASSUME RoutedInv, WorldOK, NextCommit
  PROVE  WorldOK'
<1>1. ASSUME NEW p \in Pools PROVE Held(p)' = Held(p)
  <2>1. Held(p)' = pool[p].balance
                     + (((address[p].settled - address[p].redeemed) + address[p].arriving) - 0)
                     + 0 + address[p].coins
    BY DEF NextCommit, Held
  <2> QED BY <2>1, HeldParts
<1> QED BY <1>1, NothingMoved DEF NextCommit

LEMMA WorldHolderClaims ==
  ASSUME ConstantsAssumption, RoutedInv, WorldOK, NEW s \in Holders, NEW p \in Pools,
         HolderClaims(s, p)
  PROVE  WorldOK'
<1> DEFINE w == Reward(s, p)
<1>1. /\ s \in Positions /\ ClaimRewards(s, p) /\ pool' = [pool EXCEPT ![p] = Claimed(s, p)]
      /\ UNCHANGED <<derived, amount, address>> /\ pool \in [Pools -> PoolObject]
      /\ outside' = outside + w
  BY DEF HolderClaims, Positions, RoutedInv
<1>2. w \in Nat /\ pool'[p].balance = pool[p].balance - w
  <2>1. pool'[p] = Claimed(s, p)
    BY <1>1
  <2> QED BY <1>1, <2>1, ClaimAt
<1> HIDE DEF w
<1>3. Held(p)' = Held(p) + (0 - w)
  BY <1>1, <1>2, HeldParts DEF Held
<1>4. \A o \in Pools : o # p => Held(o)' = Held(o)
  BY <1>1 DEF Held
<1>5. outside' = outside - (0 - w) /\ outside' \in Nat /\ 0 - w \in Int
  BY <1>1, <1>2 DEF WorldOK
<1> QED BY <1>3, <1>4, <1>5, MoveOutside

LEMMA WorldSweep ==
  ASSUME ConstantsAssumption, RoutedInv, WorldOK, NEW r \in Routed, NEW p \in Pools,
         NEW d \in Pools, NEW q, Sweep(r, p, d, q)
  PROVE  WorldOK'
<1> DEFINE w == Reward(r, p)
<1>1. /\ r \in Positions /\ ClaimRewards(r, p) /\ UNCHANGED <<derived, amount, outside>>
      /\ address \in [Pools -> Funds]
  BY DEF Sweep, Positions, RoutedInv, AddressesOK
<1>2. w \in Nat
  BY SweepReward
<1>3. /\ p # d /\ pool'[p] = Claimed(r, p) /\ SweepArrives(d, w)
      /\ \A o \in Pools : o # p /\ o # d => pool'[o] = pool[o]
  BY <1>2, SweepShape
<1>4. pool'[p].balance = pool[p].balance - w
  BY <1>1, <1>3, ClaimAt
<1> HIDE DEF w
<1>5. Held(d)' = Held(d) + w
  BY <1>2, <1>3, SweepHeld
<1>6. \A o \in Pools : o # d => address'[o] = address[o]
  BY <1>1, <1>3 DEF SweepArrives
<1>7. Held(p)' = Held(p) - w
  <2>1. address'[p] = address[p]
    BY <1>3, <1>6
  <2>2. Held(p)' = (pool[p].balance - w) + (address[p].settled - address[p].redeemed)
                     + address[p].arriving + address[p].coins
    BY <1>4, <2>1 DEF Held
  <2> QED BY <1>2, <2>2, HeldParts
<1>8. \A o \in Pools : o # p /\ o # d => Held(o)' = Held(o)
  BY <1>3, <1>6 DEF Held
<1> QED BY <1>1, <1>2, <1>3, <1>5, <1>7, <1>8, MoveBetween

LEMMA WorldInit == ASSUME ConstantsAssumption, Init PROVE WorldOK
<1>1. \A p \in Pools : Held(p) = 0
  BY DEF Init, Held, NewPool, NoFunds
<1>2. AllHeld \in [Pools -> Int] /\ (\A p \in Pools : AllHeld[p] = 0) /\ IsFiniteSet(Pools)
  BY <1>1 DEF AllHeld, ConstantsAssumption
<1>3. SumFunction(AllHeld) = 0
  BY <1>2, SumZero
<1>4. outside = CurrencySupply /\ CurrencySupply \in Nat
  BY DEF Init, ConstantsAssumption
<1> QED BY <1>3, <1>4 DEF WorldOK

LEMMA WorldStep == ASSUME ConstantsAssumption, RoutedInv, WorldOK, [Next]_vars PROVE WorldOK'
<1>1. ASSUME NEW p \in Pools, NEW v \in 1..CurrencySupply,
             Deposit(p, v) \/ RecoverCoins(p, v) \/ SendFunds(p, v) \/ SendCoins(p, v)
      PROVE  WorldOK'
  <2>1. v \in Nat
    BY DEF ConstantsAssumption
  <2> QED BY <1>1, <2>1, WorldDeposit, WorldRecoverCoins, WorldSend
<1>2. ASSUME NEW p \in Pools, Settle(p) PROVE WorldOK'
  BY <1>2, WorldSettle
<1>3. ASSUME NextCommit PROVE WorldOK'
  BY <1>3, WorldNextCommit
<1>4. ASSUME NEW s \in Holders, NEW p \in Pools, HolderClaims(s, p) PROVE WorldOK'
  BY <1>4, WorldHolderClaims
<1>5. ASSUME NEW r \in Routed, NEW p \in Pools, NEW d \in Pools, NEW q, Sweep(r, p, d, q)
      PROVE  WorldOK'
  BY <1>5, WorldSweep
<1>6. ASSUME UNCHANGED <<pool, address, outside>> PROVE WorldOK'
  BY <1>6, NothingMoved DEF Held
<1>7. ASSUME NEW x, NEW p \in Pools, RegisterStake(x, p) \/ UnregisterStake(x, p)
      PROVE  WorldOK'
  <2>1. \A o \in Pools : Held(o)' = Held(o)
    BY <1>7, StakedSharesWritten DEF RegisterStake, UnregisterStake
  <2> QED BY <1>7, <2>1, NothingMoved DEF RegisterStake, UnregisterStake
<1>8. CASE \E s \in Holders, n \in 1..ShareSupply : HolderNewStake(s, n)
  BY <1>6, <1>8 DEF HolderNewStake, NewStake
<1>9. CASE \E s \in Holders : DestroyStake(s)
  BY <1>6, <1>9 DEF DestroyStake
<1>10. CASE \E s \in Holders, p \in Pools : RegisterStake(s, p) \/ UnregisterStake(s, p)
  BY <1>7, <1>10
<1>11. CASE \E r \in Routed, n \in 1..ShareSupply : RoutedNew(r, n)
  BY <1>6, <1>11 DEF RoutedNew, NewStake
<1>12. CASE \E r \in Routed, q \in Parents, p \in Pools :
              RoutedRegister(r, q, p) \/ RoutedUnregister(r, q, p)
  BY <1>7, <1>12 DEF RoutedRegister, RoutedUnregister
<1>13. CASE \E r \in Routed, q \in Parents : Unstake(r, q)
  BY <1>6, <1>13 DEF Unstake, DestroyStake
<1>14. CASE \E r \in Routed, q \in Parents, n \in 1..ShareSupply : Restake(r, q, n)
  BY <1>6, <1>14 DEF Restake, NewStake
<1>15. CASE UNCHANGED vars
  BY <1>6, <1>15 DEF vars
<1> QED BY <1>1, <1>2, <1>3, <1>4, <1>5, <1>8, <1>9, <1>10, <1>11, <1>12, <1>13, <1>14,
           <1>15 DEF Next

\* No pool ever holds more than there is.
WithinSupply == \A p \in Pools : pool[p].balance <= CurrencySupply

LEMMA SupplyBounds == ConstantsAssumption /\ RoutedInv /\ WorldOK => WithinSupply
<1> SUFFICES ASSUME ConstantsAssumption, RoutedInv, WorldOK, NEW p \in Pools
             PROVE  pool[p].balance <= CurrencySupply
  BY DEF WithinSupply
<1>1. AllHeld \in [Pools -> Nat] /\ IsFiniteSet(Pools) /\ AllHeld[p] = Held(p)
  BY HeldIsNatural DEF ConstantsAssumption, AllHeld
<1>2. SumFunction(AllHeld) \in Nat /\ AllHeld[p] <= SumFunction(AllHeld)
  BY <1>1, SumNonNegative
<1>3. pool[p].balance <= Held(p) /\ pool[p].balance \in Nat /\ Held(p) \in Nat
  BY HeldParts
<1>4. outside \in Nat /\ outside + SumFunction(AllHeld) = CurrencySupply
  BY DEF WorldOK
<1> QED BY <1>1, <1>2, <1>3, <1>4

--------------------------------------------------------------------------------
(* Each pool, seen alone, is the ledger *)

LEMMA LedgerInit == ASSUME ConstantsAssumption, Init, NEW p \in Pools PROVE Ledger(p)!Init
<1>1. \A x \in Positions : ~RegisteredWith(x, p)
  BY DEF Init, RegisteredWith, HasRegistration, NoRegistrations
<1>2. SharesIn(p) = [x \in Positions |-> 0]
  BY <1>1 DEF SharesIn
<1>3. [x \in Positions |-> Owed(x, p)] = [x \in Positions |-> 0]
  BY <1>1 DEF Owed
<1>4. pool[p].balance = 0 /\ pool[p].carry = 0
  BY DEF Init, NewPool
<1> QED BY <1>2, <1>3, <1>4 DEF Ledger!Init

LEMMA LedgerKept == ASSUME NEW p \in Pools, Kept(p) PROVE UNCHANGED Ledger(p)!vars
BY DEF Kept, Credits, Ledger!vars

\* The ledger's sum is the sum.
LEMMA SameSum ==
  ASSUME NEW p, NEW f
  PROVE  Ledger(p)!SumFunction(f) = SumFunction(f)
BY DEF SumFunction, SumFunctionOnSet, FoldFunctionOnSet, MapThenFoldSet,
       Ledger!SumFunction, Ledger!SumFunctionOnSet, Ledger!FoldFunctionOnSet,
       Ledger!MapThenFoldSet

LEMMA LedgerPaid ==
  ASSUME ConstantsAssumption, NEW p \in Pools, ViewOK(p), NEW v \in 0..CurrencySupply,
         Paid(p, v)
  PROVE  Ledger(p)!Distribute(v)
<1> DEFINE q == pool[p]
<1>1. /\ q \in PoolObject /\ q.staked_shares = SumFunction(SharesIn(p))
      /\ SharesIn(p) \in [Positions -> Nat] /\ Credits(p) \in [Positions -> Nat]
  BY DEF ViewOK, PoolOK
<1>2. v # 0 /\ q.staked_shares > 0
  BY DEF Paid, ConstantsAssumption
<1>3. Ledger(p)!Total = q.staked_shares
  BY <1>1, SameSum DEF Ledger!Total
<1>4. Ledger(p)!Rate(v) = Rate(q, v)
  BY <1>2, <1>3 DEF Ledger!Rate, Rate
<1>5. pool'[p].carry = (v * PRECISION + q.carry) % q.staked_shares
  BY <1>1 DEF Paid, Deposited, PoolObject
<1>6. Ledger(p)!Divide(v)
  BY <1>2, <1>3, <1>5 DEF Ledger!Divide
<1>7. Credits(p)' = Ledger(p)!Credited(v)
  BY <1>4 DEF Paid, Credits, Ledger!Credited
<1> QED BY <1>6, <1>7 DEF Paid, Credits, Ledger!Distribute

\* A call that pays nothing in divides nothing.
LEMMA LedgerNoPayment ==
  ASSUME NEW p \in Pools, ViewOK(p), pool'[p].carry = pool[p].carry
  PROVE  Ledger(p)!Divide(0) /\ Ledger(p)!Credited(0) = Credits(p)
<1>1. Ledger(p)!Divide(0)
  BY DEF Ledger!Divide
<1>2. Ledger(p)!Rate(0) = 0
  BY DEF Ledger!Rate
<1>3. ASSUME NEW x \in Positions
      PROVE  Owed(x, p) + SharesIn(p)[x] * Ledger(p)!Rate(0) = Owed(x, p)
  <2>1. Owed(x, p) \in Nat /\ SharesIn(p)[x] \in Nat
    BY DEF ViewOK, PoolOK, Credits
  <2>2. SharesIn(p)[x] * 0 = 0
    BY <2>1
  <2> QED BY <1>2, <2>1, <2>2
<1>4. Ledger(p)!Credited(0) = Credits(p)
  BY <1>3 DEF Ledger!Credited, Credits
<1> QED BY <1>1, <1>4

LEMMA LedgerJoined ==
  ASSUME ConstantsAssumption, RoutedInv, NEW p \in Pools, NEW x \in Positions, Joined(x, p)
  PROVE  Ledger(p)!Next
<1>1. ViewOK(p) /\ amount[x] \in 1..ShareSupply /\ 0 \in 0..CurrencySupply
  BY DEF RoutedInv, AmountsOK, HoldingsOK, Joined, ConstantsAssumption
<1>2. Ledger(p)!Divide(0) /\ Ledger(p)!Credited(0) = Credits(p)
  BY <1>1, LedgerNoPayment DEF Joined, SameFunds
<1>3. pool'[p].balance = pool[p].balance + 0
  BY <1>1 DEF Joined, SameFunds, ViewOK, PoolOK, PoolObject
<1>4. Ledger(p)!Join(x, amount[x], 0)
  BY <1>2, <1>3 DEF Joined, Credits, Ledger!Join
<1> QED BY <1>1, <1>4 DEF Ledger!Next

LEMMA LedgerLeft ==
  ASSUME ConstantsAssumption, RoutedInv, NEW p \in Pools, NEW x \in Positions, Left(x, p)
  PROVE  Ledger(p)!Next
<1>1. ViewOK(p) /\ 0 \in 0..CurrencySupply
  BY DEF RoutedInv, ConstantsAssumption
<1>2. Ledger(p)!Divide(0) /\ Ledger(p)!Credited(0) = Credits(p)
  BY <1>1, LedgerNoPayment DEF Left, SameFunds
<1>3. pool'[p].balance = (pool[p].balance + 0) - (Ledger(p)!Credited(0)[x] \div PRECISION)
  <2>1. pool[p].balance \in Nat
    BY <1>1 DEF ViewOK, PoolOK, PoolObject
  <2> QED BY <1>2, <2>1 DEF Left, SameFunds
<1>4. Ledger(p)!Leave(x, 0)
  BY <1>2, <1>3 DEF Left, Credits, Ledger!Leave
<1> QED BY <1>1, <1>4 DEF Ledger!Next

LEMMA LedgerTookReward ==
  ASSUME NEW p \in Pools, NEW x \in Positions, TookReward(x, p)
  PROVE  Ledger(p)!Next
<1>1. Ledger(p)!Withdraw(x)
  BY DEF TookReward, Credits, Ledger!Withdraw
<1> QED BY <1>1 DEF Ledger!Next

\* What one step does to a pool's view is a step of the ledger or none.
LEMMA LedgerStep ==
  ASSUME ConstantsAssumption, RoutedInv, WithinSupply', NEW p \in Pools, ViewStep(p)
  PROVE  [Ledger(p)!Next]_(Ledger(p)!vars)
<1>1. CASE Kept(p)
  BY <1>1, LedgerKept
<1>2. ASSUME NEW v \in Nat, Paid(p, v) PROVE Ledger(p)!Next
  <2>1. pool'[p].balance <= CurrencySupply
    BY DEF WithinSupply
  <2>2. v <= pool'[p].balance
    BY <1>2, HeldParts DEF Paid
  <2>3. v \in 0..CurrencySupply
    <3>1. pool'[p].balance \in Int /\ CurrencySupply \in Nat
      BY <1>2, HeldParts DEF Paid, ConstantsAssumption
    <3> QED BY <2>1, <2>2, <3>1
  <2>4. Ledger(p)!Distribute(v)
    BY <1>2, <2>3, LedgerPaid DEF RoutedInv
  <2> QED BY <2>3, <2>4 DEF Ledger!Next
<1>3. ASSUME NEW x \in Positions, Joined(x, p) \/ Left(x, p) \/ TookReward(x, p)
      PROVE  Ledger(p)!Next
  BY <1>3, LedgerJoined, LedgerLeft, LedgerTookReward
<1> QED BY <1>1, <1>2, <1>3 DEF ViewStep

\* Each pool, seen alone, is the ledger it promises: what sweep, wrapping and
\* unstaking do to it are payments, joins, leaves and withdrawals.
THEOREM EachPoolImplementsTheLedger == Spec => EachPoolIsALedger
<1> DEFINE Start == \A p \in Pools : Ledger(p)!Init
           Step == \A p \in Pools : [Ledger(p)!Next]_(Ledger(p)!vars)
<1>1. Init => Start
  BY ConstantsAssumption, LedgerInit
<1>2. Spec => [](WorldOK /\ WithinSupply)
  <2>1. Init => WorldOK
    BY ConstantsAssumption, WorldInit
  <2>2. RoutedInv /\ WorldOK /\ [Next]_vars => WorldOK'
    BY ConstantsAssumption, WorldStep
  <2>3. RoutedInv /\ WorldOK => WithinSupply
    BY ConstantsAssumption, SupplyBounds
  <2> QED BY <2>1, <2>2, <2>3, RoutedInvariant, PTL DEF Spec
<1>3. RoutedInv /\ WithinSupply' /\ [Next]_vars => [Step]_vars
  <2> SUFFICES ASSUME RoutedInv, WithinSupply', [Next]_vars PROVE Step
    OBVIOUS
  <2>1. \A p \in Pools : ViewStep(p)
    BY ConstantsAssumption, RoutedStep DEF Safe
  <2> QED BY <2>1, ConstantsAssumption, LedgerStep
<1> HIDE DEF Start, Step
<1>4. Spec => Start /\ [][Step]_vars
  BY <1>1, <1>2, <1>3, RoutedInvariant, PTL DEF Spec
<1> QED BY <1>4 DEF EachPoolIsALedger, Start, Step
================================================================================
