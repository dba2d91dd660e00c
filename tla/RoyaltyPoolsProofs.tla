--------------------------- MODULE RoyaltyPoolsProofs ---------------------------
(***************************************************************************)
(* Several pools with common stakes, for any sets of them: the divisors    *)
(* count the registered stakes, and each pool is a RoyaltyPool.  A call at *)
(* one pool is an action of that RoyaltyPool and a stuttering step of the  *)
(* others; a call on a stake and a commit are actions of all of them.      *)
(***************************************************************************)
EXTENDS RoyaltyPools, SumTheorems

PoolRecord ==
  [status : {"absent", "unshared", "shared"}, balance : Int, staked_shares : Nat,
   index : Int, carry : Int, last_settled_at_ms : Int]

FundsRecord == [settled : Int, redeemed : Int, arriving : Int, coins : Int]

DebtMaps == UNION {[D -> Int] : D \in SUBSET Pools}

TypesOK ==
  /\ pool \in [Pools -> PoolRecord] /\ address \in [Pools -> FundsRecord]
  /\ amount \in [Stakes -> Nat] /\ live \subseteq Stakes /\ now \in Int
  /\ registrations \in [Stakes -> DebtMaps]

\* Where nothing was claimed there is nothing.
AbsentIsNew == \A p \in Pools : Usable(p) \/ pool[p] = NewPool("absent")

\* Of one pool: who is registered, at which debt, with which shares.
RegisteredAt(p) == {s \in Stakes : IsRegistered(s, p)}
DebtAt(p) == [s \in Stakes |-> IF IsRegistered(s, p) THEN registrations[s][p] ELSE 0]
SharesAt(p) == [s \in Stakes |-> IF IsRegistered(s, p) THEN amount[s] ELSE 0]

PoolsInv == TypesOK /\ AbsentIsNew /\ RegistrationsMatchPools

--------------------------------------------------------------------------------
(* The registration maps *)

LEMMA EntryWritten ==
  ASSUME TypesOK, NEW s \in Stakes, NEW p \in Pools, NEW d \in Int,
         registrations' = [registrations EXCEPT ![s] = WithDebt(s, p, d)]
  PROVE  /\ registrations' \in [Stakes -> DebtMaps]
         /\ RegisteredAt(p)' = RegisteredAt(p) \cup {s}
         /\ DebtAt(p)' = [DebtAt(p) EXCEPT ![s] = d]
         /\ \A x \in Stakes, o \in Pools : IsRegistered(x, o)' <=> IsRegistered(x, o) \/ (x = s /\ o = p)
         /\ \A o \in Pools : o # p => RegisteredAt(o)' = RegisteredAt(o) /\ DebtAt(o)' = DebtAt(o)
<1> DEFINE new == WithDebt(s, p, d)
<1>1. PICK D \in SUBSET Pools : registrations[s] \in [D -> Int]
  BY DEF TypesOK, DebtMaps
<1>2. /\ new \in [D \cup {p} -> Int] /\ DOMAIN new = D \cup {p} /\ new[p] = d
      /\ \A o \in D : o # p => new[o] = registrations[s][o]
  BY <1>1 DEF WithDebt
<1>3. new \in DebtMaps
  BY <1>1, <1>2 DEF DebtMaps
<1> HIDE DEF new
<1>4. /\ registrations'[s] = new /\ DOMAIN registrations[s] = D
      /\ \A x \in Stakes : x # s => registrations'[x] = registrations[x]
  BY <1>1 DEF TypesOK, new
<1>5. registrations' \in [Stakes -> DebtMaps]
  BY <1>3 DEF TypesOK, new
<1>6. \A x \in Stakes, o \in Pools : IsRegistered(x, o)' <=> IsRegistered(x, o) \/ (x = s /\ o = p)
  BY <1>2, <1>4 DEF IsRegistered
<1>7. RegisteredAt(p)' = RegisteredAt(p) \cup {s}
  BY <1>6 DEF RegisteredAt
<1>8. DebtAt(p)' = [DebtAt(p) EXCEPT ![s] = d]
  <2>1. ASSUME NEW x \in Stakes
        PROVE  (IF IsRegistered(x, p)' THEN registrations'[x][p] ELSE 0)
                 = IF x = s THEN d ELSE DebtAt(p)[x]
    <3>1. CASE x = s
      BY <1>2, <1>4, <1>6, <3>1
    <3>2. CASE x # s
      BY <1>4, <1>6, <3>2 DEF DebtAt
    <3> QED BY <3>1, <3>2
  <2> QED BY <2>1 DEF DebtAt
<1>9. ASSUME NEW o \in Pools, o # p
      PROVE  RegisteredAt(o)' = RegisteredAt(o) /\ DebtAt(o)' = DebtAt(o)
  <2>1. RegisteredAt(o)' = RegisteredAt(o)
    BY <1>6, <1>9 DEF RegisteredAt
  <2>2. ASSUME NEW x \in Stakes, IsRegistered(x, o)
        PROVE  registrations'[x][o] = registrations[x][o]
    BY <1>2, <1>4, <1>9, <2>2 DEF IsRegistered
  <2>3. DebtAt(o)' = DebtAt(o)
    BY <1>6, <1>9, <2>2 DEF DebtAt
  <2> QED BY <2>1, <2>3
<1> QED BY <1>5, <1>6, <1>7, <1>8, <1>9

LEMMA EntryRemoved ==
  ASSUME TypesOK, NEW s \in Stakes, NEW p \in Pools,
         registrations' = [registrations EXCEPT ![s] = WithoutDebt(s, p)]
  PROVE  /\ registrations' \in [Stakes -> DebtMaps]
         /\ RegisteredAt(p)' = RegisteredAt(p) \ {s}
         /\ DebtAt(p)' = [DebtAt(p) EXCEPT ![s] = 0]
         /\ \A x \in Stakes, o \in Pools : IsRegistered(x, o)' <=> IsRegistered(x, o) /\ ~(x = s /\ o = p)
         /\ \A o \in Pools : o # p => RegisteredAt(o)' = RegisteredAt(o) /\ DebtAt(o)' = DebtAt(o)
<1> DEFINE new == WithoutDebt(s, p)
<1>1. PICK D \in SUBSET Pools : registrations[s] \in [D -> Int]
  BY DEF TypesOK, DebtMaps
<1>2. /\ new \in [D \ {p} -> Int] /\ DOMAIN new = D \ {p}
      /\ \A o \in D : o # p => new[o] = registrations[s][o]
  BY <1>1 DEF WithoutDebt, Restrict
<1>3. new \in DebtMaps
  BY <1>1, <1>2 DEF DebtMaps
<1> HIDE DEF new
<1>4. /\ registrations'[s] = new /\ DOMAIN registrations[s] = D
      /\ \A x \in Stakes : x # s => registrations'[x] = registrations[x]
  BY <1>1 DEF TypesOK, new
<1>5. registrations' \in [Stakes -> DebtMaps]
  BY <1>3 DEF TypesOK, new
<1>6. \A x \in Stakes, o \in Pools : IsRegistered(x, o)' <=> IsRegistered(x, o) /\ ~(x = s /\ o = p)
  BY <1>2, <1>4 DEF IsRegistered
<1>7. RegisteredAt(p)' = RegisteredAt(p) \ {s}
  BY <1>6 DEF RegisteredAt
<1>8. DebtAt(p)' = [DebtAt(p) EXCEPT ![s] = 0]
  <2>1. ASSUME NEW x \in Stakes
        PROVE  (IF IsRegistered(x, p)' THEN registrations'[x][p] ELSE 0)
                 = IF x = s THEN 0 ELSE DebtAt(p)[x]
    <3>1. CASE x = s
      BY <1>6, <3>1
    <3>2. CASE x # s
      BY <1>4, <1>6, <3>2 DEF DebtAt
    <3> QED BY <3>1, <3>2
  <2> QED BY <2>1 DEF DebtAt
<1>9. ASSUME NEW o \in Pools, o # p
      PROVE  RegisteredAt(o)' = RegisteredAt(o) /\ DebtAt(o)' = DebtAt(o)
  <2>1. RegisteredAt(o)' = RegisteredAt(o)
    BY <1>6, <1>9 DEF RegisteredAt
  <2>2. ASSUME NEW x \in Stakes, IsRegistered(x, o)
        PROVE  registrations'[x][o] = registrations[x][o]
    BY <1>2, <1>4, <1>9, <2>2 DEF IsRegistered
  <2>3. DebtAt(o)' = DebtAt(o)
    BY <1>6, <1>9, <2>2 DEF DebtAt
  <2> QED BY <2>1, <2>3
<1> QED BY <1>5, <1>6, <1>7, <1>8, <1>9

--------------------------------------------------------------------------------
(* One pool at a time *)

PoolStep(o) == [Pool(o)!Next]_(Pool(o)!vars)

RegistrationsExist ==
  \A s \in Stakes : \A p \in DOMAIN registrations[s] : s \in live /\ Usable(p)
DivisorMatches(p) == pool[p].staked_shares = SumFunction(SharesAt(p))

LEMMA InvParts == PoolsInv <=> /\ TypesOK /\ AbsentIsNew /\ RegistrationsExist
                               /\ \A p \in Pools : DivisorMatches(p)
BY DEF PoolsInv, RegistrationsMatchPools, RegistrationsExist, DivisorMatches, SharesAt

LEMMA RegistrationInDomain ==
  ASSUME TypesOK, RegistrationsExist, NEW s \in Stakes, NEW p \in Pools, IsRegistered(s, p)
  PROVE  s \in live /\ Usable(p) /\ registrations[s][p] \in Int
<1>1. PICK D \in SUBSET Pools : registrations[s] \in [D -> Int]
  BY DEF TypesOK, DebtMaps
<1> QED BY <1>1 DEF IsRegistered, RegistrationsExist

\* Nothing about o moved.
Apart(o) ==
  /\ pool'[o] = pool[o] /\ address'[o] = address[o]
  /\ RegisteredAt(o)' = RegisteredAt(o) /\ DebtAt(o)' = DebtAt(o)
  /\ UNCHANGED <<live, amount, now>>

LEMMA ApartStutters == ASSUME NEW o \in Pools, Apart(o) PROVE PoolStep(o)
<1>1. UNCHANGED Pool(o)!vars
  BY DEF Apart, RegisteredAt, DebtAt, Pool!vars, Pool!poolVars, Pool!stakeVars, Pool!chainVars
<1> QED BY <1>1 DEF PoolStep

LEMMA SharesKept ==
  ASSUME NEW o \in Pools, RegisteredAt(o)' = RegisteredAt(o),
         \A s \in RegisteredAt(o) : amount'[s] = amount[s],
         pool'[o].staked_shares = pool[o].staked_shares, DivisorMatches(o)
  PROVE  DivisorMatches(o)'
<1>1. \A s \in Stakes : /\ IsRegistered(s, o)' <=> IsRegistered(s, o)
                        /\ IsRegistered(s, o) => amount'[s] = amount[s]
  BY DEF RegisteredAt
<1>2. SharesAt(o)' = SharesAt(o)
  BY <1>1 DEF SharesAt
<1> QED BY <1>2 DEF DivisorMatches

\* The shares registered with a pool are naturals, and their sum is its divisor.
LEMMA SharesOf ==
  ASSUME ConstantsAssumption, TypesOK, NEW p \in Pools, DivisorMatches(p)
  PROVE  /\ SharesAt(p) \in [Stakes -> Nat] /\ SharesAt(p) \in [Stakes -> Int]
         /\ IsFiniteSet(Stakes)
         /\ \A s \in Stakes : SharesAt(p)[s] <= pool[p].staked_shares
<1>1. SharesAt(p) \in [Stakes -> Nat] /\ SharesAt(p) \in [Stakes -> Int]
  BY DEF TypesOK, SharesAt
<1>2. IsFiniteSet(Stakes)
  BY DEF ConstantsAssumption
<1> QED BY <1>1, <1>2, SumNonNegative DEF DivisorMatches

\* A stake brings its shares when it registers and takes them away when it leaves.
LEMMA SharesJoin ==
  ASSUME ConstantsAssumption, TypesOK, NEW p \in Pools, DivisorMatches(p), NEW s \in Stakes,
         ~IsRegistered(s, p), amount' = amount,
         \A x \in Stakes : IsRegistered(x, p)' <=> IsRegistered(x, p) \/ x = s,
         pool'[p].staked_shares = pool[p].staked_shares + amount[s]
  PROVE  DivisorMatches(p)'
<1> DEFINE f == SharesAt(p)
           h == [f EXCEPT ![s] = amount[s]]
<1>1. f \in [Stakes -> Int] /\ IsFiniteSet(Stakes) /\ f[s] = 0 /\ amount[s] \in Nat
  BY SharesOf DEF SharesAt, TypesOK
<1>2. /\ h \in [Stakes -> Int] /\ h[s] = amount[s]
      /\ \A x \in Stakes : x # s => h[x] = f[x]
  BY <1>1
<1>3. SharesAt(p)' = h
  BY DEF SharesAt
<1> HIDE DEF f, h
<1>4. SumFunction(h) = SumFunction(f) - f[s] + h[s] /\ SumFunction(f) \in Int
  BY <1>1, <1>2, SumUpdate, SumType
<1>5. SumFunction(h) = pool[p].staked_shares + amount[s]
  BY <1>1, <1>2, <1>4 DEF DivisorMatches, f
<1> QED BY <1>3, <1>5 DEF DivisorMatches

LEMMA SharesLeave ==
  ASSUME ConstantsAssumption, TypesOK, NEW p \in Pools, DivisorMatches(p), NEW s \in Stakes,
         IsRegistered(s, p), amount' = amount,
         \A x \in Stakes : IsRegistered(x, p)' <=> IsRegistered(x, p) /\ x # s,
         pool'[p].staked_shares = pool[p].staked_shares - amount[s]
  PROVE  DivisorMatches(p)'
<1> DEFINE f == SharesAt(p)
           h == [f EXCEPT ![s] = 0]
<1>1. f \in [Stakes -> Int] /\ IsFiniteSet(Stakes) /\ f[s] = amount[s] /\ amount[s] \in Nat
  BY SharesOf DEF SharesAt, TypesOK
<1>2. /\ h \in [Stakes -> Int] /\ h[s] = 0
      /\ \A x \in Stakes : x # s => h[x] = f[x]
  BY <1>1
<1>3. SharesAt(p)' = h
  BY DEF SharesAt
<1> HIDE DEF f, h
<1>4. SumFunction(h) = SumFunction(f) - f[s] + h[s] /\ SumFunction(f) \in Int
  BY <1>1, <1>2, SumUpdate, SumType
<1>5. SumFunction(h) = pool[p].staked_shares - amount[s]
  BY <1>1, <1>2, <1>4 DEF DivisorMatches, f
<1> QED BY <1>3, <1>5 DEF DivisorMatches

--------------------------------------------------------------------------------
(* The settle that the entry points begin with, here and in RoyaltyPool *)

Written(q, b, i, c) == [q EXCEPT !.balance = b, !.index = i, !.carry = c]

LEMMA WrittenFields ==
  ASSUME NEW q \in PoolRecord, NEW b \in Int, NEW i \in Int, NEW c \in Int
  PROVE  /\ Written(q, b, i, c) \in PoolRecord
         /\ Written(q, b, i, c).balance = b /\ Written(q, b, i, c).index = i
         /\ Written(q, b, i, c).carry = c /\ Written(q, b, i, c).status = q.status
         /\ Written(q, b, i, c).staked_shares = q.staked_shares
         /\ Written(q, b, i, c).last_settled_at_ms = q.last_settled_at_ms
BY DEF PoolRecord, Written

LEMMA SameSettledValue ==
  ASSUME TypesOK, NEW p \in Pools, DivisorMatches(p)
  PROVE  /\ SettledValue(p) = Pool(p)!SettledValue /\ SettledValue(p) \in Int
         /\ SettledValue(p) # 0 => pool[p].staked_shares > 0
<1>1. /\ pool[p].staked_shares \in Nat /\ address[p].settled \in Int
      /\ pool[p].staked_shares > 0 <=> pool[p].staked_shares # 0
  BY DEF TypesOK, PoolRecord, FundsRecord
<1>2. MaxRead \in Int
  BY ConstantsAssumption DEF ConstantsAssumption
<1> QED BY <1>1, <1>2 DEF SettledValue, Pool!SettledValue, Pool!SettleDue, Pool!Redeemable

\* The pool a deposit or a settle of v makes, field by field.
LEMMA FoldedFields ==
  ASSUME ConstantsAssumption, TypesOK, NEW p \in Pools, NEW v \in Int,
         v # 0 => pool[p].staked_shares > 0
  PROVE  /\ FoldedPool(p, v) \in PoolRecord
         /\ FoldedPool(p, v).status = pool[p].status
         /\ FoldedPool(p, v).balance = pool[p].balance + v
         /\ FoldedPool(p, v).staked_shares = pool[p].staked_shares
         /\ FoldedPool(p, v).index = Pool(p)!FoldedIndex(v)
         /\ FoldedPool(p, v).carry = Pool(p)!FoldedCarry(v)
         /\ FoldedPool(p, v).last_settled_at_ms = pool[p].last_settled_at_ms
<1> DEFINE q == pool[p]
           n == v * PRECISION + q.carry
           i == q.index + (n \div q.staked_shares)
           c == n % q.staked_shares
<1>1. /\ q \in PoolRecord /\ q.balance \in Int /\ q.staked_shares \in Nat /\ q.index \in Int
      /\ q.carry \in Int
  BY DEF TypesOK, PoolRecord
<1>2. CASE v = 0
  <2>1. FoldedPool(p, v) = q
    BY <1>2 DEF FoldedPool
  <2>2. q.balance + v = q.balance
    BY <1>1, <1>2
  <2> QED BY <1>1, <1>2, <2>1, <2>2 DEF Pool!FoldedIndex, Pool!FoldedCarry
<1>3. CASE v # 0
  <2>1. n \in Int /\ i \in Int /\ c \in Int
    <3>1. PRECISION \in Int
      BY DEF ConstantsAssumption
    <3>2. n \in Int
      BY <1>1, <3>1
    <3> HIDE DEF n
    <3> QED BY <1>1, <1>3, <3>2
  <2>2. FoldedPool(p, v) = Written(q, q.balance + v, i, c)
    BY <1>3 DEF FoldedPool, Written
  <2>3. i = Pool(p)!FoldedIndex(v) /\ c = Pool(p)!FoldedCarry(v)
    BY <1>3 DEF Pool!FoldedIndex, Pool!FoldedCarry
  <2> DEFINE b == q.balance + v
             w == Written(q, b, i, c)
  <2>4. b \in Int
    BY <1>1
  <2> HIDE DEF q, i, c, b, n
  <2>5. /\ w \in PoolRecord /\ w.balance = b /\ w.index = i /\ w.carry = c
        /\ w.status = q.status /\ w.staked_shares = q.staked_shares
        /\ w.last_settled_at_ms = q.last_settled_at_ms
    BY <1>1, <2>1, <2>4, WrittenFields
  <2> QED BY <2>2, <2>3, <2>5 DEF q, b
<1> QED BY <1>2, <1>3

LEMMA SettledFields ==
  ASSUME ConstantsAssumption, TypesOK, NEW p \in Pools, DivisorMatches(p)
  PROVE  /\ SettledPool(p) \in PoolRecord
         /\ SettledPool(p).status = pool[p].status
         /\ SettledPool(p).balance = pool[p].balance + Pool(p)!SettledValue
         /\ SettledPool(p).staked_shares = pool[p].staked_shares
         /\ SettledPool(p).index = Pool(p)!FoldedIndex(Pool(p)!SettledValue)
         /\ SettledPool(p).carry = Pool(p)!FoldedCarry(Pool(p)!SettledValue)
         /\ SettledPool(p).last_settled_at_ms = now
<1> DEFINE v == SettledValue(p)
           q == FoldedPool(p, v)
<1>1. v = Pool(p)!SettledValue /\ v \in Int /\ (v # 0 => pool[p].staked_shares > 0)
  BY SameSettledValue
<1> HIDE DEF v
<1>2. /\ q \in PoolRecord
      /\ q.status = pool[p].status
      /\ q.balance = pool[p].balance + v
      /\ q.staked_shares = pool[p].staked_shares
      /\ q.index = Pool(p)!FoldedIndex(v)
      /\ q.carry = Pool(p)!FoldedCarry(v)
  BY <1>1, FoldedFields
<1>3. SettledPool(p) = [q EXCEPT !.last_settled_at_ms = now] /\ now \in Int
  BY DEF SettledPool, TypesOK, v
<1> HIDE DEF q
<1>4. /\ SettledPool(p) \in PoolRecord
      /\ SettledPool(p).status = q.status /\ SettledPool(p).balance = q.balance
      /\ SettledPool(p).staked_shares = q.staked_shares
      /\ SettledPool(p).index = q.index /\ SettledPool(p).carry = q.carry
      /\ SettledPool(p).last_settled_at_ms = now
  BY <1>2, <1>3 DEF PoolRecord
<1> QED BY <1>1, <1>2, <1>4

\* SettleInto is the Settling of the RoyaltyPool at p, and touches nothing elsewhere.
LEMMA SettleIntoSettles ==
  ASSUME ConstantsAssumption, TypesOK, NEW p \in Pools, DivisorMatches(p),
         NEW after \in PoolRecord, SettleInto(p, after), now' = now,
         after.index = SettledPool(p).index, after.carry = SettledPool(p).carry,
         after.last_settled_at_ms = now
  PROVE  /\ Pool(p)!Settling /\ Usable(p) /\ pool'[p] = after
         /\ pool' \in [Pools -> PoolRecord] /\ address' \in [Pools -> FundsRecord]
         /\ \A o \in Pools : o # p => pool'[o] = pool[o] /\ address'[o] = address[o]
<1> DEFINE v == SettledValue(p)
           r == address[p].redeemed + v
           f == [address[p] EXCEPT !.redeemed = r]
<1>1. /\ Usable(p) /\ (v > 0 => address[p].redeemed = 0)
      /\ SettledPool(p).index <= MaxIndex
      /\ address' = [address EXCEPT ![p] = f]
      /\ pool' = [pool EXCEPT ![p] = after]
      /\ pool \in [Pools -> PoolRecord] /\ address \in [Pools -> FundsRecord]
  BY DEF SettleInto, TypesOK
<1>2. v = Pool(p)!SettledValue /\ v \in Int
  BY SameSettledValue
<1> HIDE DEF v
<1>3. r \in Int
  BY <1>1, <1>2 DEF FundsRecord
<1> HIDE DEF r
<1>4. /\ f \in FundsRecord /\ f.redeemed = r /\ f.settled = address[p].settled
      /\ f.arriving = address[p].arriving /\ f.coins = address[p].coins
  BY <1>1, <1>3 DEF FundsRecord
<1> HIDE DEF f
<1>5. /\ pool'[p] = after /\ address'[p] = f
      /\ pool' \in [Pools -> PoolRecord] /\ address' \in [Pools -> FundsRecord]
      /\ \A o \in Pools : o # p => pool'[o] = pool[o] /\ address'[o] = address[o]
  BY <1>1, <1>4
<1>6. Pool(p)!WithdrawAccepted
  BY <1>1, <1>2 DEF Pool!WithdrawAccepted
<1>7. Pool(p)!Fold(Pool(p)!SettledValue)
  BY <1>1, <1>5, SettledFields DEF Pool!Fold
<1>8. Pool(p)!Settling
  BY <1>2, <1>4, <1>5, <1>6, <1>7 DEF Pool!Settling, Pool!Stamp, r
<1> QED BY <1>1, <1>5, <1>8

--------------------------------------------------------------------------------
(* One step per call *)

Good == PoolsInv' /\ \A o \in Pools : PoolStep(o)

\* A call at p, after which p is as usable as before and only stakes that exist are
\* registered anew.
LEMMA CallKeeps ==
  ASSUME TypesOK', AbsentIsNew, RegistrationsExist, NEW p \in Pools, Usable(p),
         pool'[p].status = pool[p].status, \A o \in Pools : o # p => pool'[o] = pool[o],
         live' = live,
         \A s \in Stakes, o \in Pools :
            IsRegistered(s, o)' => IsRegistered(s, o) \/ (s \in live /\ o = p)
  PROVE  AbsentIsNew' /\ RegistrationsExist'
<1>1. \A o \in Pools : Usable(o)' <=> Usable(o)
  BY DEF Usable
<1>2. AbsentIsNew'
  BY <1>1 DEF AbsentIsNew
<1>3. ASSUME NEW s \in Stakes, NEW o \in DOMAIN registrations'[s] PROVE s \in live' /\ Usable(o)'
  <2>1. o \in Pools
    BY DEF TypesOK, DebtMaps
  <2>2. IsRegistered(s, o)'
    BY DEF IsRegistered
  <2>3. CASE IsRegistered(s, o)
    BY <1>1, <2>1, <2>3 DEF IsRegistered, RegistrationsExist
  <2>4. CASE s \in live /\ o = p
    BY <1>1, <2>4
  <2> QED BY <2>1, <2>2, <2>3, <2>4
<1> QED BY <1>2, <1>3 DEF RegistrationsExist

LEMMA SettleStep ==
  ASSUME ConstantsAssumption, PoolsInv, NEW p \in Pools, Settle(p)
  PROVE  Good
<1> DEFINE after == SettledPool(p)
<1>1. TypesOK /\ AbsentIsNew /\ RegistrationsExist /\ \A o \in Pools : DivisorMatches(o)
  BY InvParts
<1>2. SettleInto(p, after) /\ UNCHANGED <<live, amount, registrations, now>>
  BY DEF Settle
<1>3. /\ after \in PoolRecord /\ after.last_settled_at_ms = now
      /\ after.status = pool[p].status
      /\ after.balance = pool[p].balance + Pool(p)!SettledValue
      /\ after.staked_shares = pool[p].staked_shares
  BY <1>1, SettledFields
<1>4. /\ Pool(p)!Settling /\ Usable(p) /\ pool'[p] = after
      /\ pool' \in [Pools -> PoolRecord] /\ address' \in [Pools -> FundsRecord]
      /\ \A o \in Pools : o # p => pool'[o] = pool[o] /\ address'[o] = address[o]
  BY <1>1, <1>2, <1>3, SettleIntoSettles
<1> HIDE DEF after
<1>5. \A o \in Pools : RegisteredAt(o)' = RegisteredAt(o) /\ DebtAt(o)' = DebtAt(o)
  BY <1>2 DEF RegisteredAt, DebtAt, IsRegistered
<1>6. PoolStep(p)
  <2>1. Pool(p)!Settle
    BY <1>2, <1>3, <1>4, <1>5 DEF Pool!Settle, Pool!stakeVars, RegisteredAt, DebtAt
  <2> QED BY <2>1 DEF PoolStep, Pool!Next
<1>7. \A o \in Pools : o # p => PoolStep(o)
  BY <1>2, <1>4, <1>5, ApartStutters DEF Apart
<1>8. TypesOK' /\ AbsentIsNew' /\ RegistrationsExist'
  <2>1. TypesOK'
    BY <1>1, <1>2, <1>4 DEF TypesOK
  <2>2. \A s \in Stakes, o \in Pools : IsRegistered(s, o)' => IsRegistered(s, o)
    BY <1>2 DEF IsRegistered
  <2> QED BY <1>1, <1>2, <1>3, <1>4, <2>1, <2>2, CallKeeps
<1>9. ASSUME NEW o \in Pools PROVE DivisorMatches(o)'
  BY <1>1, <1>2, <1>3, <1>4, <1>5, SharesKept
<1> QED BY <1>6, <1>7, <1>8, <1>9 DEF Good, PoolsInv, RegistrationsMatchPools,
           RegistrationsExist, DivisorMatches, SharesAt

LEMMA RegisterStep ==
  ASSUME ConstantsAssumption, PoolsInv, NEW s \in Stakes, NEW p \in Pools,
         RegisterStake(s, p)
  PROVE  Good
<1> DEFINE q == SettledPool(p)
           n == q.staked_shares + amount[s]
           after == [q EXCEPT !.staked_shares = n]
           d == amount[s] * q.index
<1>1. TypesOK /\ AbsentIsNew /\ RegistrationsExist /\ \A o \in Pools : DivisorMatches(o)
  BY InvParts
<1>2. /\ s \in live /\ ~IsRegistered(s, p)
      /\ SettleInto(p, after) /\ UNCHANGED <<live, amount, now>>
      /\ registrations' = [registrations EXCEPT ![s] = WithDebt(s, p, d)]
  BY DEF RegisterStake
<1>3. /\ q \in PoolRecord /\ q.last_settled_at_ms = now /\ q.status = pool[p].status
      /\ q.balance = pool[p].balance + Pool(p)!SettledValue
      /\ q.staked_shares = pool[p].staked_shares
      /\ q.index = Pool(p)!FoldedIndex(Pool(p)!SettledValue)
  BY <1>1, SettledFields
<1> HIDE DEF q
<1>4. n \in Nat /\ d \in Int
  BY <1>1, <1>3 DEF TypesOK, PoolRecord
<1> HIDE DEF n, d
<1>5. /\ after \in PoolRecord /\ after.index = q.index /\ after.carry = q.carry
      /\ after.last_settled_at_ms = now /\ after.balance = q.balance
      /\ after.status = q.status /\ after.staked_shares = n
  BY <1>3, <1>4 DEF PoolRecord
<1>6. /\ Pool(p)!Settling /\ Usable(p) /\ pool'[p] = after
      /\ pool' \in [Pools -> PoolRecord] /\ address' \in [Pools -> FundsRecord]
      /\ \A o \in Pools : o # p => pool'[o] = pool[o] /\ address'[o] = address[o]
  <2> HIDE DEF after
  <2>1. after.index = SettledPool(p).index /\ after.carry = SettledPool(p).carry /\ now' = now
    BY <1>2, <1>5 DEF q
  <2> QED BY <1>1, <1>2, <1>5, <2>1, SettleIntoSettles
<1> HIDE DEF after
<1>7. /\ registrations' \in [Stakes -> DebtMaps]
      /\ RegisteredAt(p)' = RegisteredAt(p) \cup {s}
      /\ DebtAt(p)' = [DebtAt(p) EXCEPT ![s] = d]
      /\ \A x \in Stakes, o \in Pools :
           IsRegistered(x, o)' <=> IsRegistered(x, o) \/ (x = s /\ o = p)
      /\ \A o \in Pools : o # p => RegisteredAt(o)' = RegisteredAt(o) /\ DebtAt(o)' = DebtAt(o)
  BY <1>1, <1>2, <1>4, EntryWritten
<1>8. PoolStep(p)
  <2>1. Pool(p)!RegistrationDebt(s) = d
    BY <1>3 DEF Pool!RegistrationDebt, d
  <2>2. Pool(p)!CanRegister(s)
    BY <1>2 DEF Pool!CanRegister
  <2>3. pool'[p].balance = pool[p].balance + Pool(p)!SettledValue
    BY <1>3, <1>5, <1>6
  <2>4. pool'[p].staked_shares = pool[p].staked_shares + amount[s]
    BY <1>3, <1>5, <1>6 DEF n
  <2>5. Pool(p)!RegisterStake(s)
    BY <1>2, <1>6, <1>7, <2>1, <2>2, <2>3, <2>4 DEF Pool!RegisterStake, RegisteredAt, DebtAt
  <2> QED BY <2>5 DEF PoolStep, Pool!Next
<1>9. \A o \in Pools : o # p => PoolStep(o)
  BY <1>2, <1>6, <1>7, ApartStutters DEF Apart
<1>10. TypesOK' /\ AbsentIsNew' /\ RegistrationsExist'
  <2>1. TypesOK'
    BY <1>1, <1>2, <1>6, <1>7 DEF TypesOK
  <2>2. /\ pool'[p].status = pool[p].status /\ live' = live
        /\ \A x \in Stakes, o \in Pools :
              IsRegistered(x, o)' => IsRegistered(x, o) \/ (x \in live /\ o = p)
    BY <1>2, <1>3, <1>5, <1>6, <1>7
  <2> QED BY <1>1, <1>6, <2>1, <2>2, CallKeeps
<1>11. ASSUME NEW o \in Pools PROVE DivisorMatches(o)'
  <2>1. CASE o = p
    <3>1. pool'[p].staked_shares = pool[p].staked_shares + amount[s]
      BY <1>3, <1>5, <1>6 DEF n
    <3>2. amount' = amount /\ \A x \in Stakes : IsRegistered(x, p)' <=> IsRegistered(x, p) \/ x = s
      BY <1>2, <1>7
    <3> QED BY <1>1, <1>2, <2>1, <3>1, <3>2, SharesJoin
  <2>2. CASE o # p
    BY <1>1, <1>2, <1>6, <1>7, <2>2, SharesKept
  <2> QED BY <2>1, <2>2
<1> QED BY <1>8, <1>9, <1>10, <1>11 DEF Good, PoolsInv, RegistrationsMatchPools,
           RegistrationsExist, DivisorMatches, SharesAt

LEMMA UnregisterStep ==
  ASSUME ConstantsAssumption, PoolsInv, NEW s \in Stakes, NEW p \in Pools,
         UnregisterStake(s, p)
  PROVE  Good
<1> DEFINE q == SettledPool(p)
           debt == registrations[s][p]
           value == Royalty(amount[s], debt, q.index)
           n == q.staked_shares - amount[s]
           b == q.balance - value
           after == [q EXCEPT !.staked_shares = n, !.balance = b]
<1>1. TypesOK /\ AbsentIsNew /\ RegistrationsExist /\ \A o \in Pools : DivisorMatches(o)
  BY InvParts
<1>2. /\ IsRegistered(s, p) /\ debt <= amount[s] * q.index /\ value <= q.balance
      /\ SettleInto(p, after) /\ UNCHANGED <<live, amount, now>>
      /\ registrations' = [registrations EXCEPT ![s] = WithoutDebt(s, p)]
  BY DEF UnregisterStake
<1>3. /\ q \in PoolRecord /\ q.last_settled_at_ms = now /\ q.status = pool[p].status
      /\ q.balance = pool[p].balance + Pool(p)!SettledValue
      /\ q.staked_shares = pool[p].staked_shares
      /\ q.index = Pool(p)!FoldedIndex(Pool(p)!SettledValue)
  BY <1>1, SettledFields
<1> HIDE DEF q
<1>4. debt \in Int /\ DebtAt(p)[s] = debt
  BY <1>1, <1>2, RegistrationInDomain DEF DebtAt
<1> HIDE DEF debt
<1>5. n \in Nat /\ b \in Int
  <2>1. amount[s] <= pool[p].staked_shares
    <3>1. SharesAt(p)[s] = amount[s]
      BY <1>2 DEF SharesAt
    <3> QED BY <1>1, <3>1, SharesOf
  <2>2. n \in Nat
    BY <1>1, <1>3, <2>1 DEF TypesOK, PoolRecord
  <2>3. value \in Int
    <3>1. amount[s] \in Int /\ q.index \in Int /\ PRECISION \in Nat /\ PRECISION > 0
      BY <1>1, <1>3 DEF TypesOK, PoolRecord, ConstantsAssumption
    <3>2. amount[s] * q.index - debt \in Int
      BY <1>4, <3>1
    <3> QED BY <3>1, <3>2 DEF Royalty
  <2> HIDE DEF value
  <2> QED BY <1>3, <2>2, <2>3 DEF PoolRecord
<1> HIDE DEF n, b
<1>6. /\ after \in PoolRecord /\ after.index = q.index /\ after.carry = q.carry
      /\ after.last_settled_at_ms = now /\ after.balance = b
      /\ after.status = q.status /\ after.staked_shares = n
  BY <1>3, <1>5 DEF PoolRecord
<1>7. /\ Pool(p)!Settling /\ Usable(p) /\ pool'[p] = after
      /\ pool' \in [Pools -> PoolRecord] /\ address' \in [Pools -> FundsRecord]
      /\ \A o \in Pools : o # p => pool'[o] = pool[o] /\ address'[o] = address[o]
  <2> HIDE DEF after
  <2>1. after.index = SettledPool(p).index /\ after.carry = SettledPool(p).carry /\ now' = now
    BY <1>2, <1>6 DEF q
  <2> QED BY <1>1, <1>2, <1>6, <2>1, SettleIntoSettles
<1> HIDE DEF after
<1>8. /\ registrations' \in [Stakes -> DebtMaps]
      /\ RegisteredAt(p)' = RegisteredAt(p) \ {s}
      /\ DebtAt(p)' = [DebtAt(p) EXCEPT ![s] = 0]
      /\ \A x \in Stakes, o \in Pools :
           IsRegistered(x, o)' <=> IsRegistered(x, o) /\ ~(x = s /\ o = p)
      /\ \A o \in Pools : o # p => RegisteredAt(o)' = RegisteredAt(o) /\ DebtAt(o)' = DebtAt(o)
  BY <1>1, <1>2, EntryRemoved
<1>9. PoolStep(p)
  <2>1. Pool(p)!ExitValue(s) = value
    BY <1>2, <1>3 DEF Pool!ExitValue, Pool!Royalty, Royalty, debt
  <2>2. Pool(p)!Payable(s, Pool(p)!FoldedIndex(Pool(p)!SettledValue),
                        pool[p].balance + Pool(p)!SettledValue)
    BY <1>2, <1>3 DEF Pool!Payable, Pool!Royalty, Royalty, debt
  <2>3. pool'[p].balance = (pool[p].balance + Pool(p)!SettledValue) - Pool(p)!ExitValue(s)
    BY <1>3, <1>6, <1>7, <2>1 DEF b
  <2>4. pool'[p].staked_shares = pool[p].staked_shares - amount[s]
    BY <1>3, <1>6, <1>7 DEF n
  <2>5. s \in RegisteredAt(p)
    BY <1>2 DEF RegisteredAt
  <2>6. Pool(p)!UnregisterStake(s)
    BY <1>2, <1>7, <1>8, <2>2, <2>3, <2>4, <2>5
       DEF Pool!UnregisterStake, RegisteredAt, DebtAt
  <2> QED BY <2>6 DEF PoolStep, Pool!Next
<1>10. \A o \in Pools : o # p => PoolStep(o)
  BY <1>2, <1>7, <1>8, ApartStutters DEF Apart
<1>11. TypesOK' /\ AbsentIsNew' /\ RegistrationsExist'
  <2>1. TypesOK'
    BY <1>1, <1>2, <1>7, <1>8 DEF TypesOK
  <2>2. /\ pool'[p].status = pool[p].status /\ live' = live
        /\ \A x \in Stakes, o \in Pools : IsRegistered(x, o)' => IsRegistered(x, o)
    BY <1>2, <1>3, <1>6, <1>7, <1>8
  <2> QED BY <1>1, <1>7, <2>1, <2>2, CallKeeps
<1>12. ASSUME NEW o \in Pools PROVE DivisorMatches(o)'
  <2>1. CASE o = p
    <3>1. pool'[p].staked_shares = pool[p].staked_shares - amount[s]
      BY <1>3, <1>6, <1>7 DEF n
    <3>2. amount' = amount /\ \A x \in Stakes : IsRegistered(x, p)' <=> IsRegistered(x, p) /\ x # s
      BY <1>2, <1>8
    <3> QED BY <1>1, <1>2, <2>1, <3>1, <3>2, SharesLeave
  <2>2. CASE o # p
    BY <1>1, <1>2, <1>7, <1>8, <2>2, SharesKept
  <2> QED BY <2>1, <2>2
<1> QED BY <1>9, <1>10, <1>11, <1>12 DEF Good, PoolsInv, RegistrationsMatchPools,
           RegistrationsExist, DivisorMatches, SharesAt

LEMMA ClaimStep ==
  ASSUME ConstantsAssumption, PoolsInv, NEW s \in Stakes, NEW p \in Pools,
         ClaimRoyalties(s, p)
  PROVE  Good
<1> DEFINE q == pool[p]
           debt == registrations[s][p]
           value == Royalty(amount[s], debt, q.index)
           b == q.balance - value
           d == debt + value * PRECISION
           after == [q EXCEPT !.balance = b]
<1>1. TypesOK /\ AbsentIsNew /\ RegistrationsExist /\ \A o \in Pools : DivisorMatches(o)
  BY InvParts
<1>2. /\ IsRegistered(s, p) /\ debt <= amount[s] * q.index /\ value <= q.balance
      /\ pool' = [pool EXCEPT ![p] = after] /\ UNCHANGED <<live, amount, now, address>>
      /\ registrations' = [registrations EXCEPT ![s] = WithDebt(s, p, d)]
  BY DEF ClaimRoyalties
<1>3. debt \in Int /\ DebtAt(p)[s] = debt /\ s \in live /\ Usable(p)
  BY <1>1, <1>2, RegistrationInDomain DEF DebtAt
<1> HIDE DEF debt
<1>4. q \in PoolRecord /\ b \in Int /\ d \in Int
  <2>1. /\ amount[s] \in Int /\ q \in PoolRecord /\ q.index \in Int /\ q.balance \in Int
        /\ PRECISION \in Nat /\ PRECISION > 0
    BY <1>1 DEF TypesOK, PoolRecord, ConstantsAssumption
  <2>2. amount[s] * q.index - debt \in Int
    BY <1>3, <2>1
  <2>3. value \in Int
    BY <2>1, <2>2 DEF Royalty
  <2> HIDE DEF value
  <2>4. value * PRECISION \in Int
    BY <2>1, <2>3
  <2> QED BY <1>3, <2>1, <2>3, <2>4
<1> HIDE DEF b, d
<1>5. /\ after \in PoolRecord /\ after.index = q.index /\ after.carry = q.carry
      /\ after.last_settled_at_ms = q.last_settled_at_ms /\ after.balance = b
      /\ after.status = q.status /\ after.staked_shares = q.staked_shares
  BY <1>4 DEF PoolRecord
<1> HIDE DEF after
<1>6. /\ pool'[p] = after /\ pool' \in [Pools -> PoolRecord]
      /\ \A o \in Pools : o # p => pool'[o] = pool[o]
  BY <1>1, <1>2, <1>5 DEF TypesOK
<1>7. /\ registrations' \in [Stakes -> DebtMaps]
      /\ RegisteredAt(p)' = RegisteredAt(p) \cup {s}
      /\ DebtAt(p)' = [DebtAt(p) EXCEPT ![s] = d]
      /\ \A x \in Stakes, o \in Pools :
           IsRegistered(x, o)' <=> IsRegistered(x, o) \/ (x = s /\ o = p)
      /\ \A o \in Pools : o # p => RegisteredAt(o)' = RegisteredAt(o) /\ DebtAt(o)' = DebtAt(o)
  BY <1>1, <1>2, <1>4, EntryWritten
<1>8. s \in RegisteredAt(p) /\ RegisteredAt(p)' = RegisteredAt(p)
  BY <1>2, <1>7 DEF RegisteredAt
<1>9. PoolStep(p)
  <2>1. Pool(p)!ClaimValue(s) = value
    BY <1>2 DEF Pool!ClaimValue, Pool!Royalty, Royalty, debt
  <2>2. Pool(p)!Payable(s, q.index, q.balance)
    BY <1>2 DEF Pool!Payable, Pool!Royalty, Royalty, debt
  <2>3. Pool(p)!ClaimedDebt(s) = d
    BY <1>2, <2>1 DEF Pool!ClaimedDebt, d, debt
  <2>4. pool'[p].balance = q.balance - Pool(p)!ClaimValue(s)
    BY <1>5, <1>6, <2>1 DEF b
  <2>5. Pool(p)!ClaimRoyalties(s)
    BY <1>2, <1>5, <1>6, <1>7, <1>8, <2>2, <2>3, <2>4
       DEF Pool!ClaimRoyalties, Pool!chainVars, RegisteredAt, DebtAt
  <2> QED BY <2>5 DEF PoolStep, Pool!Next
<1>10. \A o \in Pools : o # p => PoolStep(o)
  BY <1>2, <1>6, <1>7, ApartStutters DEF Apart
<1>11. TypesOK' /\ AbsentIsNew' /\ RegistrationsExist'
  <2>1. TypesOK'
    BY <1>1, <1>2, <1>6, <1>7 DEF TypesOK
  <2>2. /\ pool'[p].status = pool[p].status /\ live' = live
        /\ \A x \in Stakes, o \in Pools :
              IsRegistered(x, o)' => IsRegistered(x, o) \/ (x \in live /\ o = p)
    BY <1>2, <1>3, <1>5, <1>6, <1>7
  <2> QED BY <1>1, <1>3, <1>6, <2>1, <2>2, CallKeeps
<1>12. ASSUME NEW o \in Pools PROVE DivisorMatches(o)'
  <2>1. pool'[o].staked_shares = pool[o].staked_shares /\ RegisteredAt(o)' = RegisteredAt(o)
    BY <1>5, <1>6, <1>7, <1>8
  <2> QED BY <1>1, <1>2, <2>1, SharesKept
<1> QED BY <1>9, <1>10, <1>11, <1>12 DEF Good, PoolsInv, RegistrationsMatchPools,
           RegistrationsExist, DivisorMatches, SharesAt

\* A step that leaves the registrations and the stakes alone keeps the invariant when
\* every pool stays as usable as it was, with the same divisor.
LEMMA RegistrationsAlone ==
  ASSUME PoolsInv, UNCHANGED <<live, amount, registrations>>, now' \in Int,
         pool' \in [Pools -> PoolRecord], address' \in [Pools -> FundsRecord],
         \A o \in Pools : /\ pool'[o].staked_shares = pool[o].staked_shares
                          /\ Usable(o) => Usable(o)'
                          /\ Usable(o)' \/ pool'[o] = pool[o]
  PROVE  /\ PoolsInv'
         /\ \A o \in Pools : RegisteredAt(o)' = RegisteredAt(o) /\ DebtAt(o)' = DebtAt(o)
<1>1. TypesOK /\ AbsentIsNew /\ RegistrationsExist /\ \A o \in Pools : DivisorMatches(o)
  BY InvParts
<1>2. \A o \in Pools : RegisteredAt(o)' = RegisteredAt(o) /\ DebtAt(o)' = DebtAt(o)
  BY DEF RegisteredAt, DebtAt, IsRegistered
<1>3. TypesOK'
  BY <1>1 DEF TypesOK
<1>4. AbsentIsNew'
  BY <1>1 DEF AbsentIsNew, Usable
<1>5. RegistrationsExist'
  <2>1. \A s \in Stakes : DOMAIN registrations[s] \subseteq Pools
    BY <1>1 DEF TypesOK, DebtMaps
  <2> QED BY <1>1, <2>1 DEF RegistrationsExist
<1>6. \A o \in Pools : DivisorMatches(o)'
  BY <1>1, <1>2, SharesKept
<1> QED BY <1>2, <1>3, <1>4, <1>5, <1>6 DEF PoolsInv, RegistrationsMatchPools,
           RegistrationsExist, DivisorMatches, SharesAt

LEMMA DepositStep ==
  ASSUME ConstantsAssumption, PoolsInv, NEW p \in Pools, NEW v \in 0..MaxValue, Deposit(p, v)
  PROVE  Good
<1> DEFINE after == FoldedPool(p, v)
<1>1. TypesOK
  BY InvParts
<1>2. /\ Usable(p) /\ (v > 0 => pool[p].staked_shares > 0) /\ after.index <= MaxIndex
      /\ pool' = [pool EXCEPT ![p] = after]
      /\ UNCHANGED <<live, amount, registrations, now, address>>
  BY DEF Deposit
<1>3. v \in Int /\ (v # 0 => pool[p].staked_shares > 0)
  BY <1>2 DEF ConstantsAssumption
<1>4. /\ after \in PoolRecord /\ after.status = pool[p].status
      /\ after.balance = pool[p].balance + v
      /\ after.staked_shares = pool[p].staked_shares
      /\ after.index = Pool(p)!FoldedIndex(v) /\ after.carry = Pool(p)!FoldedCarry(v)
      /\ after.last_settled_at_ms = pool[p].last_settled_at_ms
  BY <1>1, <1>3, FoldedFields
<1> HIDE DEF after
<1>5. /\ pool'[p] = after /\ pool' \in [Pools -> PoolRecord]
      /\ \A o \in Pools : o # p => pool'[o] = pool[o]
  BY <1>1, <1>2, <1>4 DEF TypesOK
<1>6. /\ PoolsInv'
      /\ \A o \in Pools : RegisteredAt(o)' = RegisteredAt(o) /\ DebtAt(o)' = DebtAt(o)
  <2>1. now' \in Int /\ address' \in [Pools -> FundsRecord]
    BY <1>1, <1>2 DEF TypesOK
  <2>2. \A o \in Pools : /\ pool'[o].staked_shares = pool[o].staked_shares
                         /\ Usable(o) => Usable(o)'
                         /\ Usable(o)' \/ pool'[o] = pool[o]
    BY <1>2, <1>4, <1>5 DEF Usable
  <2> QED BY <1>2, <1>5, <2>1, <2>2, RegistrationsAlone
<1>7. PoolStep(p)
  <2>1. Pool(p)!Deposit(v)
    BY <1>2, <1>4, <1>5, <1>6
       DEF Pool!Deposit, Pool!Fold, Pool!stakeVars, Pool!chainVars, RegisteredAt, DebtAt
  <2> QED BY <2>1 DEF PoolStep, Pool!Next
<1>8. \A o \in Pools : o # p => PoolStep(o)
  BY <1>2, <1>5, <1>6, ApartStutters DEF Apart
<1> QED BY <1>6, <1>7, <1>8 DEF Good

\* A call that moves only what waits at p's address.
LEMMA AddressCall ==
  ASSUME PoolsInv, NEW p \in Pools, NEW f \in FundsRecord,
         address' = [address EXCEPT ![p] = f],
         UNCHANGED <<pool, live, amount, registrations, now>>
  PROVE  /\ PoolsInv' /\ address'[p] = f
         /\ \A o \in Pools : RegisteredAt(o)' = RegisteredAt(o) /\ DebtAt(o)' = DebtAt(o)
         /\ \A o \in Pools : o # p => PoolStep(o)
<1>1. TypesOK
  BY InvParts
<1>2. /\ address' \in [Pools -> FundsRecord] /\ address'[p] = f
      /\ \A o \in Pools : o # p => address'[o] = address[o]
  BY <1>1 DEF TypesOK
<1>3. now' \in Int /\ pool' \in [Pools -> PoolRecord]
  BY <1>1 DEF TypesOK
<1>4. \A o \in Pools : /\ pool'[o].staked_shares = pool[o].staked_shares
                       /\ Usable(o) => Usable(o)'
                       /\ Usable(o)' \/ pool'[o] = pool[o]
  BY DEF Usable
<1>5. /\ PoolsInv'
      /\ \A o \in Pools : RegisteredAt(o)' = RegisteredAt(o) /\ DebtAt(o)' = DebtAt(o)
  BY <1>2, <1>3, <1>4, RegistrationsAlone
<1>6. \A o \in Pools : o # p => PoolStep(o)
  BY <1>2, <1>5, ApartStutters DEF Apart
<1> QED BY <1>2, <1>5, <1>6

CoinsMoved(f, c, a) == [f EXCEPT !.coins = c, !.arriving = a]

LEMMA CoinsMovedFields ==
  ASSUME NEW f \in FundsRecord, NEW c \in Int, NEW a \in Int
  PROVE  /\ CoinsMoved(f, c, a) \in FundsRecord
         /\ CoinsMoved(f, c, a).redeemed = f.redeemed
         /\ CoinsMoved(f, c, a).settled = f.settled
         /\ CoinsMoved(f, c, a).coins = c /\ CoinsMoved(f, c, a).arriving = a
BY DEF FundsRecord, CoinsMoved

LEMMA RecoverCoinsStep ==
  ASSUME PoolsInv, NEW p \in Pools, NEW v \in 0..address[p].coins, RecoverCoins(p, v)
  PROVE  Good
<1> DEFINE c == address[p].coins - v
           a == address[p].arriving + v
           f == CoinsMoved(address[p], c, a)
<1>1. address[p] \in FundsRecord /\ c \in Int /\ a \in Int
  BY InvParts DEF TypesOK, FundsRecord
<1>2. /\ address' = [address EXCEPT ![p] = f]
      /\ UNCHANGED <<pool, live, amount, registrations, now>>
  BY DEF RecoverCoins, CoinsMoved
<1> HIDE DEF c, a
<1>3. /\ f \in FundsRecord /\ f.redeemed = address[p].redeemed
      /\ f.settled = address[p].settled /\ f.coins = c /\ f.arriving = a
  BY <1>1, CoinsMovedFields
<1> HIDE DEF f
<1>4. /\ PoolsInv' /\ address'[p] = f
      /\ \A o \in Pools : RegisteredAt(o)' = RegisteredAt(o) /\ DebtAt(o)' = DebtAt(o)
      /\ \A o \in Pools : o # p => PoolStep(o)
  BY <1>2, <1>3, AddressCall
<1>5. Pool(p)!RecoverCoins(v)
  BY <1>2, <1>3, <1>4 DEF Pool!RecoverCoins, Pool!poolVars, Pool!stakeVars, RegisteredAt,
     DebtAt, c, a
<1>6. PoolStep(p)
  BY <1>5 DEF PoolStep, Pool!Next
<1> QED BY <1>4, <1>6 DEF Good

LEMMA SendStep ==
  ASSUME PoolsInv, NEW p \in Pools, NEW v \in 1..MaxValue, SendFunds(p, v) \/ SendCoins(p, v)
  PROVE  Good
<1>1. /\ address[p] \in FundsRecord /\ address[p].coins \in Int /\ address[p].arriving \in Int
      /\ v \in Int
  BY InvParts DEF TypesOK, FundsRecord
<1>2. Pool(p)!RoomAtAddress(v) /\ UNCHANGED <<pool, live, amount, registrations, now>>
  BY DEF SendFunds, SendCoins, RoomAt, Pool!RoomAtAddress
<1>3. CASE SendFunds(p, v)
  <2> DEFINE a == address[p].arriving + v
             f == [address[p] EXCEPT !.arriving = a]
  <2>1. address' = [address EXCEPT ![p] = f] /\ a \in Int
    BY <1>1, <1>3 DEF SendFunds
  <2> HIDE DEF a
  <2>2. /\ f \in FundsRecord /\ f.redeemed = address[p].redeemed
        /\ f.settled = address[p].settled /\ f.coins = address[p].coins /\ f.arriving = a
    BY <1>1, <2>1 DEF FundsRecord
  <2> HIDE DEF f
  <2>3. /\ PoolsInv' /\ address'[p] = f
        /\ \A o \in Pools : RegisteredAt(o)' = RegisteredAt(o) /\ DebtAt(o)' = DebtAt(o)
        /\ \A o \in Pools : o # p => PoolStep(o)
    BY <1>2, <2>1, <2>2, AddressCall
  <2>4. Pool(p)!SendFunds(v)
    BY <1>2, <2>2, <2>3 DEF Pool!SendFunds, Pool!poolVars, Pool!stakeVars, RegisteredAt,
       DebtAt, a
  <2>5. PoolStep(p)
    BY <2>4 DEF PoolStep, Pool!Next
  <2> QED BY <2>3, <2>5 DEF Good
<1>4. CASE SendCoins(p, v)
  <2> DEFINE c == address[p].coins + v
             f == [address[p] EXCEPT !.coins = c]
  <2>1. address' = [address EXCEPT ![p] = f] /\ c \in Int
    BY <1>1, <1>4 DEF SendCoins
  <2> HIDE DEF c
  <2>2. /\ f \in FundsRecord /\ f.redeemed = address[p].redeemed
        /\ f.settled = address[p].settled /\ f.coins = c /\ f.arriving = address[p].arriving
    BY <1>1, <2>1 DEF FundsRecord
  <2> HIDE DEF f
  <2>3. /\ PoolsInv' /\ address'[p] = f
        /\ \A o \in Pools : RegisteredAt(o)' = RegisteredAt(o) /\ DebtAt(o)' = DebtAt(o)
        /\ \A o \in Pools : o # p => PoolStep(o)
    BY <1>2, <2>1, <2>2, AddressCall
  <2>4. Pool(p)!SendCoins(v)
    BY <1>2, <2>2, <2>3 DEF Pool!SendCoins, Pool!poolVars, Pool!stakeVars, RegisteredAt,
       DebtAt, c
  <2>5. PoolStep(p)
    BY <2>4 DEF PoolStep, Pool!Next
  <2> QED BY <2>3, <2>5 DEF Good
<1> QED BY <1>3, <1>4

\* A commit is a commit for every pool.
LEMMA CommitStep ==
  ASSUME ConstantsAssumption, PoolsInv, NEW t \in 1..MaxTime, NextCommit(t)
  PROVE  Good
<1>1. TypesOK
  BY InvParts
<1>2. /\ t >= now /\ now' = t /\ UNCHANGED <<pool, live, amount, registrations>>
      /\ t \in Int
  BY DEF NextCommit, ConstantsAssumption
<1>3. ASSUME NEW o \in Pools
      PROVE  /\ address'[o] \in FundsRecord
             /\ address'[o].settled = (address[o].settled - address[o].redeemed)
                                        + address[o].arriving
             /\ address'[o].redeemed = 0 /\ address'[o].arriving = 0
             /\ address'[o].coins = address[o].coins
  <2> DEFINE v == (address[o].settled - address[o].redeemed) + address[o].arriving
             f == [settled |-> v, redeemed |-> 0, arriving |-> 0, coins |-> address[o].coins]
  <2>1. address'[o] = f /\ v \in Int /\ address[o].coins \in Int
    BY <1>1 DEF NextCommit, TypesOK, FundsRecord
  <2> HIDE DEF v
  <2>2. /\ f \in FundsRecord /\ f.settled = v /\ f.redeemed = 0 /\ f.arriving = 0
        /\ f.coins = address[o].coins
    BY <2>1 DEF FundsRecord
  <2> HIDE DEF f
  <2> QED BY <2>1, <2>2 DEF v
<1>4. address' \in [Pools -> FundsRecord]
  BY <1>3 DEF NextCommit
<1>5. now' \in Int /\ pool' \in [Pools -> PoolRecord]
  BY <1>1, <1>2 DEF TypesOK
<1>6. \A o \in Pools : /\ pool'[o].staked_shares = pool[o].staked_shares
                       /\ Usable(o) => Usable(o)'
                       /\ Usable(o)' \/ pool'[o] = pool[o]
  BY <1>2 DEF Usable
<1>7. /\ PoolsInv'
      /\ \A o \in Pools : RegisteredAt(o)' = RegisteredAt(o) /\ DebtAt(o)' = DebtAt(o)
  BY <1>2, <1>4, <1>5, <1>6, RegistrationsAlone
<1>8. ASSUME NEW o \in Pools PROVE PoolStep(o)
  <2>1. Pool(o)!NextCommit(t)
    BY <1>2, <1>3, <1>7 DEF Pool!NextCommit, Pool!poolVars, Pool!stakeVars, RegisteredAt, DebtAt
  <2> QED BY <2>1 DEF PoolStep, Pool!Next
<1> QED BY <1>7, <1>8 DEF Good

\* Claiming an address and sharing the pool change nothing of the RoyaltyPool there:
\* where nothing was claimed, its fields already had the values of a new one.
LEMMA ConstructionStep ==
  ASSUME PoolsInv, NEW p \in Pools, New(p) \/ Share(p)
  PROVE  Good
<1>1. TypesOK /\ AbsentIsNew
  BY InvParts
<1>2. UNCHANGED <<live, amount, registrations, now, address>>
  BY DEF New, Share
<1> DEFINE q == pool'[p]
<1>3. /\ pool' \in [Pools -> PoolRecord] /\ \A o \in Pools : o # p => pool'[o] = pool[o]
      /\ q.balance = pool[p].balance /\ q.staked_shares = pool[p].staked_shares
      /\ q.index = pool[p].index /\ q.carry = pool[p].carry
      /\ q.last_settled_at_ms = pool[p].last_settled_at_ms /\ Usable(p)'
  <2>1. CASE New(p)
    <3>1. /\ pool[p] = NewPool("absent") /\ pool' = [pool EXCEPT ![p] = NewPool("unshared")]
          /\ NewPool("unshared") \in PoolRecord /\ pool \in [Pools -> PoolRecord]
      BY <1>1, <2>1 DEF New, CanClaim, AbsentIsNew, Usable, PoolRecord, NewPool, TypesOK
    <3> QED BY <3>1 DEF NewPool, Usable
  <2>2. CASE Share(p)
    <3> DEFINE w == [pool[p] EXCEPT !.status = "shared"]
    <3>1. /\ pool' = [pool EXCEPT ![p] = w] /\ pool \in [Pools -> PoolRecord]
          /\ pool[p] \in PoolRecord
      BY <1>1, <2>2 DEF Share, TypesOK
    <3>2. /\ w \in PoolRecord /\ w.balance = pool[p].balance
          /\ w.staked_shares = pool[p].staked_shares /\ w.index = pool[p].index
          /\ w.carry = pool[p].carry /\ w.last_settled_at_ms = pool[p].last_settled_at_ms
          /\ w.status = "shared"
      BY <3>1 DEF PoolRecord
    <3> HIDE DEF w
    <3> QED BY <3>1, <3>2 DEF Usable
  <2> QED BY <2>1, <2>2
<1> HIDE DEF q
<1>4. now' \in Int /\ address' \in [Pools -> FundsRecord]
  BY <1>1, <1>2 DEF TypesOK
<1>5. \A o \in Pools : /\ pool'[o].staked_shares = pool[o].staked_shares
                       /\ Usable(o) => Usable(o)'
                       /\ Usable(o)' \/ pool'[o] = pool[o]
  BY <1>3 DEF Usable, q
<1>6. /\ PoolsInv'
      /\ \A o \in Pools : RegisteredAt(o)' = RegisteredAt(o) /\ DebtAt(o)' = DebtAt(o)
  BY <1>2, <1>3, <1>4, <1>5, RegistrationsAlone
<1>7. PoolStep(p)
  <2>1. UNCHANGED Pool(p)!vars
    BY <1>2, <1>3, <1>6 DEF q, RegisteredAt, DebtAt, Pool!vars, Pool!poolVars,
       Pool!stakeVars, Pool!chainVars
  <2> QED BY <2>1 DEF PoolStep
<1>8. \A o \in Pools : o # p => PoolStep(o)
  BY <1>2, <1>3, <1>6, ApartStutters DEF Apart
<1> QED BY <1>6, <1>7, <1>8 DEF Good

LEMMA SameSum ==
  ASSUME NEW p, NEW f
  PROVE  Pool(p)!SumFunction(f) = SumFunction(f)
BY DEF SumFunction, SumFunctionOnSet, FoldFunctionOnSet, MapThenFoldSet,
       Pool!SumFunction, Pool!SumFunctionOnSet, Pool!FoldFunctionOnSet,
       Pool!MapThenFoldSet

\* A stake that appears or disappears holds no registration: no pool's divisor counts it.
LEMMA StakeChanged ==
  ASSUME PoolsInv, NEW s \in Stakes, \A o \in Pools : ~IsRegistered(s, o),
         UNCHANGED <<pool, registrations, now, address>>, live' \subseteq Stakes,
         live \ {s} \subseteq live', amount' \in [Stakes -> Nat],
         \A x \in Stakes : x # s => amount'[x] = amount[x]
  PROVE  /\ PoolsInv'
         /\ \A o \in Pools : RegisteredAt(o)' = RegisteredAt(o) /\ DebtAt(o)' = DebtAt(o)
<1>1. TypesOK /\ AbsentIsNew /\ RegistrationsExist /\ \A o \in Pools : DivisorMatches(o)
  BY InvParts
<1>2. \A o \in Pools : RegisteredAt(o)' = RegisteredAt(o) /\ DebtAt(o)' = DebtAt(o)
  BY DEF RegisteredAt, DebtAt, IsRegistered
<1>3. TypesOK' /\ AbsentIsNew'
  BY <1>1 DEF TypesOK, AbsentIsNew, Usable
<1>4. RegistrationsExist'
  <2>1. ASSUME NEW x \in Stakes, NEW o \in DOMAIN registrations[x] PROVE x \in live' /\ Usable(o)'
    <3>1. o \in Pools
      BY <1>1 DEF TypesOK, DebtMaps
    <3>2. x # s /\ x \in live /\ Usable(o)
      BY <1>1, <3>1 DEF IsRegistered, RegistrationsExist
    <3> QED BY <3>2 DEF Usable
  <2> QED BY <2>1 DEF RegistrationsExist
<1>5. ASSUME NEW o \in Pools PROVE DivisorMatches(o)'
  <2>1. \A x \in RegisteredAt(o) : amount'[x] = amount[x]
    BY DEF RegisteredAt
  <2> QED BY <1>1, <1>2, <2>1, SharesKept
<1> QED BY <1>2, <1>3, <1>4, <1>5 DEF PoolsInv, RegistrationsMatchPools,
           RegistrationsExist, DivisorMatches, SharesAt

LEMMA NewStakeStep ==
  ASSUME ConstantsAssumption, PoolsInv, NEW s \in Stakes, NEW n \in 1..ShareSupply, NewStake(s, n)
  PROVE  Good
<1>1. TypesOK /\ RegistrationsExist
  BY InvParts
<1>2. /\ s \notin live /\ n > 0 /\ SumFunction(amount) + n <= ShareSupply
      /\ live' = live \cup {s} /\ amount' = [amount EXCEPT ![s] = n]
      /\ UNCHANGED <<pool, registrations, now, address>> /\ n \in Nat
  BY DEF NewStake, ConstantsAssumption
<1>3. \A o \in Pools : ~IsRegistered(s, o)
  BY <1>1, <1>2 DEF RegistrationsExist, IsRegistered
<1>4. /\ live' \subseteq Stakes /\ live \ {s} \subseteq live' /\ amount' \in [Stakes -> Nat]
      /\ \A x \in Stakes : x # s => amount'[x] = amount[x]
  BY <1>1, <1>2 DEF TypesOK
<1>5. /\ PoolsInv'
      /\ \A o \in Pools : RegisteredAt(o)' = RegisteredAt(o) /\ DebtAt(o)' = DebtAt(o)
  BY <1>2, <1>3, <1>4, StakeChanged
<1>6. ASSUME NEW o \in Pools PROVE PoolStep(o)
  <2>1. Pool(o)!SumFunction(amount) = SumFunction(amount)
    BY SameSum
  <2>2. Pool(o)!NewStake(s, n)
    BY <1>2, <1>5, <2>1 DEF Pool!NewStake, Pool!poolVars, Pool!chainVars, RegisteredAt, DebtAt
  <2> QED BY <2>2 DEF PoolStep, Pool!Next
<1> QED BY <1>5, <1>6 DEF Good

LEMMA DestroyStakeStep ==
  ASSUME PoolsInv, NEW s \in Stakes, DestroyStake(s)
  PROVE  Good
<1>1. TypesOK
  BY InvParts
<1>2. /\ s \in live /\ registrations[s] = NoRegistrations
      /\ live' = live \ {s} /\ amount' = [amount EXCEPT ![s] = 0]
      /\ UNCHANGED <<pool, registrations, now, address>>
  BY DEF DestroyStake, NothingRegistered
<1>3. \A o \in Pools : ~IsRegistered(s, o)
  BY <1>2 DEF NoRegistrations, IsRegistered
<1>4. /\ live' \subseteq Stakes /\ live \ {s} \subseteq live' /\ amount' \in [Stakes -> Nat]
      /\ \A x \in Stakes : x # s => amount'[x] = amount[x]
  BY <1>1, <1>2 DEF TypesOK
<1>5. /\ PoolsInv'
      /\ \A o \in Pools : RegisteredAt(o)' = RegisteredAt(o) /\ DebtAt(o)' = DebtAt(o)
  BY <1>2, <1>3, <1>4, StakeChanged
<1>6. ASSUME NEW o \in Pools PROVE PoolStep(o)
  <2>1. Pool(o)!DestroyStake(s)
    BY <1>2, <1>3, <1>5 DEF Pool!DestroyStake, Pool!CanDestroy, Pool!poolVars,
       Pool!chainVars, RegisteredAt, DebtAt
  <2> QED BY <2>1 DEF PoolStep, Pool!Next
<1> QED BY <1>5, <1>6 DEF Good

--------------------------------------------------------------------------------
(* The theorems *)

LEMMA PoolsInit == ASSUME ConstantsAssumption, Init PROVE PoolsInv /\ \A p \in Pools : Pool(p)!Init
<1>1. ASSUME NEW s \in Stakes, NEW p \in Pools PROVE ~IsRegistered(s, p)
  BY DEF Init, NoRegistrations, IsRegistered
<1>2. TypesOK
  <2>1. NewPool("absent") \in PoolRecord /\ NoFunds \in FundsRecord
    BY DEF NewPool, NoFunds, PoolRecord, FundsRecord
  <2>2. NoRegistrations \in DebtMaps
    <3>1. NoRegistrations \in [{} -> Int] /\ {} \in SUBSET Pools
      BY DEF NoRegistrations
    <3> QED BY <3>1 DEF DebtMaps
  <2> QED BY <2>1, <2>2 DEF Init, TypesOK
<1>3. AbsentIsNew
  BY DEF AbsentIsNew, Init
<1>4. RegistrationsExist
  BY DEF RegistrationsExist, Init, NoRegistrations
<1>5. ASSUME NEW p \in Pools PROVE DivisorMatches(p)
  <2>1. SharesAt(p) \in [Stakes -> Int] /\ \A s \in Stakes : SharesAt(p)[s] = 0
    BY <1>1 DEF SharesAt
  <2>2. IsFiniteSet(Stakes)
    BY DEF ConstantsAssumption
  <2>3. SumFunction(SharesAt(p)) = 0
    BY <2>1, <2>2, SumZero
  <2> QED BY <2>3 DEF DivisorMatches, Init, NewPool
<1>6. ASSUME NEW p \in Pools PROVE Pool(p)!Init
  <2>1. RegisteredAt(p) = {} /\ DebtAt(p) = [s \in Stakes |-> 0]
    BY <1>1 DEF RegisteredAt, DebtAt
  <2>2. pool[p] = NewPool("absent") /\ address[p] = NoFunds /\ 0 \in 0..MaxFunds
    BY DEF Init, ConstantsAssumption
  <2> QED BY <2>1, <2>2 DEF Pool!Init, Init, NewPool, NoFunds, RegisteredAt, DebtAt
<1> QED BY <1>2, <1>3, <1>4, <1>5, <1>6, InvParts

LEMMA PoolsStep == ASSUME ConstantsAssumption, PoolsInv, [Next]_vars PROVE Good
<1>1. CASE Next
  <2>1. ASSUME NEW p \in Pools, New(p) \/ Share(p) \/ Settle(p) PROVE Good
    BY <2>1, ConstructionStep, SettleStep
  <2>2. ASSUME NEW s \in Stakes, NEW n \in 1..ShareSupply, NewStake(s, n) PROVE Good
    BY <2>2, NewStakeStep
  <2>3. ASSUME NEW s \in Stakes, DestroyStake(s) PROVE Good
    BY <2>3, DestroyStakeStep
  <2>4. ASSUME NEW p \in Pools, NEW v \in 0..MaxValue, Deposit(p, v) PROVE Good
    BY <2>4, DepositStep
  <2>5. ASSUME NEW p \in Pools, NEW v \in 0..address[p].coins, RecoverCoins(p, v) PROVE Good
    BY <2>5, RecoverCoinsStep
  <2>6. ASSUME NEW s \in Stakes, NEW p \in Pools,
               RegisterStake(s, p) \/ UnregisterStake(s, p) \/ ClaimRoyalties(s, p)
        PROVE  Good
    BY <2>6, RegisterStep, UnregisterStep, ClaimStep
  <2>7. ASSUME NEW p \in Pools, NEW v \in 1..MaxValue, SendFunds(p, v) \/ SendCoins(p, v)
        PROVE  Good
    BY <2>7, SendStep
  <2>8. ASSUME NEW t \in 1..MaxTime, NextCommit(t) PROVE Good
    BY <2>8, CommitStep
  <2> QED BY <1>1, <2>1, <2>2, <2>3, <2>4, <2>5, <2>6, <2>7, <2>8 DEF Next
<1>2. CASE UNCHANGED vars
  <2>1. UNCHANGED <<pool, live, amount, registrations, now, address>>
    BY <1>2 DEF vars
  <2>2. \A p \in Pools : RegisteredAt(p)' = RegisteredAt(p) /\ DebtAt(p)' = DebtAt(p)
    BY <2>1 DEF RegisteredAt, DebtAt, IsRegistered
  <2>3. \A p \in Pools : PoolStep(p)
    BY <2>1, <2>2, ApartStutters DEF Apart
  <2>4. PoolsInv'
    BY <2>1 DEF PoolsInv, TypesOK, AbsentIsNew, RegistrationsMatchPools, Usable, IsRegistered
  <2> QED BY <2>3, <2>4 DEF Good
<1> QED BY <1>1, <1>2

\* The registrations of the stakes and the divisors of the pools stay of their
\* types and in agreement, whatever the calls and their order.
THEOREM PoolsInvariant == Spec => []PoolsInv
<1>1. Init => PoolsInv
  BY ConstantsAssumption, PoolsInit
<1>2. PoolsInv /\ [Next]_vars => PoolsInv'
  BY ConstantsAssumption, PoolsStep DEF Good
<1> QED BY <1>1, <1>2, PTL DEF Spec

\* register_stake, unregister_stake and destroy at several pools: a registration
\* belongs to an existing stake and an existing pool, and each pool's staked_shares
\* counts exactly its registrations.
THEOREM RegistrationsAlwaysMatch == Spec => []RegistrationsMatchPools
<1>1. PoolsInv => RegistrationsMatchPools
  BY DEF PoolsInv
<1> QED BY <1>1, PoolsInvariant, PTL

\* Stakes in common, the common clock and the claim of the derived address change
\* nothing of what one pool promises: each starts and steps as a RoyaltyPool alone.
THEOREM EachPoolIsARoyaltyPool == Spec => EachPoolImplements
<1> DEFINE Start == \A p \in Pools : Pool(p)!Init
           Step == \A p \in Pools : [Pool(p)!Next]_(Pool(p)!vars)
<1>1. Init => Start
  BY ConstantsAssumption, PoolsInit
<1>2. PoolsInv /\ [Next]_vars => [Step]_vars
  BY ConstantsAssumption, PoolsStep DEF Good, PoolStep
<1> HIDE DEF Start, Step
<1>3. Spec => Start /\ [][Step]_vars
  BY <1>1, <1>2, PoolsInvariant, PTL DEF Spec
<1> QED BY <1>3 DEF EachPoolImplements, Start, Step
================================================================================
