--------------------------- MODULE RoyaltyPoolProofs ---------------------------
(***************************************************************************)
(* RoyaltyPool for every number of stakes, supply, precision and read      *)
(* limit: its invariants, what a registration gets over its whole life,    *)
(* that it implements the ledger it promises and the settlement guard, and *)
(* that its events rebuild it.                                             *)
(***************************************************************************)
EXTENDS RoyaltyPoolHistory, RoyaltyPoolRefinement, RoyaltyPoolEvents, SumTheorems

--------------------------------------------------------------------------------
(* The pool.  IInv is inductive: solvency needs the divisor of a fold to be the   *)
(* sum of the registered shares, that sum needs the stakes to be within the       *)
(* supply, and the withdraw guard needs to know that a withdraw of this commit    *)
(* has stamped its timestamp.                                                     *)

\* A withdraw made in this commit has stamped its timestamp.
WithdrawIsStamped == redeemed > 0 => last_settled_at_ms = now

\* The inductive invariant.
IInv ==
    /\ TypeOK
    /\ StakesWithinSupply
    /\ StakedSharesExact
    /\ CarryBelowSupply
    /\ Solvent
    /\ WithdrawIsStamped

\* The registered shares, all of them and each, are within the supply: fold's divisor
\* is at least any registered stake and at most ShareSupply.
LEMMA RegisteredWithinSupply ==
  ASSUME ConstantsAssumption, TypeOK, StakedSharesExact, StakesWithinSupply
  PROVE  /\ staked_shares <= ShareSupply
         /\ \A s \in registered : amount[s] \in Nat /\ amount[s] > 0
                                  /\ amount[s] <= staked_shares
<1>1. IsFiniteSet(Stakes)
  BY DEF ConstantsAssumption
<1> DEFINE rest == [s \in Stakes |-> amount[s] - RegisteredAmount[s]]
<1>2. /\ amount \in [Stakes -> Int]
      /\ RegisteredAmount \in [Stakes -> Int] /\ RegisteredAmount \in [Stakes -> Nat]
      /\ rest \in [Stakes -> Int] /\ rest \in [Stakes -> Nat]
  BY DEF TypeOK, RegisteredAmount, ConstantsAssumption
<1>3. amount = [s \in Stakes |-> rest[s] + 1 * RegisteredAmount[s]]
  <2>1. \A s \in Stakes : amount[s] = rest[s] + 1 * RegisteredAmount[s]
    BY <1>2 DEF TypeOK
  <2> HIDE DEF rest
  <2> QED BY <2>1 DEF TypeOK
<1> HIDE DEF rest
<1>4. SumFunction(amount) = SumFunction(rest) + 1 * SumFunction(RegisteredAmount)
  BY <1>1, <1>2, <1>3, SumLinear
<1>5. SumFunction(rest) \in Nat
  BY <1>1, <1>2, SumNonNegative
<1>6. \A s \in Stakes : RegisteredAmount[s] <= staked_shares
  BY <1>1, <1>2, SumNonNegative DEF StakedSharesExact
<1>7. staked_shares <= ShareSupply
  BY <1>4, <1>5 DEF StakedSharesExact, StakesWithinSupply, TypeOK, ConstantsAssumption
<1>8. \A s \in registered : amount[s] \in Nat /\ amount[s] > 0 /\ RegisteredAmount[s] = amount[s]
  BY DEF TypeOK, RegisteredAmount, ConstantsAssumption
<1>9. registered \subseteq Stakes
  BY DEF TypeOK
<1> QED BY <1>6, <1>7, <1>8, <1>9

\* The scaled credits are integers.
LEMMA OwedType ==
  ASSUME ConstantsAssumption, TypeOK, NEW i \in Int
  PROVE  OwedAt(i) \in [Stakes -> Int]
BY DEF OwedAt, TypeOK, ConstantsAssumption

\* What one fold does, to the unit: the index moves by a whole rate, the rate times the
\* divisor and the new carry are v and the old carry, and the credits grow by as much.
LEMMA FoldExact ==
  ASSUME ConstantsAssumption, IInv, NEW v \in Nat, v > 0 => staked_shares > 0
  PROVE  /\ FoldedIndex(v) \in Nat /\ FoldedIndex(v) >= index
         /\ FoldedCarry(v) \in Nat /\ FoldedCarry(v) < ShareSupply
         /\ v > 0 => FoldedCarry(v) < staked_shares
         /\ (FoldedIndex(v) - index) * staked_shares + FoldedCarry(v) = v * PRECISION + carry
         /\ SumFunction(OwedAt(FoldedIndex(v))) + FoldedCarry(v)
              = SumFunction(Owed) + v * PRECISION + carry
<1> USE DEF IInv
<1>t. /\ index \in Nat /\ carry \in Nat /\ staked_shares \in Nat
      /\ PRECISION \in Nat /\ v * PRECISION \in Nat
  BY DEF TypeOK, ConstantsAssumption
<1>o. SumFunction(Owed) \in Int
  BY <1>t, OwedType, SumType DEF Owed, ConstantsAssumption
<1>1. CASE v = 0
  <2>1. FoldedIndex(v) = index /\ FoldedCarry(v) = carry /\ v * PRECISION = 0
    BY <1>1, <1>t DEF FoldedIndex, FoldedCarry
  <2>2. (index - index) * staked_shares = 0
    BY <1>t
  <2> QED BY <2>1, <2>2, <1>t, <1>o DEF Owed, CarryBelowSupply
<1>2. CASE v > 0
  <2> DEFINE num == v * PRECISION + carry
             q == num \div staked_shares
             r == num % staked_shares
  <2>1. num \in Nat /\ staked_shares > 0
    BY <1>2, <1>t
  <2>2. q \in Nat /\ r \in Nat /\ r < staked_shares /\ num = q * staked_shares + r
    <3> HIDE DEF num
    <3> QED BY <1>t, <2>1, Division
  <2>3. FoldedIndex(v) = index + q /\ FoldedCarry(v) = r
    BY <1>2 DEF FoldedIndex, FoldedCarry
  <2> HIDE DEF q, r
  <2>4. index + q \in Nat /\ index + q >= index /\ (index + q) - index = q
    BY <1>t, <2>2
  <2>5. r < ShareSupply
    BY <1>t, <2>2, RegisteredWithinSupply DEF ConstantsAssumption
  <2>6. SumFunction(OwedAt(index + q)) = SumFunction(Owed) + q * staked_shares
    <3>1. \A s \in Stakes : OwedAt(index + q)[s] = OwedAt(index)[s] + q * RegisteredAmount[s]
      <4> SUFFICES ASSUME NEW s \in Stakes
                   PROVE  OwedAt(index + q)[s] = OwedAt(index)[s] + q * RegisteredAmount[s]
        OBVIOUS
      <4>1. amount[s] \in Int /\ debt[s] \in Int
        BY DEF TypeOK, ConstantsAssumption
      <4>2. amount[s] * (index + q) - debt[s] = (amount[s] * index - debt[s]) + q * amount[s]
        BY <4>1, <1>t, <2>2
      <4>3. q * 0 = 0
        BY <2>2
      <4> QED BY <4>2, <4>3 DEF OwedAt, RegisteredAmount
    <3>2. RegisteredAmount \in [Stakes -> Int]
      BY DEF TypeOK, RegisteredAmount, ConstantsAssumption
    <3>3. q \in Int /\ IsFiniteSet(Stakes)
      BY <2>2 DEF ConstantsAssumption
    <3>4. OwedAt(index) \in [Stakes -> Int] /\ OwedAt(index + q) \in [Stakes -> Int]
      BY <1>t, <2>4, OwedType
    <3>5. OwedAt(index + q) = [s \in Stakes |-> OwedAt(index)[s] + q * RegisteredAmount[s]]
      BY <3>1, <3>4
    <3> QED BY <3>2, <3>3, <3>4, <3>5, SumLinear DEF Owed, StakedSharesExact
  <2>7. q * staked_shares \in Nat
    BY <1>t, <2>2
  <2>8. q * staked_shares + r = v * PRECISION + carry
    BY <2>2
  <2> HIDE DEF num
  <2>9. SumFunction(OwedAt(index + q)) + r = SumFunction(Owed) + v * PRECISION + carry
    BY <1>t, <1>o, <2>2, <2>6, <2>7, <2>8
  <2> QED BY <2>2, <2>3, <2>4, <2>5, <2>8, <2>9
<1> QED BY <1>1, <1>2

\* Folding v in keeps every debt below its product and the scaled credits and the new
\* carry within the new balance: what fold promises.
LEMMA FoldStep ==
  ASSUME ConstantsAssumption, IInv, NEW v \in Nat, v > 0 => staked_shares > 0
  PROVE  /\ FoldedIndex(v) \in Nat /\ FoldedIndex(v) >= index
         /\ FoldedCarry(v) \in Nat /\ FoldedCarry(v) < ShareSupply
         /\ SumFunction(OwedAt(FoldedIndex(v))) + FoldedCarry(v)
              <= (balance + v) * PRECISION
         /\ \A s \in registered : debt[s] <= amount[s] * FoldedIndex(v)
<1> DEFINE i == FoldedIndex(v)
<1>1. /\ i \in Nat /\ i >= index
      /\ FoldedCarry(v) \in Nat /\ FoldedCarry(v) < ShareSupply
      /\ SumFunction(OwedAt(i)) + FoldedCarry(v) = SumFunction(Owed) + v * PRECISION + carry
  BY FoldExact
<1> HIDE DEF i
<1>t. /\ index \in Nat /\ carry \in Nat /\ balance \in Nat /\ PRECISION \in Nat
      /\ v * PRECISION \in Nat /\ balance * PRECISION \in Nat
  BY DEF IInv, TypeOK, ConstantsAssumption
<1>2. SumFunction(OwedAt(i)) + FoldedCarry(v) <= (balance + v) * PRECISION
  <2>1. SumFunction(Owed) + carry <= balance * PRECISION
    BY DEF IInv, Solvent
  <2>2. (balance + v) * PRECISION = balance * PRECISION + v * PRECISION
    BY <1>t
  <2>3. SumFunction(Owed) \in Int
    BY <1>t, OwedType, SumType DEF IInv, Owed, ConstantsAssumption
  <2> QED BY <1>1, <1>t, <2>1, <2>2, <2>3
<1>3. \A s \in registered : debt[s] <= amount[s] * i
  <2> SUFFICES ASSUME NEW s \in registered PROVE debt[s] <= amount[s] * i
    OBVIOUS
  <2>1. debt[s] <= amount[s] * index /\ amount[s] \in Nat /\ debt[s] \in Nat
    BY DEF IInv, Solvent, TypeOK, ConstantsAssumption
  <2>2. amount[s] * index <= amount[s] * i /\ amount[s] * index \in Nat /\ amount[s] * i \in Nat
    BY <1>1, <1>t, <2>1
  <2> QED BY <2>1, <2>2
<1> QED BY <1>1, <1>2, <1>3 DEF i

\* royalty rounds the scaled credit down by less than one currency unit.
LEMMA RoyaltyBounds ==
  ASSUME ConstantsAssumption, NEW shares \in Nat, NEW d \in Nat, NEW i \in Nat, d <= shares * i
  PROVE  /\ Royalty(shares, d, i) \in Nat
         /\ Royalty(shares, d, i) * PRECISION <= shares * i - d
         /\ (shares * i - d) - Royalty(shares, d, i) * PRECISION < PRECISION
<1> DEFINE x == shares * i - d
<1>1. x \in Nat
  OBVIOUS
<1>2. PRECISION \in Nat /\ PRECISION > 0
  BY DEF ConstantsAssumption
<1> HIDE DEF x
<1>3. /\ x \div PRECISION \in Nat
      /\ (x \div PRECISION) * PRECISION <= x
      /\ x - (x \div PRECISION) * PRECISION < PRECISION
  BY <1>1, <1>2, DivisionFloor, Division
<1> QED BY <1>3 DEF x, Royalty

\* A settle takes at most what the snapshot holds, and nothing without a stake.
LEMMA SettledValueType ==
  ASSUME ConstantsAssumption, TypeOK
  PROVE  /\ SettledValue \in Nat /\ SettledValue <= settled
         /\ SettledValue > 0 => staked_shares > 0
BY DEF SettledValue, SettleDue, Redeemable, TypeOK, ConstantsAssumption

\* What the settle in settle, register_stake and unregister_stake leaves, whatever
\* their caller then does to the balance and the registrations.
LEMMA SettlingStep ==
  ASSUME ConstantsAssumption, IInv, Settling
  PROVE  /\ now' \in 1..MaxTime /\ last_settled_at_ms' \in 0..now'
         /\ settled' \in Nat /\ redeemed' \in 0..settled'
         /\ arriving' \in Nat /\ coins' \in Nat
         /\ WithdrawIsStamped'
         /\ index' \in 0..MaxIndex /\ index' = FoldedIndex(SettledValue)
         /\ carry' \in Nat /\ carry' < ShareSupply /\ carry' = FoldedCarry(SettledValue)
<1>1. SettledValue \in Nat /\ SettledValue <= settled /\ (SettledValue > 0 => staked_shares > 0)
  BY SettledValueType DEF IInv
<1>2. /\ FoldedIndex(SettledValue) \in Nat /\ FoldedCarry(SettledValue) \in Nat
      /\ FoldedCarry(SettledValue) < ShareSupply
  BY <1>1, FoldStep
<1>3. index' \in 0..MaxIndex /\ carry' \in Nat /\ carry' < ShareSupply
  BY <1>2 DEF Settling, Fold, ConstantsAssumption
<1>4. redeemed' \in 0..settled
  BY <1>1 DEF Settling, WithdrawAccepted, IInv, TypeOK
<1> QED BY <1>3, <1>4 DEF Settling, Stamp, Fold, IInv, TypeOK, WithdrawIsStamped, ConstantsAssumption

\* What a call that only folds v leaves owed.
LEMMA FoldOwed ==
  ASSUME NEW v, index' = FoldedIndex(v), UNCHANGED stakeVars
  PROVE  Owed' = OwedAt(FoldedIndex(v))
BY DEF Owed, OwedAt, stakeVars

\* register_stake: the newcomer is owed nothing yet, the others what the fold gave them.
LEMMA RegisterOwed ==
  ASSUME ConstantsAssumption, IInv, NEW s \in Stakes, RegisterStake(s)
  PROVE  Owed' = OwedAt(FoldedIndex(SettledValue))
<1> DEFINE i == FoldedIndex(SettledValue)
<1>1. i \in Nat
  BY SettledValueType, FoldExact DEF IInv
<1>2. /\ registered' = registered \cup {s} /\ s \notin registered
      /\ debt' = [debt EXCEPT ![s] = amount[s] * i]
      /\ amount' = amount /\ index' = i
  BY DEF RegisterStake, CanRegister, RegistrationDebt, Settling, Fold
<1> HIDE DEF i
<1>t. amount \in [Stakes -> Nat] /\ debt \in [Stakes -> Nat]
  BY DEF IInv, TypeOK, ConstantsAssumption
<1>3. ASSUME NEW r \in Stakes
      PROVE  (IF r \in registered' THEN amount'[r] * index' - debt'[r] ELSE 0)
               = (IF r \in registered THEN amount[r] * i - debt[r] ELSE 0)
  <2>1. CASE r = s
    <3>1. r \in registered' /\ r \notin registered /\ debt'[r] = amount[r] * i
      BY <1>2, <1>t, <2>1
    <3>2. amount[r] * i \in Nat
      BY <1>1, <1>t
    <3> QED BY <3>1, <3>2, <1>2
  <2>2. CASE r # s
    BY <1>2, <1>t, <2>2
  <2> QED BY <2>1, <2>2
<1> QED BY <1>3 DEF i, Owed, OwedAt

\* unregister_stake: the leaver's credit goes, residue and all; no other changes.
LEMMA UnregisterOwed ==
  ASSUME ConstantsAssumption, IInv, NEW s \in Stakes, UnregisterStake(s)
  PROVE  Owed' = [OwedAt(FoldedIndex(SettledValue)) EXCEPT ![s] = 0]
<1> DEFINE i == FoldedIndex(SettledValue)
<1>1. /\ registered' = registered \ {s}
      /\ debt' = [debt EXCEPT ![s] = 0]
      /\ amount' = amount /\ index' = i
  BY DEF UnregisterStake, Settling, Fold
<1> HIDE DEF i
<1>2. debt \in [Stakes -> Nat]
  BY DEF IInv, TypeOK
<1> QED BY <1>1, <1>2 DEF i, Owed, OwedAt

\* ... and all of it leaves the sum of the credits.
LEMMA UnregisterOwedSum ==
  ASSUME ConstantsAssumption, IInv, NEW s \in Stakes, UnregisterStake(s)
  PROVE  SumFunction(Owed')
           = SumFunction(OwedAt(FoldedIndex(SettledValue)))
               - (amount[s] * FoldedIndex(SettledValue) - debt[s])
<1> DEFINE i == FoldedIndex(SettledValue)
<1>1. i \in Nat
  BY SettledValueType, FoldExact DEF IInv
<1>2. Owed' = [OwedAt(i) EXCEPT ![s] = 0] /\ s \in registered
  BY UnregisterOwed DEF UnregisterStake
<1> HIDE DEF i
<1>3. OwedAt(i) \in [Stakes -> Int]
  BY <1>1, OwedType DEF IInv
<1>4. /\ Owed' \in [Stakes -> Int] /\ Owed'[s] = 0
      /\ \A r \in Stakes : r # s => Owed'[r] = OwedAt(i)[r]
  BY <1>2, <1>3
<1>5. OwedAt(i)[s] = amount[s] * i - debt[s] /\ OwedAt(i)[s] \in Int
  BY <1>2, <1>3 DEF OwedAt
<1>6. SumFunction(Owed') = SumFunction(OwedAt(i)) - OwedAt(i)[s] + Owed'[s]
  BY <1>3, <1>4, SumUpdate DEF ConstantsAssumption
<1>7. SumFunction(OwedAt(i)) \in Int
  BY <1>3, SumType DEF ConstantsAssumption
<1>8. SumFunction(Owed') = SumFunction(OwedAt(i)) - (amount[s] * i - debt[s])
  BY <1>4, <1>5, <1>6, <1>7
<1> QED BY <1>8 DEF i

\* claim_royalties: the debt takes from the claimer's credit the units that were paid.
LEMMA ClaimOwed ==
  ASSUME ConstantsAssumption, IInv, NEW s \in Stakes, ClaimRoyalties(s)
  PROVE  /\ ClaimValue(s) \in Nat
         /\ Owed' = [Owed EXCEPT ![s] = @ - ClaimValue(s) * PRECISION]
<1> DEFINE value == ClaimValue(s)
<1>1. /\ s \in registered
      /\ debt' = [debt EXCEPT ![s] = debt[s] + value * PRECISION]
      /\ UNCHANGED <<index, amount, registered>>
  BY DEF ClaimRoyalties, ClaimedDebt
<1>t. /\ amount \in [Stakes -> Nat] /\ debt \in [Stakes -> Nat]
      /\ index \in Nat /\ PRECISION \in Nat /\ debt[s] <= amount[s] * index
  BY <1>1 DEF IInv, TypeOK, Solvent, ConstantsAssumption
<1>2. value \in Nat
  BY <1>t, RoyaltyBounds DEF ClaimValue
<1> HIDE DEF value
<1>3. Owed'[s] = Owed[s] - value * PRECISION
  <2>1. /\ Owed'[s] = amount[s] * index - debt'[s]
        /\ Owed[s] = amount[s] * index - debt[s]
    BY <1>1 DEF Owed, OwedAt
  <2>2. /\ value * PRECISION \in Nat /\ amount[s] * index \in Nat /\ debt[s] \in Nat
        /\ debt'[s] = debt[s] + value * PRECISION
    BY <1>1, <1>2, <1>t
  <2> QED BY <2>1, <2>2
<1>4. \A r \in Stakes : r # s => Owed'[r] = Owed[r]
  BY <1>1, <1>t DEF Owed, OwedAt
<1>5. Owed' = [Owed EXCEPT ![s] = @ - value * PRECISION]
  BY <1>3, <1>4 DEF Owed, OwedAt
<1> QED BY <1>2, <1>5 DEF value

\* ... and the sum of the credits falls by what was paid.
LEMMA ClaimOwedSum ==
  ASSUME ConstantsAssumption, IInv, NEW s \in Stakes, ClaimRoyalties(s)
  PROVE  SumFunction(Owed') = SumFunction(Owed) - ClaimValue(s) * PRECISION
<1>1. /\ ClaimValue(s) \in Nat
      /\ Owed' = [Owed EXCEPT ![s] = @ - ClaimValue(s) * PRECISION]
  BY ClaimOwed
<1>2. PRECISION \in Nat /\ index \in Nat
  BY DEF IInv, TypeOK, ConstantsAssumption
<1> DEFINE paidOut == ClaimValue(s) * PRECISION
<1>3. paidOut \in Int
  BY <1>1, <1>2
<1> HIDE DEF paidOut
<1>4. Owed \in [Stakes -> Int]
  BY <1>2, OwedType DEF IInv, Owed
<1>5. Owed' = [Owed EXCEPT ![s] = @ - paidOut]
  BY <1>1 DEF paidOut
<1>6. /\ Owed' \in [Stakes -> Int] /\ Owed'[s] = Owed[s] - paidOut /\ Owed[s] \in Int
      /\ \A r \in Stakes : r # s => Owed'[r] = Owed[r]
  BY <1>3, <1>4, <1>5
<1>7. SumFunction(Owed') = SumFunction(Owed) - Owed[s] + Owed'[s]
  BY <1>4, <1>6, SumUpdate DEF ConstantsAssumption
<1>8. SumFunction(Owed) \in Int
  BY <1>4, SumType DEF ConstantsAssumption
<1>9. SumFunction(Owed') = SumFunction(Owed) - paidOut
  BY <1>3, <1>6, <1>7, <1>8
<1> QED BY <1>9 DEF paidOut

\* deposit preserves the invariant.
LEMMA DepositStep ==
  ASSUME ConstantsAssumption, IInv, NEW v \in 0..MaxValue, Deposit(v)
  PROVE  IInv'
<1>1. v \in Nat /\ (v > 0 => staked_shares > 0)
  BY DEF Deposit, ConstantsAssumption
<1>2. /\ FoldedIndex(v) \in Nat /\ FoldedCarry(v) \in Nat /\ FoldedCarry(v) < ShareSupply
      /\ SumFunction(OwedAt(FoldedIndex(v))) + FoldedCarry(v) <= (balance + v) * PRECISION
      /\ \A s \in registered : debt[s] <= amount[s] * FoldedIndex(v)
  BY <1>1, FoldStep
<1>3. /\ index' = FoldedIndex(v) /\ carry' = FoldedCarry(v) /\ balance' = balance + v
      /\ index' <= MaxIndex
      /\ UNCHANGED <<staked_shares, last_settled_at_ms, stakeVars, chainVars>>
  BY DEF Deposit, Fold
<1>4. Owed' = OwedAt(FoldedIndex(v))
  BY <1>3 DEF Owed, OwedAt, stakeVars
<1>5. Solvent'
  BY <1>2, <1>3, <1>4 DEF Solvent, stakeVars
<1>6. TypeOK'
  BY <1>1, <1>2, <1>3 DEF IInv, TypeOK, stakeVars, chainVars, ConstantsAssumption
<1>7. RegisteredAmount' = RegisteredAmount
  BY <1>3 DEF RegisteredAmount, stakeVars
<1> QED BY <1>2, <1>3, <1>5, <1>6, <1>7 DEF IInv, StakedSharesExact, StakesWithinSupply,
            CarryBelowSupply, WithdrawIsStamped, stakeVars, chainVars

\* settle preserves the invariant.
LEMMA SettleStep ==
  ASSUME ConstantsAssumption, IInv, Settle
  PROVE  IInv'
<1> DEFINE v == SettledValue
<1>1. v \in Nat /\ (v > 0 => staked_shares > 0)
  BY SettledValueType DEF IInv
<1>2. /\ SumFunction(OwedAt(FoldedIndex(v))) + FoldedCarry(v) <= (balance + v) * PRECISION
      /\ \A s \in registered : debt[s] <= amount[s] * FoldedIndex(v)
  BY <1>1, FoldStep
<1>3. /\ balance' = balance + v
      /\ UNCHANGED <<staked_shares, stakeVars>>
      /\ Settling
  BY DEF Settle
<1>s. /\ now' \in 1..MaxTime /\ last_settled_at_ms' \in 0..now'
      /\ settled' \in Nat /\ redeemed' \in 0..settled'
      /\ arriving' \in Nat /\ coins' \in Nat
      /\ WithdrawIsStamped'
      /\ index' \in 0..MaxIndex /\ index' = FoldedIndex(v)
      /\ carry' \in Nat /\ carry' < ShareSupply /\ carry' = FoldedCarry(v)
  BY <1>3, SettlingStep
<1> HIDE DEF v
<1>4. Owed' = OwedAt(FoldedIndex(v))
  BY <1>3, <1>s DEF Owed, OwedAt, stakeVars
<1>5. Solvent'
  BY <1>2, <1>3, <1>4, <1>s DEF Solvent, stakeVars
<1>6. TypeOK'
  BY <1>1, <1>3, <1>s DEF IInv, TypeOK, stakeVars
<1>7. RegisteredAmount' = RegisteredAmount
  BY <1>3 DEF RegisteredAmount, stakeVars
<1> QED BY <1>3, <1>s, <1>5, <1>6, <1>7 DEF IInv, StakedSharesExact, StakesWithinSupply,
            CarryBelowSupply, stakeVars

\* register_stake preserves the invariant: the newcomer's credit starts at zero.
LEMMA RegisterStakeStep ==
  ASSUME ConstantsAssumption, IInv, NEW s \in Stakes, RegisterStake(s)
  PROVE  IInv'
<1> DEFINE v == SettledValue
           i == FoldedIndex(v)
<1>1. v \in Nat /\ (v > 0 => staked_shares > 0)
  BY SettledValueType DEF IInv
<1>2. /\ i \in Nat
      /\ SumFunction(OwedAt(i)) + FoldedCarry(v) <= (balance + v) * PRECISION
      /\ \A r \in registered : debt[r] <= amount[r] * i
  BY <1>1, FoldStep
<1>3. /\ balance' = balance + v
      /\ registered' = registered \cup {s}
      /\ s \in live \ registered
      /\ debt' = [debt EXCEPT ![s] = amount[s] * i]
      /\ staked_shares' = staked_shares + amount[s]
      /\ UNCHANGED <<live, amount>>
      /\ Settling
  BY DEF RegisterStake, CanRegister, RegistrationDebt
<1>s. /\ now' \in 1..MaxTime /\ last_settled_at_ms' \in 0..now'
      /\ settled' \in Nat /\ redeemed' \in 0..settled'
      /\ arriving' \in Nat /\ coins' \in Nat
      /\ WithdrawIsStamped'
      /\ index' \in 0..MaxIndex /\ index' = i
      /\ carry' \in Nat /\ carry' < ShareSupply /\ carry' = FoldedCarry(v)
  BY <1>3, SettlingStep
<1> HIDE DEF v, i
<1>t. /\ amount \in [Stakes -> Nat] /\ debt \in [Stakes -> Nat]
      /\ registered \subseteq live /\ live \subseteq Stakes
  BY DEF IInv, TypeOK, ConstantsAssumption
<1>4. Owed' = OwedAt(i)
  BY RegisterOwed DEF i, v
<1>5. Solvent'
  <2>1. \A r \in registered' : debt'[r] <= amount'[r] * index'
    <3> SUFFICES ASSUME NEW r \in registered' PROVE debt'[r] <= amount'[r] * index'
      OBVIOUS
    <3>1. CASE r = s
      <4>1. debt'[r] = amount'[r] * index' /\ amount'[r] * index' \in Nat
        BY <1>2, <1>3, <1>s, <1>t, <3>1
      <4> QED BY <4>1
    <3>2. CASE r # s
      BY <1>2, <1>3, <1>s, <1>t, <3>2
    <3> QED BY <3>1, <3>2
  <2> QED BY <2>1, <1>2, <1>3, <1>4, <1>s DEF Solvent
<1>6. StakedSharesExact'
  <2>1. RegisteredAmount' \in [Stakes -> Int] /\ RegisteredAmount \in [Stakes -> Int]
    BY <1>3, <1>t DEF RegisteredAmount
  <2>2. /\ \A r \in Stakes : r # s => RegisteredAmount'[r] = RegisteredAmount[r]
        /\ RegisteredAmount[s] = 0 /\ RegisteredAmount'[s] = amount[s]
    BY <1>3, <1>t DEF RegisteredAmount
  <2>3. SumFunction(RegisteredAmount')
          = SumFunction(RegisteredAmount) - RegisteredAmount[s] + RegisteredAmount'[s]
    BY <2>1, <2>2, SumUpdate DEF ConstantsAssumption
  <2> QED BY <2>2, <2>3, <1>3, <1>t DEF IInv, StakedSharesExact, TypeOK
<1>7. TypeOK'
  <2>1. amount[s] * i \in Nat
    BY <1>2, <1>t
  <2>2. debt' \in [Stakes -> Nat]
    BY <2>1, <1>3, <1>t
  <2>3. \A r \in Stakes \ registered' : debt'[r] = 0
    BY <1>3 DEF IInv, TypeOK
  <2> QED BY <2>2, <2>3, <1>1, <1>3, <1>s, <1>t DEF IInv, TypeOK
<1> QED BY <1>3, <1>s, <1>5, <1>6, <1>7 DEF IInv, StakesWithinSupply, CarryBelowSupply

\* unregister_stake preserves the invariant: the payout is within the leaver's credit.
LEMMA UnregisterStakeStep ==
  ASSUME ConstantsAssumption, IInv, NEW s \in Stakes, UnregisterStake(s)
  PROVE  IInv'
<1> DEFINE v == SettledValue
           i == FoldedIndex(v)
           value == Royalty(amount[s], debt[s], i)
<1>1. v \in Nat /\ (v > 0 => staked_shares > 0)
  BY SettledValueType DEF IInv
<1>2. /\ i \in Nat
      /\ SumFunction(OwedAt(i)) + FoldedCarry(v) <= (balance + v) * PRECISION
      /\ \A r \in registered : debt[r] <= amount[r] * i
  BY <1>1, FoldStep
<1>3. /\ s \in registered
      /\ value <= balance + v
      /\ balance' = (balance + v) - value
      /\ registered' = registered \ {s}
      /\ debt' = [debt EXCEPT ![s] = 0]
      /\ staked_shares' = staked_shares - amount[s]
      /\ UNCHANGED <<live, amount>>
      /\ Settling
  BY DEF UnregisterStake, ExitValue, Payable
<1>s. /\ now' \in 1..MaxTime /\ last_settled_at_ms' \in 0..now'
      /\ settled' \in Nat /\ redeemed' \in 0..settled'
      /\ arriving' \in Nat /\ coins' \in Nat
      /\ WithdrawIsStamped'
      /\ index' \in 0..MaxIndex /\ index' = i
      /\ carry' \in Nat /\ carry' < ShareSupply /\ carry' = FoldedCarry(v)
  BY <1>3, SettlingStep
<1>t. /\ amount \in [Stakes -> Nat] /\ debt \in [Stakes -> Nat]
      /\ registered \subseteq live /\ live \subseteq Stakes
      /\ balance \in Nat /\ staked_shares \in Nat
  BY DEF IInv, TypeOK, ConstantsAssumption
<1>p. PRECISION \in Nat
  BY DEF ConstantsAssumption
<1>r. /\ value \in Nat
      /\ value * PRECISION <= amount[s] * i - debt[s]
  <2> HIDE DEF i
  <2> QED BY <1>2, <1>3, <1>t, RoyaltyBounds
<1> HIDE DEF v, i, value
<1>4. SumFunction(Owed') = SumFunction(OwedAt(i)) - (amount[s] * i - debt[s])
  BY UnregisterOwedSum DEF i, v
<1>o. SumFunction(OwedAt(i)) \in Int
  BY <1>2, OwedType, SumType DEF IInv, ConstantsAssumption
<1>5. Solvent'
  <2>1. \A r \in registered' : debt'[r] <= amount'[r] * index'
    BY <1>2, <1>3, <1>s, <1>t
  <2>2. balance' * PRECISION = (balance + v) * PRECISION - value * PRECISION
    BY <1>1, <1>3, <1>p, <1>r, <1>t
  <2>3. /\ (balance + v) * PRECISION \in Nat /\ value * PRECISION \in Nat
        /\ amount[s] * i - debt[s] \in Int
    BY <1>1, <1>2, <1>p, <1>r, <1>t
  <2>4. SumFunction(Owed') + carry' <= balance' * PRECISION
    BY <2>2, <2>3, <1>2, <1>4, <1>o, <1>r, <1>s
  <2> QED BY <2>1, <2>4 DEF Solvent
<1>6. StakedSharesExact'
  <2>1. RegisteredAmount' \in [Stakes -> Int] /\ RegisteredAmount \in [Stakes -> Int]
    BY <1>3, <1>t DEF RegisteredAmount
  <2>2. /\ \A r \in Stakes : r # s => RegisteredAmount'[r] = RegisteredAmount[r]
        /\ RegisteredAmount'[s] = 0 /\ RegisteredAmount[s] = amount[s]
    BY <1>3, <1>t DEF RegisteredAmount
  <2>3. SumFunction(RegisteredAmount')
          = SumFunction(RegisteredAmount) - RegisteredAmount[s] + RegisteredAmount'[s]
    BY <2>1, <2>2, SumUpdate DEF ConstantsAssumption
  <2> QED BY <2>2, <2>3, <1>3, <1>t DEF IInv, StakedSharesExact
<1>7. TypeOK'
  <2>1. balance' \in Nat
    BY <1>1, <1>3, <1>r, <1>t
  <2>2. staked_shares' \in Nat
    <3>1. amount[s] <= staked_shares
      BY <1>3, RegisteredWithinSupply DEF IInv
    <3> QED BY <3>1, <1>3, <1>t
  <2>3. debt' \in [Stakes -> Nat] /\ \A r \in Stakes \ registered' : debt'[r] = 0
    BY <1>3, <1>t DEF IInv, TypeOK
  <2> QED BY <2>1, <2>2, <2>3, <1>3, <1>s, <1>t DEF IInv, TypeOK
<1> QED BY <1>3, <1>s, <1>5, <1>6, <1>7 DEF IInv, StakesWithinSupply, CarryBelowSupply

\* claim_royalties preserves the invariant: debt and balance move by the same value.
LEMMA ClaimRoyaltiesStep ==
  ASSUME ConstantsAssumption, IInv, NEW s \in Stakes, ClaimRoyalties(s)
  PROVE  IInv'
<1> DEFINE value == Royalty(amount[s], debt[s], index)
<1>3. /\ s \in registered
      /\ value <= balance
      /\ debt' = [debt EXCEPT ![s] = debt[s] + value * PRECISION]
      /\ balance' = balance - value
      /\ UNCHANGED <<staked_shares, index, carry, last_settled_at_ms>>
      /\ UNCHANGED <<live, amount, registered, chainVars>>
  BY DEF ClaimRoyalties, ClaimValue, ClaimedDebt, Payable
<1>t. /\ amount \in [Stakes -> Nat] /\ debt \in [Stakes -> Nat]
      /\ registered \subseteq live /\ live \subseteq Stakes
      /\ balance \in Nat /\ index \in Nat /\ carry \in Nat
  BY DEF IInv, TypeOK, ConstantsAssumption
<1>p. PRECISION \in Nat
  BY DEF ConstantsAssumption
<1>2. \A r \in registered : debt[r] <= amount[r] * index
  BY DEF IInv, Solvent
<1>r. /\ value \in Nat
      /\ value * PRECISION <= amount[s] * index - debt[s]
  BY <1>2, <1>3, <1>t, RoyaltyBounds
<1> HIDE DEF value
<1>d. value * PRECISION \in Nat /\ debt'[s] = debt[s] + value * PRECISION
  BY <1>3, <1>p, <1>r, <1>t
<1>4. SumFunction(Owed') = SumFunction(Owed) - value * PRECISION
  BY ClaimOwedSum DEF value, ClaimValue
<1>o. SumFunction(Owed) \in Int
  BY <1>t, OwedType, SumType DEF IInv, Owed, ConstantsAssumption
<1>5. Solvent'
  <2>1. \A r \in registered' : debt'[r] <= amount'[r] * index'
    <3> SUFFICES ASSUME NEW r \in registered PROVE debt'[r] <= amount[r] * index
      BY <1>3
    <3>1. CASE r = s
      <4>1. amount[s] * index \in Nat /\ debt[s] \in Nat
        BY <1>t
      <4> QED BY <3>1, <4>1, <1>d, <1>r
    <3>2. CASE r # s
      BY <1>2, <1>3, <1>t, <3>2
    <3> QED BY <3>1, <3>2
  <2>2. balance' * PRECISION = balance * PRECISION - value * PRECISION
    BY <1>3, <1>p, <1>r, <1>t
  <2>3. SumFunction(Owed) + carry <= balance * PRECISION /\ balance * PRECISION \in Nat
    BY <1>p, <1>t DEF IInv, Solvent
  <2>4. SumFunction(Owed') + carry' <= balance' * PRECISION
    BY <2>2, <2>3, <1>3, <1>4, <1>d, <1>o, <1>t
  <2> QED BY <2>1, <2>4 DEF Solvent
<1>6. RegisteredAmount' = RegisteredAmount
  BY <1>3 DEF RegisteredAmount
<1>7. TypeOK'
  <2>1. balance' \in Nat
    BY <1>3, <1>r, <1>t
  <2>2. debt' \in [Stakes -> Nat] /\ \A r \in Stakes \ registered' : debt'[r] = 0
    BY <1>3, <1>d, <1>t DEF IInv, TypeOK
  <2> QED BY <2>1, <2>2, <1>3 DEF IInv, TypeOK, chainVars
<1> QED BY <1>3, <1>5, <1>6, <1>7 DEF IInv, StakesWithinSupply, StakedSharesExact,
            CarryBelowSupply, WithdrawIsStamped, chainVars

\* stake::new preserves the invariant: an unregistered stake owes and holds nothing.
LEMMA NewStakeStep ==
  ASSUME ConstantsAssumption, IInv, NEW s \in Stakes, NEW n \in 1..ShareSupply, NewStake(s, n)
  PROVE  IInv'
<1>1. /\ s \notin live /\ live' = live \cup {s}
      /\ amount' = [amount EXCEPT ![s] = n]
      /\ SumFunction(amount) + n <= ShareSupply
      /\ UNCHANGED <<poolVars, registered, debt, chainVars>>
  BY DEF NewStake
<1>t. /\ amount \in [Stakes -> Nat] /\ amount[s] = 0
      /\ registered \subseteq live /\ live \subseteq Stakes /\ n \in Nat /\ n > 0
  BY <1>1 DEF IInv, TypeOK, ConstantsAssumption
<1>2. StakesWithinSupply'
  <2>1. /\ amount \in [Stakes -> Int] /\ amount' \in [Stakes -> Int] /\ amount'[s] = n
        /\ \A r \in Stakes : r # s => amount'[r] = amount[r]
    BY <1>1, <1>t
  <2>2. SumFunction(amount') = SumFunction(amount) - amount[s] + amount'[s]
    BY <2>1, SumUpdate DEF ConstantsAssumption
  <2>3. SumFunction(amount) \in Int
    BY <2>1, SumType DEF ConstantsAssumption
  <2> QED BY <2>1, <2>2, <2>3, <1>1, <1>t DEF StakesWithinSupply
<1>3. Owed' = Owed /\ RegisteredAmount' = RegisteredAmount
  <2>1. \A r \in registered : amount'[r] = amount[r] /\ r \in Stakes
    BY <1>1, <1>t
  <2> QED BY <2>1, <1>1 DEF Owed, OwedAt, RegisteredAmount, poolVars
<1>4. TypeOK'
  <2>1. amount' \in [Stakes -> 0..ShareSupply]
    BY <1>1 DEF IInv, TypeOK, ConstantsAssumption
  <2>2. \A r \in Stakes : amount'[r] = 0 <=> r \notin live'
    BY <1>1, <1>t DEF IInv, TypeOK
  <2> QED BY <2>1, <2>2, <1>1, <1>t DEF IInv, TypeOK, poolVars, chainVars
<1>5. Solvent'
  <2>1. \A r \in registered : amount'[r] = amount[r]
    BY <1>1, <1>t
  <2> QED BY <2>1, <1>1, <1>3 DEF IInv, Solvent, poolVars
<1> QED BY <1>1, <1>2, <1>3, <1>4, <1>5 DEF IInv, StakedSharesExact, CarryBelowSupply,
            WithdrawIsStamped, poolVars, chainVars

\* stake::destroy preserves the invariant: only an unregistered stake goes.
LEMMA DestroyStakeStep ==
  ASSUME ConstantsAssumption, IInv, NEW s \in Stakes, DestroyStake(s)
  PROVE  IInv'
<1>1. /\ s \in live /\ s \notin registered /\ live' = live \ {s}
      /\ amount' = [amount EXCEPT ![s] = 0]
      /\ UNCHANGED <<poolVars, registered, debt, chainVars>>
  BY DEF DestroyStake, CanDestroy
<1>t. /\ amount \in [Stakes -> Nat]
      /\ registered \subseteq live /\ live \subseteq Stakes
  BY DEF IInv, TypeOK, ConstantsAssumption
<1>2. StakesWithinSupply'
  <2>1. /\ amount \in [Stakes -> Int] /\ amount' \in [Stakes -> Int] /\ amount'[s] = 0
        /\ \A r \in Stakes : r # s => amount'[r] = amount[r]
    BY <1>1, <1>t
  <2>2. SumFunction(amount') = SumFunction(amount) - amount[s] + amount'[s]
    BY <2>1, SumUpdate DEF ConstantsAssumption
  <2>3. SumFunction(amount) \in Int
    BY <2>1, SumType DEF ConstantsAssumption
  <2>4. SumFunction(amount) <= ShareSupply /\ ShareSupply \in Nat /\ amount[s] \in Nat
    BY <1>t DEF IInv, StakesWithinSupply, ConstantsAssumption
  <2> QED BY <2>1, <2>2, <2>3, <2>4 DEF StakesWithinSupply
<1>3. Owed' = Owed /\ RegisteredAmount' = RegisteredAmount
  <2>1. \A r \in registered : amount'[r] = amount[r] /\ r \in Stakes
    BY <1>1, <1>t
  <2> QED BY <2>1, <1>1 DEF Owed, OwedAt, RegisteredAmount, poolVars
<1>4. TypeOK'
  <2>1. amount' \in [Stakes -> 0..ShareSupply]
    BY <1>1 DEF IInv, TypeOK, ConstantsAssumption
  <2>2. \A r \in Stakes : amount'[r] = 0 <=> r \notin live'
    BY <1>1, <1>t DEF IInv, TypeOK
  <2> QED BY <2>1, <2>2, <1>1, <1>t DEF IInv, TypeOK, poolVars, chainVars
<1>5. Solvent'
  <2>1. \A r \in registered : amount'[r] = amount[r]
    BY <1>1, <1>t
  <2> QED BY <2>1, <1>1, <1>3 DEF IInv, Solvent, poolVars
<1> QED BY <1>1, <1>2, <1>3, <1>4, <1>5 DEF IInv, StakedSharesExact, CarryBelowSupply,
            WithdrawIsStamped, poolVars, chainVars

\* What only moves funds, coins or the clock, or nothing at all.
LEMMA ChainStep ==
  ASSUME ConstantsAssumption, IInv, UNCHANGED <<poolVars, stakeVars>>,
         now' \in 1..MaxTime, now' >= now,
         settled' \in Nat, redeemed' \in 0..settled', arriving' \in Nat, coins' \in Nat,
         redeemed' > 0 => redeemed' = redeemed /\ now' = now
  PROVE  IInv'
<1>1. Owed' = Owed /\ RegisteredAmount' = RegisteredAmount
  BY DEF Owed, OwedAt, RegisteredAmount, poolVars, stakeVars
<1>2. TypeOK'
  BY DEF IInv, TypeOK, poolVars, stakeVars
<1>3. WithdrawIsStamped'
  BY DEF IInv, WithdrawIsStamped, poolVars
<1> QED BY <1>1, <1>2, <1>3 DEF IInv, Solvent, StakedSharesExact, StakesWithinSupply,
            CarryBelowSupply, poolVars, stakeVars

\* A new pool satisfies the invariant.
LEMMA InitIInv ==
  ASSUME ConstantsAssumption, Init
  PROVE  IInv
<1>1. TypeOK
  BY DEF Init, TypeOK, ConstantsAssumption
<1> DEFINE z == [s \in Stakes |-> 0]
<1>2. Owed = z /\ RegisteredAmount = z /\ amount = z
  BY DEF Init, Owed, OwedAt, RegisteredAmount
<1>3. SumFunction(z) = 0
  BY SumZero DEF ConstantsAssumption
<1> HIDE DEF z
<1> QED BY <1>1, <1>2, <1>3 DEF Init, IInv, Solvent, StakedSharesExact, StakesWithinSupply,
            CarryBelowSupply, WithdrawIsStamped, ConstantsAssumption

\* Every step preserves the invariant.
LEMMA NextIInv ==
  ASSUME ConstantsAssumption, IInv, [Next]_vars
  PROVE  IInv'
<1>1. ASSUME NEW s \in Stakes, NEW n \in 1..ShareSupply, NewStake(s, n) PROVE IInv'
  BY <1>1, NewStakeStep
<1>2. ASSUME NEW s \in Stakes, DestroyStake(s) PROVE IInv'
  BY <1>2, DestroyStakeStep
<1>3. ASSUME NEW v \in 0..MaxValue, Deposit(v) PROVE IInv'
  BY <1>3, DepositStep
<1>4. CASE Settle
  BY <1>4, SettleStep
<1>5. ASSUME NEW v \in 0..coins, RecoverCoins(v) PROVE IInv'
  BY <1>5, ChainStep DEF RecoverCoins, IInv, TypeOK, ConstantsAssumption
<1>6. ASSUME NEW s \in Stakes, RegisterStake(s) PROVE IInv'
  BY <1>6, RegisterStakeStep
<1>7. ASSUME NEW s \in Stakes, UnregisterStake(s) PROVE IInv'
  BY <1>7, UnregisterStakeStep
<1>8. ASSUME NEW s \in Stakes, ClaimRoyalties(s) PROVE IInv'
  BY <1>8, ClaimRoyaltiesStep
<1>9. ASSUME NEW v \in 1..MaxValue, SendFunds(v) PROVE IInv'
  BY <1>9, ChainStep DEF SendFunds, IInv, TypeOK, ConstantsAssumption
<1>10. ASSUME NEW v \in 1..MaxValue, SendCoins(v) PROVE IInv'
  BY <1>10, ChainStep DEF SendCoins, IInv, TypeOK, ConstantsAssumption
<1>11. ASSUME NEW t \in 1..MaxTime, NextCommit(t) PROVE IInv'
  BY <1>11, ChainStep DEF NextCommit, IInv, TypeOK, ConstantsAssumption
<1>12. CASE UNCHANGED vars
  BY <1>12, ChainStep DEF vars, chainVars, IInv, TypeOK
<1> QED BY <1>1, <1>2, <1>3, <1>4, <1>5, <1>6, <1>7, <1>8, <1>9, <1>10, <1>11, <1>12 DEF Next

\* The invariant holds in every reachable state of the pool.
THEOREM InductiveInvariant == Spec => []IInv
<1>1. Init => IInv
  BY InitIInv, ConstantsAssumption
<1>2. IInv /\ [Next]_vars => IInv'
  BY NextIInv, ConstantsAssumption
<1> QED BY <1>1, <1>2, PTL DEF Spec

\* The rounded-down payouts of all the registrations add up to no more than the
\* balance, because their scaled credits are within the scaled balance.
LEMMA PendingCovered ==
  ASSUME ConstantsAssumption, IInv
  PROVE  EveryExitPayable
<1>p. PRECISION \in Nat /\ PRECISION > 0 /\ IsFiniteSet(Stakes)
  BY DEF ConstantsAssumption
<1>t. /\ amount \in [Stakes -> Nat] /\ debt \in [Stakes -> Nat] /\ registered \subseteq Stakes
      /\ index \in Nat /\ balance \in Nat /\ carry \in Nat
      /\ \A s \in registered : debt[s] <= amount[s] * index
  BY DEF IInv, TypeOK, Solvent, ConstantsAssumption
<1>1. ASSUME NEW s \in registered
      PROVE  /\ Royalty(amount[s], debt[s], index) \in Nat
             /\ Royalty(amount[s], debt[s], index) * PRECISION <= amount[s] * index - debt[s]
  BY <1>t, RoyaltyBounds
<1> DEFINE rest == [s \in Stakes |-> Owed[s] - Pending[s] * PRECISION]
<1>2. Pending \in [Stakes -> Nat]
  BY <1>1 DEF Pending
<1>3. Owed \in [Stakes -> Int]
  BY <1>t, OwedType DEF IInv, Owed
<1>4. rest \in [Stakes -> Nat]
  <2> SUFFICES ASSUME NEW s \in Stakes PROVE Owed[s] - Pending[s] * PRECISION \in Nat
    OBVIOUS
  <2>1. CASE s \in registered
    <3>1. /\ Owed[s] = amount[s] * index - debt[s]
          /\ Pending[s] = Royalty(amount[s], debt[s], index)
      BY <2>1 DEF Owed, OwedAt, Pending
    <3>2. Pending[s] * PRECISION \in Nat /\ Owed[s] \in Int /\ Pending[s] * PRECISION <= Owed[s]
      BY <1>1, <1>2, <1>3, <1>p, <2>1, <3>1
    <3> QED BY <3>2
  <2>2. CASE s \notin registered
    BY <2>2, <1>p DEF Owed, OwedAt, Pending
  <2> QED BY <2>1, <2>2
<1>5. \A s \in Stakes : Owed[s] = rest[s] + PRECISION * Pending[s]
  <2> SUFFICES ASSUME NEW s \in Stakes
               PROVE  Owed[s] = (Owed[s] - Pending[s] * PRECISION) + PRECISION * Pending[s]
    OBVIOUS
  <2>1. Owed[s] \in Int /\ Pending[s] \in Int
    BY <1>2, <1>3
  <2>2. PRECISION * Pending[s] = Pending[s] * PRECISION /\ PRECISION * Pending[s] \in Int
    BY <1>p, <2>1
  <2> QED BY <2>1, <2>2
<1> HIDE DEF rest
<1>6. SumFunction(Owed) = SumFunction(rest) + PRECISION * SumFunction(Pending)
  <2>1. /\ rest \in [Stakes -> Int] /\ Pending \in [Stakes -> Int] /\ PRECISION \in Int
    BY <1>2, <1>4, <1>p
  <2> QED BY <1>p, <1>3, <1>5, <2>1, SumLinear
<1>7. /\ SumFunction(rest) \in Nat /\ SumFunction(Pending) \in Nat
      /\ \A s \in Stakes : Pending[s] <= SumFunction(Pending)
  BY <1>2, <1>4, <1>p, SumNonNegative
<1>8. PRECISION * SumFunction(Pending) <= balance * PRECISION
  <2>1. SumFunction(Owed) + carry <= balance * PRECISION
    BY DEF IInv, Solvent
  <2>2. PRECISION * SumFunction(Pending) \in Nat /\ balance * PRECISION \in Nat
    BY <1>7, <1>p, <1>t
  <2> QED BY <1>6, <1>7, <1>t, <2>1, <2>2
<1>9. SumFunction(Pending) <= balance
  <2>1. \A a, b \in Nat : PRECISION * a <= b * PRECISION => a <= b
    BY <1>p
  <2> QED BY <2>1, <1>7, <1>8, <1>t
<1>10. \A s \in registered : Payable(s, index, balance)
  <2> SUFFICES ASSUME NEW s \in registered PROVE Payable(s, index, balance)
    OBVIOUS
  <2>1. Pending[s] = Royalty(amount[s], debt[s], index) /\ Pending[s] \in Nat
    BY <1>2, <1>t DEF Pending
  <2>2. Pending[s] <= balance
    BY <1>7, <1>9, <1>t, <2>1
  <2> QED BY <2>1, <2>2, <1>t DEF Payable
<1> QED BY <1>9, <1>10 DEF EveryExitPayable

\* A fold never lowers the credit of a stake that stays registered.
LEMMA FoldKeepsCredit ==
  ASSUME ConstantsAssumption, IInv, NEW s \in registered \cap registered', NEW v \in Nat,
         v > 0 => staked_shares > 0, index' = FoldedIndex(v),
         amount'[s] = amount[s], debt'[s] = debt[s]
  PROVE  Owed'[s] >= Owed[s]
<1>1. s \in Stakes /\ amount[s] \in Nat /\ debt[s] \in Nat /\ index \in Nat
  BY DEF IInv, TypeOK, ConstantsAssumption
<1>2. index' \in Nat /\ index' >= index
  BY FoldStep
<1>3. Owed[s] = amount[s] * index - debt[s] /\ Owed'[s] = amount[s] * index' - debt[s]
  BY <1>1 DEF Owed, OwedAt
<1>4. amount[s] * index <= amount[s] * index' /\ amount[s] * index \in Nat
      /\ amount[s] * index' \in Nat
  BY <1>1, <1>2
<1> QED BY <1>1, <1>3, <1>4

\* No step takes credit from a registration that outlives it, except what a claim pays.
LEMMA CreditKeptStep ==
  ASSUME ConstantsAssumption, IInv, [Next]_vars
  PROVE  CreditKept
<1> SUFFICES ASSUME NEW s \in registered \cap registered'
             PROVE  \/ Owed'[s] >= Owed[s]
                    \/ /\ Owed[s] - Owed'[s] = (balance - balance') * PRECISION
                       /\ Owed'[s] < PRECISION
  BY DEF CreditKept
<1>t. /\ s \in Stakes /\ s \in live /\ amount \in [Stakes -> Nat] /\ debt \in [Stakes -> Nat]
      /\ index \in Nat /\ balance \in Nat /\ debt[s] <= amount[s] * index
  BY DEF IInv, TypeOK, Solvent, ConstantsAssumption
<1>p. PRECISION \in Nat
  BY DEF ConstantsAssumption
<1>o. Owed[s] = amount[s] * index - debt[s] /\ Owed[s] \in Int
  BY <1>t DEF Owed, OwedAt
<1>v. SettledValue \in Nat /\ (SettledValue > 0 => staked_shares > 0)
  BY SettledValueType DEF IInv
<1>same. ASSUME index' = index, amount'[s] = amount[s], debt'[s] = debt[s]
         PROVE  Owed'[s] >= Owed[s]
  BY <1>same, <1>t, <1>o DEF Owed, OwedAt
<1>1. ASSUME NEW r \in Stakes, NEW n \in 1..ShareSupply, NewStake(r, n)
      PROVE  Owed'[s] >= Owed[s]
  BY <1>1, <1>t, <1>same DEF NewStake, poolVars
<1>2. ASSUME NEW r \in Stakes, DestroyStake(r) PROVE Owed'[s] >= Owed[s]
  BY <1>2, <1>t, <1>same DEF DestroyStake, CanDestroy, poolVars
<1>3. ASSUME NEW v \in 0..MaxValue, Deposit(v) PROVE Owed'[s] >= Owed[s]
  BY <1>3, <1>t, FoldKeepsCredit DEF Deposit, Fold, stakeVars, ConstantsAssumption
<1>4. CASE Settle
  BY <1>4, <1>t, <1>v, FoldKeepsCredit DEF Settle, Settling, Fold, stakeVars
<1>5. ASSUME NEW v \in 0..coins, RecoverCoins(v) PROVE Owed'[s] >= Owed[s]
  BY <1>5, <1>same DEF RecoverCoins, poolVars, stakeVars
<1>6. ASSUME NEW r \in Stakes, RegisterStake(r) PROVE Owed'[s] >= Owed[s]
  BY <1>6, <1>t, <1>v, FoldKeepsCredit DEF RegisterStake, CanRegister, Settling, Fold
<1>7. ASSUME NEW r \in Stakes, UnregisterStake(r) PROVE Owed'[s] >= Owed[s]
  BY <1>7, <1>t, <1>v, FoldKeepsCredit DEF UnregisterStake, Settling, Fold
<1>8. ASSUME NEW r \in Stakes, ClaimRoyalties(r)
      PROVE  \/ Owed'[s] >= Owed[s]
             \/ /\ Owed[s] - Owed'[s] = (balance - balance') * PRECISION
                /\ Owed'[s] < PRECISION
  <2>1. CASE r # s
    BY <1>8, <2>1, <1>t, <1>same DEF ClaimRoyalties
  <2>2. CASE r = s
    <3> DEFINE value == Royalty(amount[s], debt[s], index)
    <3>1. /\ balance' = balance - value /\ index' = index /\ amount' = amount
          /\ debt' = [debt EXCEPT ![s] = debt[s] + value * PRECISION]
      BY <1>8, <2>2 DEF ClaimRoyalties, ClaimValue, ClaimedDebt
    <3>2. /\ value \in Nat
          /\ (amount[s] * index - debt[s]) - value * PRECISION < PRECISION
      BY <1>t, RoyaltyBounds
    <3> HIDE DEF value
    <3>3. value * PRECISION \in Nat /\ debt'[s] = debt[s] + value * PRECISION
      BY <1>p, <1>t, <3>1, <3>2
    <3>4. Owed'[s] = amount[s] * index - (debt[s] + value * PRECISION)
      BY <1>t, <3>1, <3>3 DEF Owed, OwedAt
    <3>5. Owed[s] - Owed'[s] = value * PRECISION
      BY <1>t, <1>o, <3>3, <3>4
    <3>6. balance - balance' = value
      BY <1>t, <3>1, <3>2
    <3>7. Owed'[s] < PRECISION
      BY <1>t, <1>p, <3>2, <3>3, <3>4
    <3> QED BY <3>5, <3>6, <3>7
  <2> QED BY <2>1, <2>2
<1>9. ASSUME NEW v \in 1..MaxValue, SendFunds(v) PROVE Owed'[s] >= Owed[s]
  BY <1>9, <1>same DEF SendFunds, poolVars, stakeVars
<1>10. ASSUME NEW v \in 1..MaxValue, SendCoins(v) PROVE Owed'[s] >= Owed[s]
  BY <1>10, <1>same DEF SendCoins, poolVars, stakeVars
<1>11. ASSUME NEW t \in 1..MaxTime, NextCommit(t) PROVE Owed'[s] >= Owed[s]
  BY <1>11, <1>same DEF NextCommit, poolVars, stakeVars
<1>12. CASE UNCHANGED vars
  BY <1>12, <1>same DEF vars, poolVars, stakeVars
<1> QED BY <1>1, <1>2, <1>3, <1>4, <1>5, <1>6, <1>7, <1>8, <1>9, <1>10, <1>11, <1>12 DEF Next

\* The pool's type invariant.
THEOREM TypeCorrect == Spec => []TypeOK
<1>1. IInv => TypeOK
  BY DEF IInv
<1> QED BY <1>1, InductiveInvariant, PTL

\* The pool never owes more than it holds, with any stakes, deposits, settles, claims
\* and exits before.
THEOREM NeverInsolvent == Spec => []Solvent
<1>1. IInv => Solvent
  BY DEF IInv
<1> QED BY <1>1, InductiveInvariant, PTL

\* Every registered stake can claim or leave, and all of them together: neither the
\* subtraction in royalty nor balance.split in unregister_stake and claim_royalties aborts.
THEOREM ExitAlwaysPayable == Spec => []EveryExitPayable
<1>1. IInv => EveryExitPayable
  BY PendingCovered, ConstantsAssumption
<1> QED BY <1>1, InductiveInvariant, PTL

\* The timestamp guard of settle: no call redeems twice from the address in one commit.
THEOREM WithdrawsNeverCollide == Spec => []NoCallFailedByWithdraw
<1>1. IInv => NoCallFailedByWithdraw
  BY DEF IInv, TypeOK, WithdrawIsStamped, NoCallFailedByWithdraw, WithdrawAccepted,
         SettledValue, SettleDue
<1> QED BY <1>1, InductiveInvariant, PTL

\* No call of anyone takes credit from a registration that outlives it.
THEOREM CreditIsNeverTaken == Spec => CreditNeverTaken
<1>1. IInv /\ [Next]_vars => [CreditKept]_vars
  BY CreditKeptStep, ConstantsAssumption
<1> QED BY <1>1, InductiveInvariant, PTL DEF Spec, CreditNeverTaken

\* The divisor of every fold is the sum of the registered shares: register_stake and
\* unregister_stake move staked_shares by the stake's immutable principal.
THEOREM DivisorIsExact == Spec => []StakedSharesExact
<1>1. IInv => StakedSharesExact
  BY DEF IInv
<1> QED BY <1>1, InductiveInvariant, PTL

\* fold's remainder fits the u64 it is cast to, whatever leaves the pool after it.
THEOREM CarryFits == Spec => []CarryBelowSupply
<1>1. IInv => CarryBelowSupply
  BY DEF IInv
<1> QED BY <1>1, InductiveInvariant, PTL

--------------------------------------------------------------------------------
(* The history.  It keeps the pool's own invariant, as its steps are the pool's;  *)
(* on top of it a registration's debt is what it joined with and what it was      *)
(* paid, and the index it has seen is bounded from both sides by what came in.    *)

HistoryTypeOK ==
    /\ joined \in [Stakes -> Nat]
    /\ paid \in [Stakes -> Nat]
    /\ since \in [Stakes -> Nat]
    /\ forfeited \in Nat
    /\ \A s \in Stakes \ registered : paid[s] = 0

\* A debt is the index at joining and the units paid since, whatever was claimed when.
DebtIsHistory(s) ==
    /\ joined[s] <= index
    /\ debt[s] = amount[s] * joined[s] + paid[s] * PRECISION

\* Each unit that came in moved the index by at least PRECISION / ShareSupply.
IndexKeepsPace(s) ==
    PRECISION % ShareSupply = 0 =>
        since[s] * (PRECISION \div ShareSupply) <= index - joined[s]

\* What a stake was credited came in while it was registered, but for one old carry.
CreditCameIn(s) ==
    amount[s] * (index - joined[s]) + carry < since[s] * PRECISION + ShareSupply

StakeHistory(s) == DebtIsHistory(s) /\ IndexKeepsPace(s) /\ CreditCameIn(s)

\* The inductive invariant, beside the pool's.
HInv ==
    /\ HistoryTypeOK
    /\ Conservation
    /\ \A s \in registered : StakeHistory(s)

\* A fold of v moves the index by at least v times the rate of the whole supply.
LEMMA FoldKeepsPace ==
  ASSUME ConstantsAssumption, IInv, NEW v \in Nat, v > 0 => staked_shares > 0,
         PRECISION % ShareSupply = 0
  PROVE  v * (PRECISION \div ShareSupply) <= FoldedIndex(v) - index
<1> DEFINE K == PRECISION \div ShareSupply
           D == FoldedIndex(v) - index
           c == FoldedCarry(v)
<1>t. /\ carry \in Nat /\ staked_shares \in Nat /\ staked_shares <= ShareSupply
      /\ ShareSupply \in Nat /\ ShareSupply > 0 /\ PRECISION \in Nat /\ index \in Nat
  BY RegisteredWithinSupply DEF IInv, TypeOK, ConstantsAssumption
<1>1. /\ D \in Nat /\ c \in Nat /\ (v > 0 => c < staked_shares)
      /\ D * staked_shares + c = v * PRECISION + carry
  <2>1. /\ FoldedIndex(v) \in Nat /\ FoldedIndex(v) >= index /\ c \in Nat
        /\ (v > 0 => c < staked_shares)
        /\ D * staked_shares + c = v * PRECISION + carry
    BY FoldExact
  <2> QED BY <2>1, <1>t
<1>2. K \in Nat /\ PRECISION = K * ShareSupply
  <2>1. /\ K \in Nat
        /\ PRECISION = K * ShareSupply + (PRECISION % ShareSupply)
    BY <1>t, Division
  <2> HIDE DEF K
  <2> QED BY <2>1, <1>t
<1> SUFFICES v * K <= D
  OBVIOUS
<1> HIDE DEF K, D, c
<1>3. CASE v = 0
  BY <1>1, <1>2, <1>3
<1>4. CASE v > 0
  <2>1. v * K \in Nat /\ v * PRECISION = (v * K) * ShareSupply
    BY <1>2, <1>t
  <2>2. (v * K) * staked_shares <= (v * K) * ShareSupply
    BY <1>t, <2>1
  <2>3. /\ (v * K) * staked_shares \in Nat /\ (v * K) * ShareSupply \in Nat
        /\ D * staked_shares \in Nat
    BY <1>1, <1>t, <2>1
  <2>4. (v * K) * staked_shares < D * staked_shares + staked_shares
    BY <1>1, <1>4, <1>t, <2>1, <2>2, <2>3
  <2>5. ~ (D + 1 <= v * K)
    <3> SUFFICES ASSUME D + 1 <= v * K PROVE FALSE
      OBVIOUS
    <3>1. (D + 1) * staked_shares <= (v * K) * staked_shares
      BY <1>1, <1>t, <2>1
    <3>2. (D + 1) * staked_shares = D * staked_shares + staked_shares
      BY <1>1, <1>t
    <3>3. D * staked_shares + staked_shares <= (v * K) * staked_shares
      BY <3>1, <3>2
    <3> QED BY <3>3, <2>3, <2>4, <1>t
  <2> QED BY <2>1, <2>5, <1>1
<1> QED BY <1>3, <1>4

\* A fold of v credits no registered stake more than v and the carries' difference.
LEMMA FoldCreditsDeposit ==
  ASSUME ConstantsAssumption, IInv, NEW v \in Nat, v > 0 => staked_shares > 0,
         NEW s \in registered
  PROVE  amount[s] * (FoldedIndex(v) - index) + FoldedCarry(v) <= v * PRECISION + carry
<1> DEFINE D == FoldedIndex(v) - index
           c == FoldedCarry(v)
<1>t. index \in Nat /\ carry \in Nat /\ PRECISION \in Nat
  BY DEF IInv, TypeOK, ConstantsAssumption
<1>1. D \in Nat /\ c \in Nat /\ D * staked_shares + c = v * PRECISION + carry
  <2>1. /\ FoldedIndex(v) \in Nat /\ FoldedIndex(v) >= index /\ c \in Nat
        /\ D * staked_shares + c = v * PRECISION + carry
    BY FoldExact
  <2> QED BY <2>1, <1>t
<1>2. amount[s] \in Nat /\ amount[s] <= staked_shares /\ staked_shares \in Nat
  BY RegisteredWithinSupply DEF IInv, TypeOK
<1> HIDE DEF D, c
<1>3. amount[s] * D <= D * staked_shares /\ amount[s] * D \in Nat /\ D * staked_shares \in Nat
  BY <1>1, <1>2
<1>4. amount[s] * D + c <= v * PRECISION + carry
  BY <1>1, <1>3
<1> QED BY <1>4 DEF D, c

\* A registration that outlives a step which folds v keeps its history.
LEMMA FoldKeepsHistory ==
  ASSUME ConstantsAssumption, IInv, HInv, NEW v \in Nat, v > 0 => staked_shares > 0,
         index' = FoldedIndex(v), carry' = FoldedCarry(v), NEW s \in registered,
         amount'[s] = amount[s], debt'[s] = debt[s], joined'[s] = joined[s],
         paid'[s] = paid[s], since'[s] = since[s] + v
  PROVE  StakeHistory(s)'
<1>t. /\ amount[s] \in Nat /\ joined[s] \in Nat /\ since[s] \in Nat /\ index \in Nat
      /\ carry \in Nat /\ PRECISION \in Nat /\ ShareSupply \in Nat /\ ShareSupply > 0
  BY DEF IInv, TypeOK, HInv, HistoryTypeOK, ConstantsAssumption
<1>h. StakeHistory(s)
  BY DEF HInv
<1>1. index' \in Nat /\ index' >= index /\ carry' \in Nat
  BY FoldExact
<1>2. DebtIsHistory(s)'
  BY <1>1, <1>h, <1>t DEF StakeHistory, DebtIsHistory
<1>3. IndexKeepsPace(s)'
  <2> SUFFICES ASSUME PRECISION % ShareSupply = 0
               PROVE  (since[s] + v) * (PRECISION \div ShareSupply) <= index' - joined[s]
    BY DEF IndexKeepsPace
  <2> DEFINE K == PRECISION \div ShareSupply
  <2>1. v * K <= index' - index
    BY FoldKeepsPace
  <2>2. since[s] * K <= index - joined[s]
    BY <1>h DEF StakeHistory, IndexKeepsPace
  <2>3. K \in Nat
    BY <1>t, Division
  <2> HIDE DEF K
  <2>4. (since[s] + v) * K = since[s] * K + v * K /\ since[s] * K \in Nat /\ v * K \in Nat
    BY <1>t, <2>3
  <2>5. (since[s] + v) * K <= index' - joined[s]
    BY <1>1, <1>t, <2>1, <2>2, <2>4
  <2> QED BY <2>5 DEF K
<1>4. CreditCameIn(s)'
  <2>1. amount[s] * (index' - index) + carry' <= v * PRECISION + carry
    BY FoldCreditsDeposit
  <2>2. amount[s] * (index - joined[s]) + carry < since[s] * PRECISION + ShareSupply
    BY <1>h DEF StakeHistory, CreditCameIn
  <2>3. amount[s] * (index' - joined[s])
          = amount[s] * (index' - index) + amount[s] * (index - joined[s])
    BY <1>1, <1>t
  <2>4. (since[s] + v) * PRECISION = since[s] * PRECISION + v * PRECISION
    BY <1>t
  <2>5. /\ amount[s] * (index' - index) \in Int /\ amount[s] * (index - joined[s]) \in Int
        /\ since[s] * PRECISION \in Int /\ v * PRECISION \in Int
    BY <1>1, <1>t
  <2>6. amount[s] * (index' - joined[s]) + carry' < (since[s] + v) * PRECISION + ShareSupply
    BY <1>1, <1>t, <2>1, <2>2, <2>3, <2>4, <2>5
  <2> QED BY <2>6 DEF CreditCameIn
<1> QED BY <1>2, <1>3, <1>4 DEF StakeHistory

\* With v folded in, the scaled balance is still accounted for to the unit.
LEMMA FoldConserves ==
  ASSUME ConstantsAssumption, IInv, HInv, NEW v \in Nat, v > 0 => staked_shares > 0
  PROVE  (balance + v) * PRECISION
           = SumFunction(OwedAt(FoldedIndex(v))) + FoldedCarry(v) + forfeited
<1> DEFINE i == FoldedIndex(v)
           c == FoldedCarry(v)
<1>1. /\ i \in Nat /\ c \in Nat
      /\ SumFunction(OwedAt(i)) + c = SumFunction(Owed) + v * PRECISION + carry
  BY FoldExact
<1> HIDE DEF i, c
<1>t. /\ index \in Nat /\ carry \in Nat /\ balance \in Nat /\ PRECISION \in Nat
      /\ v * PRECISION \in Nat /\ balance * PRECISION \in Nat /\ forfeited \in Nat
  BY DEF IInv, TypeOK, HInv, HistoryTypeOK, ConstantsAssumption
<1>o. SumFunction(Owed) \in Int /\ SumFunction(OwedAt(i)) \in Int
  BY <1>1, <1>t, OwedType, SumType DEF IInv, Owed, ConstantsAssumption
<1>2. (balance + v) * PRECISION = balance * PRECISION + v * PRECISION
  BY <1>t
<1>3. balance * PRECISION = SumFunction(Owed) + carry + forfeited
  BY DEF HInv, Conservation
<1>4. (balance + v) * PRECISION = (SumFunction(Owed) + carry + forfeited) + v * PRECISION
  BY <1>2, <1>3
<1>5. \A a, b, d, e, f \in Int : a + c = b + d + e => (b + e + f) + d = a + c + f
  BY <1>1
<1>6. (balance + v) * PRECISION = SumFunction(OwedAt(i)) + c + forfeited
  BY <1>1, <1>4, <1>5, <1>o, <1>t
<1> QED BY <1>6 DEF i, c

\* What only folds v, a deposit or a settle, keeps the history of every registration.
LEMMA OnlyFoldStep ==
  ASSUME ConstantsAssumption, IInv, HInv, NEW v \in Nat, v > 0 => staked_shares > 0,
         index' = FoldedIndex(v), carry' = FoldedCarry(v), balance' = balance + v,
         UNCHANGED stakeVars, since' = SinceAfter(v, {}), UNCHANGED <<joined, paid, forfeited>>
  PROVE  HInv'
<1>t. registered \subseteq Stakes /\ since \in [Stakes -> Nat]
  BY DEF IInv, TypeOK, HInv, HistoryTypeOK
<1>1. since' \in [Stakes -> Nat] /\ \A s \in registered : since'[s] = since[s] + v
  BY <1>t DEF SinceAfter
<1>2. HistoryTypeOK'
  BY <1>1 DEF HInv, HistoryTypeOK, stakeVars
<1>3. Conservation'
  BY FoldConserves, FoldOwed DEF Conservation
<1>4. ASSUME NEW s \in registered PROVE StakeHistory(s)'
  BY <1>1, FoldKeepsHistory DEF stakeVars
<1> QED BY <1>2, <1>3, <1>4 DEF HInv, stakeVars

\* What moves no index, registration or balance keeps every history, even if a stake is
\* created or destroyed: only the unregistered are.
LEMMA NoAccountingStep ==
  ASSUME ConstantsAssumption, IInv, HInv, UNCHANGED <<poolVars, registered, debt, historyVars>>,
         \A s \in registered : amount'[s] = amount[s]
  PROVE  HInv'
<1>1. Owed' = Owed
  BY DEF Owed, OwedAt, poolVars
<1>2. HistoryTypeOK' /\ Conservation'
  BY <1>1 DEF HInv, HistoryTypeOK, Conservation, poolVars, historyVars
<1>3. ASSUME NEW s \in registered PROVE StakeHistory(s)'
  <2>1. StakeHistory(s) /\ amount'[s] = amount[s]
    BY DEF HInv
  <2> QED BY <2>1 DEF StakeHistory, DebtIsHistory, IndexKeepsPace, CreditCameIn, poolVars,
                   historyVars
<1> QED BY <1>2, <1>3 DEF HInv

\* register_stake: the newcomer has seen nothing come in and is owed nothing.
LEMMA RegisterHistoryStep ==
  ASSUME ConstantsAssumption, IInv, HInv, NEW s \in Stakes, HRegisterStake(s)
  PROVE  HInv'
<1> DEFINE v == SettledValue
           i == FoldedIndex(v)
<1>1. v \in Nat /\ (v > 0 => staked_shares > 0)
  BY SettledValueType DEF IInv
<1>2. /\ RegisterStake(s)
      /\ registered' = registered \cup {s} /\ s \notin registered
      /\ debt' = [debt EXCEPT ![s] = amount[s] * i]
      /\ amount' = amount /\ index' = i /\ carry' = FoldedCarry(v)
      /\ balance' = balance + v
      /\ since' = SinceAfter(v, {})
      /\ joined' = [joined EXCEPT ![s] = i]
      /\ paid' = paid /\ forfeited' = forfeited
  BY DEF HRegisterStake, RegisterStake, CanRegister, RegistrationDebt, Settling, Fold
<1>3. i \in Nat /\ i >= index /\ carry' \in Nat /\ carry' < ShareSupply
  BY <1>1, <1>2, FoldExact
<1>c. Conservation'
  BY <1>1, <1>2, FoldConserves, RegisterOwed DEF Conservation
<1> HIDE DEF v, i
<1>t. /\ amount \in [Stakes -> Nat] /\ debt \in [Stakes -> Nat] /\ registered \subseteq Stakes
      /\ joined \in [Stakes -> Nat] /\ paid \in [Stakes -> Nat] /\ since \in [Stakes -> Nat]
      /\ paid[s] = 0 /\ PRECISION \in Nat /\ ShareSupply \in Nat /\ ShareSupply > 0
  BY <1>2 DEF IInv, TypeOK, HInv, HistoryTypeOK, ConstantsAssumption
<1>4. HistoryTypeOK'
  <2>1. since' \in [Stakes -> Nat] /\ joined' \in [Stakes -> Nat]
    BY <1>1, <1>2, <1>3, <1>t DEF SinceAfter
  <2> QED BY <2>1, <1>2 DEF HInv, HistoryTypeOK
<1>5. ASSUME NEW r \in registered, r # s PROVE StakeHistory(r)'
  <2>1. /\ amount'[r] = amount[r] /\ debt'[r] = debt[r] /\ joined'[r] = joined[r]
        /\ paid'[r] = paid[r] /\ since'[r] = since[r] + v
    BY <1>2, <1>5, <1>t DEF SinceAfter
  <2>2. index' = FoldedIndex(v) /\ carry' = FoldedCarry(v)
    BY <1>2 DEF i
  <2> QED BY <1>1, <2>1, <2>2, FoldKeepsHistory
<1>6. StakeHistory(s)'
  <2>1. /\ joined'[s] = i /\ index' = i /\ debt'[s] = amount[s] * i /\ paid'[s] = 0
        /\ since'[s] = 0 /\ amount'[s] = amount[s] /\ amount[s] \in Nat
    BY <1>2, <1>t DEF SinceAfter
  <2>2. amount[s] * (i - i) = 0 /\ 0 * PRECISION = 0 /\ amount[s] * i \in Nat
    BY <1>3, <1>t, <2>1
  <2>3. DebtIsHistory(s)'
    BY <1>3, <2>1, <2>2 DEF DebtIsHistory
  <2>4. CreditCameIn(s)'
    BY <1>3, <1>t, <2>1, <2>2 DEF CreditCameIn
  <2>5. IndexKeepsPace(s)'
    <3>1. 0 * (PRECISION \div ShareSupply) = 0 /\ i - i = 0
      BY <1>3, <1>t, Division
    <3> QED BY <2>1, <3>1 DEF IndexKeepsPace
  <2> QED BY <2>3, <2>4, <2>5 DEF StakeHistory
<1> QED BY <1>2, <1>4, <1>5, <1>6, <1>c DEF HInv

\* The residue of an exit is what rounding down its payout leaves.
LEMMA ResidueBounds ==
  ASSUME ConstantsAssumption, IInv, NEW s \in Stakes, UnregisterStake(s)
  PROVE  /\ ExitValue(s) \in Nat
         /\ (balance + SettledValue) - balance' = ExitValue(s)
         /\ Residue(s) = (amount[s] * FoldedIndex(SettledValue) - debt[s])
                           - ExitValue(s) * PRECISION
         /\ Residue(s) \in Nat /\ Residue(s) < PRECISION
<1> DEFINE v == SettledValue
           i == FoldedIndex(v)
           value == ExitValue(s)
           credit == amount[s] * i - debt[s]
<1>1. v \in Nat /\ i \in Nat
  BY SettledValueType, FoldExact DEF IInv
<1>2. balance' = (balance + v) - value /\ debt[s] <= amount[s] * i
  BY DEF UnregisterStake, Payable
<1>t. amount[s] \in Nat /\ debt[s] \in Nat /\ balance \in Nat /\ PRECISION \in Nat
  BY DEF IInv, TypeOK, ConstantsAssumption
<1>3. value = Royalty(amount[s], debt[s], i)
  BY DEF ExitValue
<1>4. Residue(s) = credit - ((balance + v) - balance') * PRECISION
  BY DEF Residue
<1> HIDE DEF v, i, value
<1>5. value \in Nat /\ value * PRECISION <= credit /\ credit - value * PRECISION < PRECISION
  BY <1>1, <1>2, <1>3, <1>t, RoyaltyBounds
<1>6. credit \in Int /\ value * PRECISION \in Nat
  BY <1>1, <1>5, <1>t
<1> HIDE DEF credit
<1>7. (balance + v) - balance' = value
  BY <1>1, <1>2, <1>5, <1>t
<1>8. Residue(s) = credit - value * PRECISION
  BY <1>4, <1>7
<1>9. Residue(s) \in Nat /\ Residue(s) < PRECISION
  BY <1>5, <1>6, <1>8
<1> QED BY <1>5, <1>7, <1>8, <1>9 DEF v, i, value, credit

\* unregister_stake: the leaver takes its history along, its residue is forfeited.
LEMMA UnregisterHistoryStep ==
  ASSUME ConstantsAssumption, IInv, HInv, NEW s \in Stakes, HUnregisterStake(s)
  PROVE  HInv'
<1> DEFINE v == SettledValue
           i == FoldedIndex(v)
           value == ExitValue(s)
           credit == amount[s] * i - debt[s]
<1>1. v \in Nat /\ (v > 0 => staked_shares > 0)
  BY SettledValueType DEF IInv
<1>2. /\ UnregisterStake(s)
      /\ registered' = registered \ {s}
      /\ debt' = [debt EXCEPT ![s] = 0]
      /\ amount' = amount /\ index' = i /\ carry' = FoldedCarry(v)
      /\ balance' = (balance + v) - value
      /\ since' = SinceAfter(v, {s})
      /\ joined' = [joined EXCEPT ![s] = 0]
      /\ paid' = [paid EXCEPT ![s] = 0]
      /\ forfeited' = forfeited + Residue(s)
  BY DEF HUnregisterStake, UnregisterStake, Settling, Fold
<1>3. i \in Nat /\ carry' \in Nat
  BY <1>1, <1>2, FoldExact
<1>4. /\ value \in Nat /\ Residue(s) = credit - value * PRECISION
      /\ Residue(s) \in Nat
  BY <1>2, ResidueBounds
<1>5. /\ SumFunction(Owed') = SumFunction(OwedAt(i)) - credit
      /\ SumFunction(OwedAt(i)) \in Int
  <2>1. SumFunction(Owed') = SumFunction(OwedAt(i)) - credit
    BY <1>2, UnregisterOwedSum
  <2>2. OwedAt(i) \in [Stakes -> Int]
    BY <1>3, OwedType DEF IInv
  <2> HIDE DEF i, credit
  <2> QED BY <2>1, <2>2, SumType DEF ConstantsAssumption
<1>6. (balance + v) * PRECISION = SumFunction(OwedAt(i)) + carry' + forfeited
  BY <1>1, <1>2, FoldConserves
<1>t. /\ amount \in [Stakes -> Nat] /\ debt \in [Stakes -> Nat] /\ registered \subseteq Stakes
      /\ joined \in [Stakes -> Nat] /\ paid \in [Stakes -> Nat] /\ since \in [Stakes -> Nat]
      /\ forfeited \in Nat /\ balance \in Nat /\ PRECISION \in Nat
      /\ \A r \in Stakes \ registered : paid[r] = 0
  BY DEF IInv, TypeOK, HInv, HistoryTypeOK, ConstantsAssumption
<1> HIDE DEF v, i, value
<1>c. Conservation'
  <2>1. credit \in Int
    BY <1>3, <1>t
  <2> HIDE DEF credit
  <2>2. value * PRECISION \in Nat /\ (balance + v) * PRECISION \in Nat
    BY <1>1, <1>4, <1>t
  <2>3. balance' * PRECISION = (balance + v) * PRECISION - value * PRECISION
    BY <1>1, <1>2, <1>4, <1>t
  <2>4. \A a, b, d, e, f, g \in Int :
           g = a + b + f => g - d = (a - e) + b + (f + (e - d))
    OBVIOUS
  <2>5. balance' * PRECISION = (SumFunction(OwedAt(i)) - credit) + carry'
                                 + (forfeited + (credit - value * PRECISION))
    BY <2>1, <2>2, <2>3, <2>4, <1>3, <1>5, <1>6, <1>t
  <2> QED BY <2>5, <1>2, <1>4, <1>5 DEF Conservation
<1>7. HistoryTypeOK'
  <2>1. since' \in [Stakes -> Nat] /\ joined' \in [Stakes -> Nat] /\ paid' \in [Stakes -> Nat]
    BY <1>1, <1>2, <1>t DEF SinceAfter
  <2>2. \A r \in Stakes \ registered' : paid'[r] = 0
    BY <1>2, <1>t
  <2>3. forfeited' \in Nat
    BY <1>2, <1>4, <1>t
  <2> QED BY <2>1, <2>2, <2>3 DEF HistoryTypeOK
<1>8. ASSUME NEW r \in registered' PROVE StakeHistory(r)'
  <2>1. r \in registered /\ r # s
    BY <1>2
  <2>2. /\ amount'[r] = amount[r] /\ debt'[r] = debt[r] /\ joined'[r] = joined[r]
        /\ paid'[r] = paid[r] /\ since'[r] = since[r] + v
    BY <1>2, <1>t, <2>1 DEF SinceAfter
  <2>3. index' = FoldedIndex(v) /\ carry' = FoldedCarry(v)
    BY <1>2 DEF i
  <2> QED BY <1>1, <2>1, <2>2, <2>3, FoldKeepsHistory
<1> QED BY <1>7, <1>8, <1>c DEF HInv

\* claim_royalties: what is paid is added to the debt and to the history alike.
LEMMA ClaimHistoryStep ==
  ASSUME ConstantsAssumption, IInv, HInv, NEW s \in Stakes, HClaimRoyalties(s)
  PROVE  HInv'
<1> DEFINE value == ClaimValue(s)
<1>1. /\ ClaimRoyalties(s) /\ s \in registered
      /\ debt' = [debt EXCEPT ![s] = debt[s] + value * PRECISION]
      /\ balance' = balance - value
      /\ UNCHANGED <<index, carry, amount, registered, joined, since, forfeited>>
      /\ paid' = [paid EXCEPT ![s] = @ + (balance - balance')]
  BY DEF HClaimRoyalties, ClaimRoyalties, ClaimedDebt
<1>2. value \in Nat /\ SumFunction(Owed') = SumFunction(Owed) - value * PRECISION
  BY <1>1, ClaimOwed, ClaimOwedSum
<1> HIDE DEF value
<1>t. /\ amount \in [Stakes -> Nat] /\ debt \in [Stakes -> Nat] /\ registered \subseteq Stakes
      /\ joined \in [Stakes -> Nat] /\ paid \in [Stakes -> Nat] /\ since \in [Stakes -> Nat]
      /\ forfeited \in Nat /\ balance \in Nat /\ PRECISION \in Nat /\ index \in Nat
      /\ carry \in Nat
  BY DEF IInv, TypeOK, HInv, HistoryTypeOK, ConstantsAssumption
<1>3. balance - balance' = value
  BY <1>1, <1>2, <1>t
<1>4. /\ value * PRECISION \in Nat
      /\ paid' = [paid EXCEPT ![s] = paid[s] + value]
      /\ paid'[s] = paid[s] + value /\ debt'[s] = debt[s] + value * PRECISION
  BY <1>1, <1>2, <1>3, <1>t
<1>5. HistoryTypeOK'
  <2>1. paid' \in [Stakes -> Nat]
    BY <1>2, <1>4, <1>t
  <2> QED BY <2>1, <1>1, <1>4 DEF HInv, HistoryTypeOK
<1>6. Conservation'
  <2>1. SumFunction(Owed) \in Int
    BY <1>t, OwedType, SumType DEF IInv, Owed, ConstantsAssumption
  <2>2. balance' * PRECISION = balance * PRECISION - value * PRECISION
    BY <1>1, <1>2, <1>t
  <2>3. balance * PRECISION = SumFunction(Owed) + carry + forfeited
    BY DEF HInv, Conservation
  <2>4. \A a, b, d, e \in Int : (a + b + d) - e = (a - e) + b + d
    OBVIOUS
  <2>5. balance' * PRECISION = (SumFunction(Owed) - value * PRECISION) + carry + forfeited
    BY <2>1, <2>2, <2>3, <2>4, <1>4, <1>t
  <2> QED BY <2>5, <1>1, <1>2 DEF Conservation
<1>7. ASSUME NEW r \in registered PROVE StakeHistory(r)'
  <2>1. StakeHistory(r)
    BY DEF HInv
  <2>2. IndexKeepsPace(r)' /\ CreditCameIn(r)'
    BY <2>1, <1>1 DEF StakeHistory, IndexKeepsPace, CreditCameIn
  <2>3. DebtIsHistory(r)'
    <3>1. CASE r = s
      <4>1. (paid[s] + value) * PRECISION = paid[s] * PRECISION + value * PRECISION
        BY <1>2, <1>t
      <4>2. /\ amount[s] * joined[s] \in Nat /\ paid[s] * PRECISION \in Nat
        BY <1>t
      <4>3. debt[s] = amount[s] * joined[s] + paid[s] * PRECISION /\ joined[s] <= index
        BY <2>1, <3>1 DEF StakeHistory, DebtIsHistory
      <4>4. debt'[s] = amount[s] * joined[s] + (paid[s] + value) * PRECISION
        BY <1>4, <4>1, <4>2, <4>3
      <4> QED BY <1>1, <1>4, <3>1, <4>3, <4>4 DEF DebtIsHistory
    <3>2. CASE r # s
      BY <1>1, <1>4, <1>t, <2>1, <3>2 DEF StakeHistory, DebtIsHistory
    <3> QED BY <3>1, <3>2
  <2> QED BY <2>2, <2>3 DEF StakeHistory
<1> QED BY <1>1, <1>5, <1>6, <1>7 DEF HInv

\* A new pool has no history.
LEMMA InitHInv ==
  ASSUME ConstantsAssumption, HInit
  PROVE  HInv
<1> DEFINE z == [s \in Stakes |-> 0]
<1>1. Owed = z
  BY DEF HInit, Init, Owed, OwedAt
<1>2. SumFunction(z) = 0
  BY SumZero DEF ConstantsAssumption
<1> HIDE DEF z
<1> QED BY <1>1, <1>2 DEF HInit, Init, HInv, HistoryTypeOK, Conservation, ConstantsAssumption

\* Watching changes nothing: a step of the history is a step of the pool.
LEMMA HistoryStepsAreSteps ==
  ASSUME [HNext]_hvars
  PROVE  [Next]_vars
BY DEF HNext, HDeposit, HSettle, HRegisterStake, HUnregisterStake, HClaimRoyalties,
       HNoAccounting, hvars, Next

\* Every step preserves the history invariant.
LEMMA NextHInv ==
  ASSUME ConstantsAssumption, IInv, HInv, [HNext]_hvars
  PROVE  HInv'
<1>t. amount \in [Stakes -> Nat] /\ registered \subseteq live /\ live \subseteq Stakes
  BY DEF IInv, TypeOK, ConstantsAssumption
<1>1. ASSUME NEW v \in 0..MaxValue, HDeposit(v) PROVE HInv'
  <2>1. /\ v \in Nat /\ (v > 0 => staked_shares > 0)
        /\ index' = FoldedIndex(v) /\ carry' = FoldedCarry(v) /\ balance' = balance + v
        /\ UNCHANGED stakeVars
        /\ since' = SinceAfter(v, {}) /\ UNCHANGED <<joined, paid, forfeited>>
    BY <1>1 DEF HDeposit, Deposit, Fold, ConstantsAssumption
  <2> QED BY <2>1, OnlyFoldStep
<1>2. CASE HSettle
  <2>1. /\ SettledValue \in Nat /\ (SettledValue > 0 => staked_shares > 0)
        /\ index' = FoldedIndex(SettledValue) /\ carry' = FoldedCarry(SettledValue)
        /\ balance' = balance + SettledValue /\ UNCHANGED stakeVars
        /\ since' = SinceAfter(SettledValue, {}) /\ UNCHANGED <<joined, paid, forfeited>>
    BY <1>2, SettledValueType DEF IInv, HSettle, Settle, Settling, Fold
  <2> QED BY <2>1, OnlyFoldStep
<1>3. ASSUME NEW s \in Stakes, HRegisterStake(s) PROVE HInv'
  BY <1>3, RegisterHistoryStep
<1>4. ASSUME NEW s \in Stakes, HUnregisterStake(s) PROVE HInv'
  BY <1>4, UnregisterHistoryStep
<1>5. ASSUME NEW s \in Stakes, HClaimRoyalties(s) PROVE HInv'
  BY <1>5, ClaimHistoryStep
<1>6. ASSUME HNoAccounting PROVE HInv'
  <2>1. ASSUME NEW s \in Stakes, NEW n \in 1..ShareSupply, NewStake(s, n),
               UNCHANGED historyVars
        PROVE  HInv'
    BY <2>1, <1>t, NoAccountingStep DEF NewStake
  <2>2. ASSUME NEW s \in Stakes, DestroyStake(s), UNCHANGED historyVars PROVE HInv'
    BY <2>2, <1>t, NoAccountingStep DEF DestroyStake, CanDestroy
  <2>3. ASSUME UNCHANGED <<poolVars, stakeVars, historyVars>> PROVE HInv'
    BY <2>3, NoAccountingStep DEF stakeVars
  <2>4. CASE \E v \in 0..coins : RecoverCoins(v)
    BY <1>6, <2>3, <2>4 DEF HNoAccounting, RecoverCoins
  <2>5. CASE \E v \in 1..MaxValue : SendFunds(v)
    BY <1>6, <2>3, <2>5 DEF HNoAccounting, SendFunds
  <2>6. CASE \E v \in 1..MaxValue : SendCoins(v)
    BY <1>6, <2>3, <2>6 DEF HNoAccounting, SendCoins
  <2>7. CASE \E t \in 1..MaxTime : NextCommit(t)
    BY <1>6, <2>3, <2>7 DEF HNoAccounting, NextCommit
  <2> QED BY <1>6, <2>1, <2>2, <2>4, <2>5, <2>6, <2>7 DEF HNoAccounting
<1>7. CASE UNCHANGED hvars
  BY <1>7, NoAccountingStep DEF hvars, vars, stakeVars
<1> QED BY <1>1, <1>2, <1>3, <1>4, <1>5, <1>6, <1>7 DEF HNext

\* The pool's invariant and the history's hold in every reachable state.
THEOREM HistoryInvariant == HSpec => [](IInv /\ HInv)
<1>1. HInit => IInv /\ HInv
  BY InitIInv, InitHInv, ConstantsAssumption DEF HInit
<1>2. IInv /\ HInv /\ [HNext]_hvars => IInv' /\ HInv'
  BY HistoryStepsAreSteps, NextIInv, NextHInv, ConstantsAssumption
<1> QED BY <1>1, <1>2, PTL DEF HSpec

--------------------------------------------------------------------------------
\* Claims so far and the royalty at index i are one rounding of the whole credit.
LEMMA PaidAndRoyalty ==
  ASSUME ConstantsAssumption, IInv, HInv, NEW s \in registered, NEW i \in Nat, i >= index
  PROVE  /\ paid[s] + Royalty(amount[s], debt[s], i) = Entitled(s, i)
         /\ amount[s] * (i - joined[s]) \in Nat
<1> DEFINE x == amount[s] * i - debt[s]
           y == amount[s] * (i - joined[s])
<1>t. /\ amount[s] \in Nat /\ debt[s] \in Nat /\ joined[s] \in Nat /\ paid[s] \in Nat
      /\ PRECISION \in Nat /\ PRECISION > 0 /\ index \in Nat /\ i - joined[s] \in Nat
      /\ debt[s] <= amount[s] * index
      /\ debt[s] = amount[s] * joined[s] + paid[s] * PRECISION
  BY DEF IInv, TypeOK, Solvent, HInv, HistoryTypeOK, StakeHistory, DebtIsHistory,
         ConstantsAssumption
<1>1. y \in Nat
  BY <1>t
<1>2. x \in Nat
  <2>1. amount[s] * index <= amount[s] * i /\ amount[s] * index \in Nat
        /\ amount[s] * i \in Nat
    BY <1>t
  <2> QED BY <2>1, <1>t
<1>3. y = x + paid[s] * PRECISION
  <2>1. y = amount[s] * i - amount[s] * joined[s]
    BY <1>t
  <2>2. /\ amount[s] * i \in Nat /\ amount[s] * joined[s] \in Nat
        /\ paid[s] * PRECISION \in Nat
    BY <1>t
  <2> QED BY <2>1, <2>2, <1>t
<1> SUFFICES paid[s] + (x \div PRECISION) = y \div PRECISION /\ y \in Nat
  BY DEF Royalty, Entitled
<1> HIDE DEF x, y
<1> QED BY <1>1, <1>2, <1>3, <1>t, QuotientShift

\* A registration's claims and what it can still claim, at the index of now.
LEMMA PaidAndPending ==
  ASSUME ConstantsAssumption, IInv, HInv, NEW s \in registered
  PROVE  /\ paid[s] + Pending[s] = (amount[s] * (index - joined[s])) \div PRECISION
         /\ amount[s] * (index - joined[s]) \in Nat
<1>1. index \in Nat /\ s \in Stakes
  BY DEF IInv, TypeOK
<1>2. Pending[s] = Royalty(amount[s], debt[s], index)
  BY <1>1 DEF Pending
<1> QED BY <1>1, <1>2, PaidAndRoyalty DEF Entitled

\* However its claims were spread, a registration has been paid and can claim its
\* shares' growth of the index, rounded down once.
THEOREM ClaimingOftenLosesNothing == HSpec => []LifetimeExact
<1>1. IInv /\ HInv => LifetimeExact
  BY PaidAndPending, ConstantsAssumption DEF LifetimeExact, Entitled
<1> QED BY <1>1, HistoryInvariant, PTL

\* The balance is the registrations' credit, the carry and the forfeited residues.
THEOREM EveryUnitAccounted == HSpec => []Conservation
<1>1. IInv /\ HInv => Conservation
  BY DEF HInv
<1> QED BY <1>1, HistoryInvariant, PTL

\* With a supply that divides the scale, a holder gets at least its fraction of what
\* came in while it was registered.
THEOREM FractionGuaranteed == HSpec => []SupplyFloor
<1>1. ASSUME IInv, HInv, PRECISION % ShareSupply = 0, NEW s \in registered
      PROVE  paid[s] + Pending[s] >= (amount[s] * since[s]) \div ShareSupply
  <2> DEFINE y == amount[s] * (index - joined[s])
             share == amount[s] * since[s]
             q == share \div ShareSupply
             K == PRECISION \div ShareSupply
  <2>t. /\ amount[s] \in Nat /\ since[s] \in Nat /\ index - joined[s] \in Nat
        /\ PRECISION \in Nat /\ PRECISION > 0 /\ ShareSupply \in Nat /\ ShareSupply > 0
        /\ since[s] * K <= index - joined[s]
    BY <1>1, ConstantsAssumption
       DEF IInv, TypeOK, HInv, HistoryTypeOK, StakeHistory, DebtIsHistory, IndexKeepsPace,
           ConstantsAssumption
  <2>1. paid[s] + Pending[s] = y \div PRECISION /\ y \in Nat
    BY <1>1, PaidAndPending, ConstantsAssumption
  <2>2. K \in Nat /\ PRECISION = K * ShareSupply
    <3>1. K \in Nat /\ PRECISION = K * ShareSupply + (PRECISION % ShareSupply)
      BY <2>t, Division
    <3> HIDE DEF K
    <3> QED BY <1>1, <2>t, <3>1
  <2>3. share \in Nat
    BY <2>t
  <2>4. q \in Nat /\ q * ShareSupply <= share
    <3> HIDE DEF share
    <3> QED BY <2>3, <2>t, Division, DivisionFloor
  <2> SUFFICES y \div PRECISION >= q
    BY <2>1
  <2> HIDE DEF K, q
  <2>5. share * K <= y
    <3>1. share * K = amount[s] * (since[s] * K) /\ since[s] * K \in Nat
      BY <2>2, <2>t
    <3>2. amount[s] * (since[s] * K) <= y
      BY <3>1, <2>t
    <3> QED BY <3>1, <3>2
  <2> HIDE DEF y, share
  <2>6. q * PRECISION <= y
    <3>1. q * PRECISION = (q * ShareSupply) * K
      BY <2>2, <2>4, <2>t
    <3>2. (q * ShareSupply) * K <= share * K
      BY <2>2, <2>3, <2>4, <2>t
    <3>3. q * PRECISION \in Nat /\ (q * ShareSupply) * K \in Nat /\ share * K \in Nat
      BY <2>2, <2>3, <2>4, <2>t
    <3> QED BY <3>1, <3>2, <3>3, <2>1, <2>5
  <2> QED BY <2>1, <2>4, <2>6, <2>t, QuotientAtLeast
<1>2. IInv /\ HInv => SupplyFloor
  BY <1>1 DEF SupplyFloor
<1> QED BY <1>2, HistoryInvariant, PTL

\* With a supply of at most the scale, a holder gets no more than came in while it was
\* registered, carries from before it included.
THEOREM NoCarryWindfall == HSpec => []NoWindfall
<1>1. ASSUME IInv, HInv, ShareSupply <= PRECISION, NEW s \in registered
      PROVE  paid[s] + Pending[s] <= since[s]
  <2> DEFINE y == amount[s] * (index - joined[s])
  <2>t. /\ since[s] \in Nat /\ carry \in Nat
        /\ PRECISION \in Nat /\ PRECISION > 0 /\ ShareSupply \in Nat
        /\ y + carry < since[s] * PRECISION + ShareSupply
    BY <1>1, ConstantsAssumption
       DEF IInv, TypeOK, HInv, HistoryTypeOK, StakeHistory, CreditCameIn, ConstantsAssumption
  <2>1. paid[s] + Pending[s] = y \div PRECISION /\ y \in Nat
    BY <1>1, PaidAndPending, ConstantsAssumption
  <2> SUFFICES y \div PRECISION <= since[s]
    BY <2>1
  <2> HIDE DEF y
  <2>2. (since[s] + 1) * PRECISION = since[s] * PRECISION + PRECISION
        /\ since[s] * PRECISION \in Nat
    BY <2>t
  <2>3. y < (since[s] + 1) * PRECISION
    <3>1. \A w \in Nat : y + carry < w + ShareSupply => y < w + PRECISION
      BY <1>1, <2>1, <2>t
    <3> QED BY <2>2, <2>t, <3>1
  <2> QED BY <2>1, <2>3, <2>t, QuotientAtMost
<1>2. IInv /\ HInv => NoWindfall
  BY <1>1 DEF NoWindfall
<1> QED BY <1>2, HistoryInvariant, PTL

\* Only unregister_stake of the stake itself ends a registration.
LEMMA OnlyExitsUnregister ==
  ASSUME IInv, [HNext]_hvars, NEW s \in registered \ registered'
  PROVE  HUnregisterStake(s)
<1>1. ASSUME NEW r \in Stakes, HUnregisterStake(r) PROVE r = s
  BY <1>1 DEF HUnregisterStake, UnregisterStake
<1> QED BY <1>1 DEF HNext, HDeposit, Deposit, HSettle, Settle, HRegisterStake, RegisterStake,
                 HClaimRoyalties, ClaimRoyalties, HNoAccounting, NewStake, DestroyStake,
                 RecoverCoins, SendFunds, SendCoins, NextCommit, hvars, vars, stakeVars

\* The unregister payout completes the registration's total, rounded down once.
THEOREM ExitPaysTheRest == HSpec => ExitCompletesLifetime
<1>1. ASSUME IInv, HInv, [HNext]_hvars, NEW s \in registered \ registered'
      PROVE  paid[s] + ((balance + SettledValue) - balance') = Entitled(s, index')
  <2>1. UnregisterStake(s) /\ s \in Stakes
    BY <1>1, OnlyExitsUnregister DEF HUnregisterStake, IInv, TypeOK
  <2>2. index' \in Nat /\ index' >= index /\ index' = FoldedIndex(SettledValue)
    BY <1>1, <2>1, SettledValueType, FoldExact, ConstantsAssumption
       DEF IInv, UnregisterStake, Settling, Fold
  <2>3. (balance + SettledValue) - balance' = Royalty(amount[s], debt[s], index')
    BY <1>1, <2>1, <2>2, ResidueBounds, ConstantsAssumption DEF ExitValue
  <2> DEFINE i == index'
  <2>4. paid[s] + Royalty(amount[s], debt[s], i) = Entitled(s, i)
    <3> HIDE DEF i
    <3> QED BY <1>1, <2>2, PaidAndRoyalty, ConstantsAssumption DEF i
  <2> QED BY <2>3, <2>4
<1>2. IInv /\ HInv /\ [HNext]_hvars => [ExitPaysRest]_hvars
  BY <1>1 DEF ExitPaysRest
<1> QED BY <1>2, HistoryInvariant, PTL DEF HSpec, ExitCompletesLifetime

\* Only an exit forfeits, and less than one currency unit.
THEOREM ResidueIsBounded == HSpec => ResidueBound
<1>1. ASSUME IInv, HInv, [HNext]_hvars PROVE ForfeitsBelowUnit
  <2>t. forfeited \in Nat /\ PRECISION \in Nat /\ PRECISION > 0
    BY <1>1, ConstantsAssumption DEF HInv, HistoryTypeOK, ConstantsAssumption
  <2>1. CASE forfeited' = forfeited
    BY <2>1, <2>t DEF ForfeitsBelowUnit
  <2>2. ASSUME NEW s \in Stakes, HUnregisterStake(s) PROVE ForfeitsBelowUnit
    <3>1. Residue(s) \in Nat /\ Residue(s) < PRECISION
      BY <1>1, <2>2, ResidueBounds, ConstantsAssumption DEF HUnregisterStake
    <3>2. forfeited' = forfeited + Residue(s) /\ s \in registered \ registered'
      BY <2>2 DEF HUnregisterStake, UnregisterStake
    <3> QED BY <2>t, <3>1, <3>2 DEF ForfeitsBelowUnit
  <2> QED BY <1>1, <2>1, <2>2 DEF HNext, HDeposit, HSettle, HRegisterStake, HClaimRoyalties,
                               HNoAccounting, hvars, historyVars
<1>2. IInv /\ HInv /\ [HNext]_hvars => [ForfeitsBelowUnit]_hvars
  BY <1>1
<1> QED BY <1>2, HistoryInvariant, PTL DEF HSpec, ResidueBound

--------------------------------------------------------------------------------
(* The ledger *)

\* The ledger sums as the pool does.
LEMMA SameSum ==
  ASSUME NEW f
  PROVE  Ledger!SumFunction(f) = SumFunction(f)
BY DEF SumFunction, SumFunctionOnSet, FoldFunctionOnSet, MapThenFoldSet,
       Ledger!SumFunction, Ledger!SumFunctionOnSet, Ledger!FoldFunctionOnSet,
       Ledger!MapThenFoldSet

\* A fold is the ledger's division: same rate, same credits, same dust.
LEMMA FoldDivides ==
  ASSUME ConstantsAssumption, IInv, NEW v \in Nat, v > 0 => staked_shares > 0,
         carry' = FoldedCarry(v)
  PROVE  /\ Ledger!Divide(v)
         /\ Ledger!Credited(v) = OwedAt(FoldedIndex(v))
<1> DEFINE i == FoldedIndex(v)
<1>t. /\ index \in Nat /\ carry \in Nat /\ staked_shares \in Nat /\ PRECISION \in Nat
      /\ amount \in [Stakes -> Nat] /\ debt \in [Stakes -> Nat] /\ i \in Nat
  BY FoldExact DEF IInv, TypeOK, ConstantsAssumption
<1>1. Ledger!Total = staked_shares
  BY SameSum DEF Ledger!Total, IInv, StakedSharesExact
<1>2. Ledger!Divide(v)
  BY <1>1 DEF Ledger!Divide, FoldedCarry
<1>3. Ledger!Rate(v) \in Int /\ i = index + Ledger!Rate(v)
  <2>1. CASE v = 0
    BY <2>1, <1>t DEF Ledger!Rate, FoldedIndex
  <2>2. CASE v # 0
    <3>1. v * PRECISION + carry \in Nat /\ staked_shares > 0
      BY <2>2, <1>t
    <3>2. (v * PRECISION + carry) \div staked_shares \in Nat
      BY <3>1, <1>t, Division
    <3> QED BY <2>2, <3>2, <1>1, <1>t DEF Ledger!Rate, FoldedIndex
  <2> QED BY <2>1, <2>2
<1> HIDE DEF i
<1>4. ASSUME NEW s \in Stakes
      PROVE  Owed[s] + RegisteredAmount[s] * Ledger!Rate(v) = OwedAt(i)[s]
  <2>1. CASE s \in registered
    <3>1. amount[s] * i = amount[s] * index + amount[s] * Ledger!Rate(v)
      BY <1>3, <1>t
    <3>2. /\ amount[s] * index \in Nat /\ amount[s] * Ledger!Rate(v) \in Int
          /\ debt[s] \in Nat
      BY <1>3, <1>t
    <3>3. (amount[s] * index - debt[s]) + amount[s] * Ledger!Rate(v) = amount[s] * i - debt[s]
      BY <3>1, <3>2
    <3> QED BY <2>1, <3>3 DEF Owed, OwedAt, RegisteredAmount
  <2>2. CASE s \notin registered
    BY <2>2, <1>3 DEF Owed, OwedAt, RegisteredAmount
  <2> QED BY <2>1, <2>2
<1>5. Ledger!Credited(v) = OwedAt(i)
  BY <1>4 DEF Ledger!Credited, OwedAt
<1> QED BY <1>2, <1>5 DEF i

\* deposit and settle distribute what they fold.
LEMMA FoldDistributes ==
  ASSUME ConstantsAssumption, IInv, NEW v \in Nat, v > 0 => staked_shares > 0,
         index' = FoldedIndex(v), carry' = FoldedCarry(v), balance' = balance + v,
         UNCHANGED stakeVars
  PROVE  Ledger!Distribute(v)
<1>1. Ledger!Divide(v) /\ Ledger!Credited(v) = OwedAt(FoldedIndex(v))
  BY FoldDivides
<1>2. Owed' = OwedAt(FoldedIndex(v))
  BY FoldOwed
<1>3. RegisteredAmount' = RegisteredAmount
  BY DEF RegisteredAmount, stakeVars
<1> QED BY <1>1, <1>2, <1>3 DEF Ledger!Distribute

\* register_stake joins with the stake's shares after the division.
LEMMA RegisterJoins ==
  ASSUME ConstantsAssumption, IInv, NEW s \in Stakes, RegisterStake(s)
  PROVE  Ledger!Join(s, amount[s], SettledValue)
<1> DEFINE v == SettledValue
<1>1. v \in Nat /\ (v > 0 => staked_shares > 0)
  BY SettledValueType DEF IInv
<1>2. /\ carry' = FoldedCarry(v) /\ balance' = balance + v
      /\ registered' = registered \cup {s} /\ s \notin registered /\ amount' = amount
  BY DEF RegisterStake, CanRegister, Settling, Fold
<1>3. Owed' = OwedAt(FoldedIndex(v))
  BY RegisterOwed
<1>4. Ledger!Divide(v) /\ Ledger!Credited(v) = OwedAt(FoldedIndex(v))
  BY <1>1, <1>2, FoldDivides
<1>5. /\ RegisteredAmount[s] = 0
      /\ RegisteredAmount' = [RegisteredAmount EXCEPT ![s] = amount[s]]
  BY <1>2 DEF RegisteredAmount
<1> QED BY <1>2, <1>3, <1>4, <1>5 DEF Ledger!Join

\* unregister_stake leaves with the whole units of the account.
LEMMA UnregisterLeaves ==
  ASSUME ConstantsAssumption, IInv, NEW s \in Stakes, UnregisterStake(s)
  PROVE  Ledger!Leave(s, SettledValue)
<1> DEFINE v == SettledValue
           i == FoldedIndex(v)
<1>1. v \in Nat /\ (v > 0 => staked_shares > 0)
  BY SettledValueType DEF IInv
<1>2. /\ carry' = FoldedCarry(v) /\ balance' = (balance + v) - ExitValue(s)
      /\ registered' = registered \ {s} /\ s \in registered /\ amount' = amount
  BY DEF UnregisterStake, Settling, Fold
<1>3. Owed' = [OwedAt(i) EXCEPT ![s] = 0]
  BY UnregisterOwed
<1>4. Ledger!Divide(v) /\ Ledger!Credited(v) = OwedAt(i)
  BY <1>1, <1>2, FoldDivides
<1>5. /\ RegisteredAmount[s] = amount[s]
      /\ RegisteredAmount' = [RegisteredAmount EXCEPT ![s] = 0]
  BY <1>2 DEF RegisteredAmount
<1>6. amount[s] > 0
  BY <1>2, RegisteredWithinSupply DEF IInv
<1>7. ExitValue(s) = OwedAt(i)[s] \div PRECISION
  BY <1>2 DEF ExitValue, Royalty, OwedAt
<1> HIDE DEF i, v
<1>8. Ledger!Leave(s, v)
  BY <1>2, <1>3, <1>4, <1>5, <1>6, <1>7 DEF Ledger!Leave
<1> QED BY <1>8 DEF v

\* claim_royalties withdraws the whole units and keeps the fraction.
LEMMA ClaimWithdraws ==
  ASSUME ConstantsAssumption, IInv, NEW s \in Stakes, ClaimRoyalties(s)
  PROVE  Ledger!Withdraw(s)
<1>1. /\ s \in registered /\ balance' = balance - ClaimValue(s)
      /\ UNCHANGED <<carry, amount, registered, index>>
  BY DEF ClaimRoyalties
<1>2. Owed' = [Owed EXCEPT ![s] = @ - ClaimValue(s) * PRECISION]
  BY ClaimOwed
<1>3. RegisteredAmount' = RegisteredAmount /\ RegisteredAmount[s] > 0
  BY <1>1, RegisteredWithinSupply DEF RegisteredAmount, IInv
<1>4. ClaimValue(s) = Owed[s] \div PRECISION
  BY <1>1 DEF ClaimValue, Royalty, Owed, OwedAt
<1>5. Owed[s] \in Nat
  <2>1. /\ amount[s] \in Nat /\ debt[s] \in Nat /\ index \in Nat
        /\ debt[s] <= amount[s] * index /\ Owed[s] = amount[s] * index - debt[s]
    BY <1>1 DEF IInv, TypeOK, Solvent, Owed, OwedAt, ConstantsAssumption
  <2>2. amount[s] * index \in Nat
    BY <2>1
  <2> QED BY <2>1, <2>2
<1>6. Owed[s] - ClaimValue(s) * PRECISION = Owed[s] % PRECISION
  <2> DEFINE x == Owed[s]
  <2>1. x \in Nat /\ PRECISION \in Nat /\ PRECISION > 0
    BY <1>5 DEF ConstantsAssumption
  <2> HIDE DEF x
  <2>2. /\ x = (x \div PRECISION) * PRECISION + (x % PRECISION)
        /\ x \div PRECISION \in Nat /\ x % PRECISION \in Nat
    BY <2>1, Division
  <2>3. (x \div PRECISION) * PRECISION \in Nat
    BY <2>1, <2>2
  <2>4. x - (x \div PRECISION) * PRECISION = x % PRECISION
    BY <2>1, <2>2, <2>3
  <2> QED BY <2>4, <1>4 DEF x
<1>7. Owed' = [Owed EXCEPT ![s] = @ % PRECISION]
  BY <1>2, <1>6
<1> QED BY <1>1, <1>3, <1>4, <1>7 DEF Ledger!Withdraw

\* Every step of the pool is a step of the ledger or leaves it alone.
LEMMA LedgerStep ==
  ASSUME ConstantsAssumption, IInv, [Next]_vars
  PROVE  [Ledger!Next]_(Ledger!vars)
<1>v. /\ SettledValue \in Nat /\ SettledValue <= MaxRead
      /\ (SettledValue > 0 => staked_shares > 0)
  BY SettledValueType DEF IInv, TypeOK, SettledValue, Redeemable, ConstantsAssumption
<1>p. /\ SettledValue \in 0..(MaxValue + MaxRead)
      /\ \A v \in 0..MaxValue : v \in Nat /\ v \in 0..(MaxValue + MaxRead)
  BY <1>v DEF ConstantsAssumption
<1>t. /\ amount \in [Stakes -> 0..ShareSupply] /\ registered \subseteq live
      /\ live \subseteq Stakes /\ \A s \in live : amount[s] \in 1..ShareSupply
  BY DEF IInv, TypeOK, ConstantsAssumption
<1>same. ASSUME UNCHANGED <<balance, carry, index, registered, debt>>,
                \A s \in registered : amount'[s] = amount[s]
         PROVE  UNCHANGED Ledger!vars
  BY <1>same DEF Ledger!vars, RegisteredAmount, Owed, OwedAt
<1>1. ASSUME NEW s \in Stakes, NEW n \in 1..ShareSupply, NewStake(s, n)
      PROVE  UNCHANGED Ledger!vars
  BY <1>1, <1>t, <1>same DEF NewStake, poolVars
<1>2. ASSUME NEW s \in Stakes, DestroyStake(s) PROVE UNCHANGED Ledger!vars
  BY <1>2, <1>t, <1>same DEF DestroyStake, CanDestroy, poolVars
<1>3. ASSUME NEW v \in 0..MaxValue, Deposit(v) PROVE Ledger!Next
  <2>1. Ledger!Distribute(v)
    BY <1>3, <1>p, FoldDistributes DEF Deposit, Fold
  <2> QED BY <2>1, <1>p DEF Ledger!Next
<1>4. CASE Settle
  <2>1. Ledger!Distribute(SettledValue)
    BY <1>4, <1>v, FoldDistributes DEF Settle, Settling, Fold
  <2> QED BY <2>1, <1>p DEF Ledger!Next
<1>5. ASSUME NEW v \in 0..coins, RecoverCoins(v) PROVE UNCHANGED Ledger!vars
  BY <1>5, <1>same DEF RecoverCoins, poolVars, stakeVars
<1>6. ASSUME NEW s \in Stakes, RegisterStake(s) PROVE Ledger!Next
  <2>1. Ledger!Join(s, amount[s], SettledValue) /\ amount[s] \in 1..ShareSupply
    BY <1>6, <1>t, RegisterJoins DEF RegisterStake, CanRegister
  <2> QED BY <2>1, <1>p DEF Ledger!Next
<1>7. ASSUME NEW s \in Stakes, UnregisterStake(s) PROVE Ledger!Next
  <2>1. Ledger!Leave(s, SettledValue)
    BY <1>7, UnregisterLeaves
  <2> QED BY <2>1, <1>p DEF Ledger!Next
<1>8. ASSUME NEW s \in Stakes, ClaimRoyalties(s) PROVE Ledger!Next
  BY <1>8, ClaimWithdraws DEF Ledger!Next
<1>9. ASSUME NEW v \in 1..MaxValue, SendFunds(v) PROVE UNCHANGED Ledger!vars
  BY <1>9, <1>same DEF SendFunds, poolVars, stakeVars
<1>10. ASSUME NEW v \in 1..MaxValue, SendCoins(v) PROVE UNCHANGED Ledger!vars
  BY <1>10, <1>same DEF SendCoins, poolVars, stakeVars
<1>11. ASSUME NEW t \in 1..MaxTime, NextCommit(t) PROVE UNCHANGED Ledger!vars
  BY <1>11, <1>same DEF NextCommit, poolVars, stakeVars
<1>12. CASE UNCHANGED vars
  BY <1>12, <1>same DEF vars, poolVars, stakeVars
<1> QED BY <1>1, <1>2, <1>3, <1>4, <1>5, <1>6, <1>7, <1>8, <1>9, <1>10, <1>11, <1>12 DEF Next

\* The pool's index, debts and carry implement the ledger's accounts: in O(1) it pays
\* every holder what writing to every account at every payment would.
THEOREM PoolImplementsLedger == Spec => ImplementsLedger
<1>1. Init => Ledger!Init
  BY DEF Init, Ledger!Init, RegisteredAmount, Owed, OwedAt
<1>2. IInv /\ [Next]_vars => [Ledger!Next]_(Ledger!vars)
  BY LedgerStep, ConstantsAssumption
<1> QED BY <1>1, <1>2, InductiveInvariant, PTL DEF Spec, ImplementsLedger, Ledger!Spec

--------------------------------------------------------------------------------
(* The settlement guard *)

\* The model's bound on what waits at the address: RoomAtAddress keeps it.
WithinRoom == settled + arriving + coins <= MaxFunds

\* No step lets more wait at the address than there is room for.
LEMMA RoomStep ==
  ASSUME ConstantsAssumption, IInv, WithinRoom, [Next]_vars
  PROVE  WithinRoom'
<1>t. /\ settled \in Nat /\ redeemed \in 0..settled /\ arriving \in Nat /\ coins \in Nat
      /\ MaxFunds \in Nat /\ MaxValue \in Nat
  BY DEF IInv, TypeOK, ConstantsAssumption
<1>same. ASSUME UNCHANGED <<settled, arriving, coins>> PROVE WithinRoom'
  BY <1>same DEF WithinRoom
<1>1. ASSUME NEW v \in 0..coins, RecoverCoins(v) PROVE WithinRoom'
  BY <1>1, <1>t DEF RecoverCoins, WithinRoom
<1>2. ASSUME NEW v \in 1..MaxValue, SendFunds(v) PROVE WithinRoom'
  BY <1>2, <1>t DEF SendFunds, RoomAtAddress, WithinRoom
<1>3. ASSUME NEW v \in 1..MaxValue, SendCoins(v) PROVE WithinRoom'
  BY <1>3, <1>t DEF SendCoins, RoomAtAddress, WithinRoom
<1>4. ASSUME NEW t \in 1..MaxTime, NextCommit(t) PROVE WithinRoom'
  BY <1>4, <1>t DEF NextCommit, WithinRoom
<1> QED BY <1>1, <1>2, <1>3, <1>4, <1>same DEF Next, vars, NewStake, DestroyStake, Deposit,
           Settle, RegisterStake, UnregisterStake, ClaimRoyalties, Settling, chainVars

\* The settle inside settle, register_stake and unregister_stake is the guard's attempt.
LEMMA SettlingAttempts ==
  ASSUME ConstantsAssumption, IInv, Settling
  PROVE  Guard!Attempt
<1>1. SettledValue = Guard!Drawable
  BY DEF SettledValue, SettleDue, Redeemable, Guard!Drawable, Guard!Available
<1> QED BY <1>1 DEF Settling, WithdrawAccepted, Stamp, Guard!Attempt

\* Every step of the pool and of the chain is a step of the guard or leaves it alone.
LEMMA GuardStep ==
  ASSUME ConstantsAssumption, IInv, WithinRoom, [Next]_vars
  PROVE  [Guard!Next]_(Guard!vars)
<1>t. /\ settled \in Nat /\ redeemed \in 0..settled /\ arriving \in Nat /\ coins \in Nat
      /\ MaxFunds \in Nat /\ MaxValue \in Nat /\ staked_shares \in Nat
      /\ now \in Nat /\ last_settled_at_ms \in Nat /\ last_settled_at_ms <= now
      /\ \A s \in registered : amount[s] \in Nat /\ amount[s] > 0 /\ amount[s] <= staked_shares
  BY RegisteredWithinSupply DEF IInv, TypeOK, ConstantsAssumption
<1>same. ASSUME UNCHANGED <<staked_shares, last_settled_at_ms, chainVars>>
         PROVE  UNCHANGED Guard!vars
  BY <1>same DEF Guard!vars, chainVars
<1>1. ASSUME NEW s \in Stakes, NEW n \in 1..ShareSupply, NewStake(s, n)
      PROVE  UNCHANGED Guard!vars
  BY <1>1, <1>same DEF NewStake, poolVars
<1>2. ASSUME NEW s \in Stakes, DestroyStake(s) PROVE UNCHANGED Guard!vars
  BY <1>2, <1>same DEF DestroyStake, poolVars
<1>3. ASSUME NEW v \in 0..MaxValue, Deposit(v) PROVE UNCHANGED Guard!vars
  BY <1>3, <1>same DEF Deposit
<1>4. CASE Settle
  <2>1. Guard!Settle
    BY <1>4, SettlingAttempts DEF Settle, Guard!Settle
  <2> QED BY <2>1 DEF Guard!Next
<1>5. ASSUME NEW v \in 0..coins, RecoverCoins(v) PROVE [Guard!Next]_(Guard!vars)
  <2>1. CASE v = 0
    BY <1>5, <2>1, <1>t, <1>same DEF RecoverCoins, poolVars, chainVars
  <2>2. CASE v # 0
    <3>1. v \in 1..MaxFunds /\ v \in 1..coins
      BY <2>2, <1>t DEF WithinRoom
    <3>2. Guard!Recover(v)
      BY <1>5, <3>1 DEF RecoverCoins, poolVars, Guard!Recover
    <3> QED BY <3>1, <3>2 DEF Guard!Next
  <2> QED BY <2>1, <2>2
<1>6. ASSUME NEW s \in Stakes, RegisterStake(s) PROVE Guard!Next
  <2>1. amount[s] \in Nat /\ amount[s] > 0
    BY <1>6 DEF RegisterStake, CanRegister, IInv, TypeOK, ConstantsAssumption
  <2>2. staked_shares' > 0
    BY <1>6, <1>t, <2>1 DEF RegisterStake
  <2>3. Guard!Register
    BY <1>6, <2>2, SettlingAttempts DEF RegisterStake, Guard!Register
  <2> QED BY <2>3 DEF Guard!Next
<1>7. ASSUME NEW s \in Stakes, UnregisterStake(s) PROVE Guard!Next
  <2>1. s \in registered
    BY <1>7 DEF UnregisterStake
  <2>2. staked_shares > 0
    BY <2>1, <1>t
  <2>3. Guard!Unregister
    BY <1>7, <2>2, SettlingAttempts DEF UnregisterStake, Guard!Unregister
  <2> QED BY <2>3 DEF Guard!Next
<1>8. ASSUME NEW s \in Stakes, ClaimRoyalties(s) PROVE UNCHANGED Guard!vars
  BY <1>8, <1>same DEF ClaimRoyalties
<1>9. ASSUME NEW v \in 1..MaxValue, SendFunds(v) PROVE Guard!Next
  <2>1. v \in 1..MaxFunds
    BY <1>9, <1>t DEF SendFunds, RoomAtAddress
  <2>2. Guard!Send(v)
    BY <1>9 DEF SendFunds, RoomAtAddress, poolVars, Guard!Send, Guard!Room
  <2> QED BY <2>1, <2>2 DEF Guard!Next, Guard!Arrival
<1>10. ASSUME NEW v \in 1..MaxValue, SendCoins(v) PROVE Guard!Next
  <2>1. v \in 1..MaxFunds
    BY <1>10, <1>t DEF SendCoins, RoomAtAddress
  <2>2. Guard!Park(v)
    BY <1>10 DEF SendCoins, RoomAtAddress, poolVars, Guard!Park, Guard!Room
  <2> QED BY <2>1, <2>2 DEF Guard!Next, Guard!Arrival
<1>11. ASSUME NEW t \in 1..MaxTime, NextCommit(t) PROVE Guard!Next
  <2>1. /\ settled' = (settled - redeemed) + arriving /\ redeemed' = 0 /\ arriving' = 0
        /\ staked_shares' = staked_shares /\ coins' = coins
    BY <1>11 DEF NextCommit, poolVars
  <2>2. CASE t > now
    <3>1. ~(now' = last_settled_at_ms')
      BY <1>11, <1>t, <2>2 DEF NextCommit, poolVars
    <3>2. Guard!Commit(TRUE)
      BY <2>1, <3>1 DEF Guard!Commit
    <3> QED BY <3>2 DEF Guard!Next
  <2>3. CASE t = now
    <3>1. (now' = last_settled_at_ms') = (now = last_settled_at_ms)
      BY <1>11, <2>3 DEF NextCommit, poolVars
    <3>2. Guard!Commit(FALSE)
      BY <2>1, <3>1 DEF Guard!Commit
    <3> QED BY <3>2 DEF Guard!Next
  <2>4. t \in Nat /\ t >= now
    BY <1>11 DEF NextCommit
  <2> QED BY <1>t, <2>2, <2>3, <2>4
<1>12. CASE UNCHANGED vars
  BY <1>12, <1>same DEF vars, poolVars
<1> QED BY <1>1, <1>2, <1>3, <1>4, <1>5, <1>6, <1>7, <1>8, <1>9, <1>10, <1>11, <1>12 DEF Next

\* The timestamp and the address are used as the settlement guard says.
THEOREM PoolImplementsGuard == Spec => ImplementsGuard
<1>1. Init => Guard!Init
  BY ConstantsAssumption DEF Init, Guard!Init
<1>2. Init => WithinRoom
  BY ConstantsAssumption DEF Init, WithinRoom, ConstantsAssumption
<1>3. IInv /\ WithinRoom /\ [Next]_vars => WithinRoom' /\ [Guard!Next]_(Guard!vars)
  BY RoomStep, GuardStep, ConstantsAssumption
<1> QED BY <1>1, <1>2, <1>3, InductiveInvariant, PTL DEF Spec, ImplementsGuard, Guard!Spec

\* The inductive invariant of the guard alone.
GuardInv ==
    /\ settled \in Nat /\ redeemed \in 0..settled /\ arriving \in Nat /\ coins \in Nat
    /\ redeemed > 0 => now = last_settled_at_ms

\* What the guard guarantees by itself, of anything that implements it: a withdraw of
\* this commit has stamped the timestamp, so no second one is attempted.
THEOREM GuardPreventsSecondWithdraw == Guard!Spec => []Guard!NoSecondWithdraw
<1>c. MaxFunds \in Nat /\ MaxRead \in Nat /\ MaxRead > 0
  BY ConstantsAssumption DEF ConstantsAssumption
<1>1. Guard!Init => GuardInv
  BY <1>c DEF Guard!Init, GuardInv
<1>2. ASSUME GuardInv, [Guard!Next]_(Guard!vars) PROVE GuardInv'
  <2>t. /\ settled \in Nat /\ redeemed \in Nat /\ redeemed <= settled
        /\ arriving \in Nat /\ coins \in Nat
        /\ redeemed > 0 => now = last_settled_at_ms
    BY <1>2 DEF GuardInv
  <2>1. ASSUME Guard!Attempt PROVE GuardInv'
    <3>1. Guard!Drawable \in 0..settled
      BY <1>c, <2>t DEF Guard!Drawable, Guard!Available
    <3>2. redeemed' \in 0..settled
      BY <2>1, <2>t, <3>1 DEF Guard!Attempt
    <3> QED BY <2>1, <2>t, <3>2 DEF Guard!Attempt, GuardInv
  <2>2. CASE Guard!Settle \/ Guard!Register \/ Guard!Unregister
    BY <2>1, <2>2 DEF Guard!Settle, Guard!Register, Guard!Unregister
  <2>3. ASSUME NEW v \in 1..MaxFunds, Guard!Send(v) PROVE GuardInv'
    BY <2>3, <2>t DEF Guard!Send, GuardInv
  <2>4. ASSUME NEW v \in 1..MaxFunds, Guard!Park(v) PROVE GuardInv'
    BY <2>4, <2>t DEF Guard!Park, GuardInv
  <2>5. ASSUME NEW v \in 1..MaxFunds, Guard!Recover(v) PROVE GuardInv'
    BY <2>5, <2>t DEF Guard!Recover, GuardInv
  <2>6. ASSUME NEW advance \in BOOLEAN, Guard!Commit(advance) PROVE GuardInv'
    BY <2>6, <2>t DEF Guard!Commit, GuardInv
  <2>7. CASE UNCHANGED Guard!vars
    BY <2>7, <2>t DEF Guard!vars, GuardInv
  <2> QED BY <1>2, <2>2, <2>3, <2>4, <2>5, <2>6, <2>7 DEF Guard!Next, Guard!Arrival
<1>3. GuardInv => Guard!NoSecondWithdraw
  BY DEF GuardInv, Guard!NoSecondWithdraw, Guard!Drawable
<1> QED BY <1>1, <1>2, <1>3, PTL DEF Guard!Spec

--------------------------------------------------------------------------------
(* The events *)

\* The replica that agrees with these values of the pool and its stakes.
Rebuilt(b, n, i, l, g, a, d) ==
    [balance |-> b, staked_shares |-> n, index |-> i, live |-> l, registered |-> g,
     amount |-> a, debt |-> d]

\* A call emits nothing, one event, or a Deposited event and one more.
LEMMA ApplyTheEvents ==
  ASSUME NEW r, NEW e, NEW f
  PROVE  /\ ApplyAll(r, <<>>) = r /\ ApplyAll(r, <<e>>) = Apply(r, e)
         /\ ApplyAll(r, <<>> \o <<f>>) = Apply(r, f)
         /\ ApplyAll(r, <<e>> \o <<f>>) = Apply(Apply(r, e), f)
<1>1. /\ <<>> \o <<f>> = <<f>> /\ Len(<<e>>) = 1 /\ Len(<<f>>) = 1 /\ Len(<<>>) = 0
      /\ <<e>>[1] = e /\ <<f>>[1] = f
  OBVIOUS
<1>2. /\ Len(<<e>> \o <<f>>) = 2 /\ (<<e>> \o <<f>>)[1] = e /\ (<<e>> \o <<f>>)[2] = f
  OBVIOUS
<1> QED BY <1>1, <1>2 DEF ApplyAll

\* One field, or one entry of a field, at a time: what the indexer's EXCEPTs are made of.
SetBalance(r, x)    == [r EXCEPT !.balance = x]
SetShares(r, x)     == [r EXCEPT !.staked_shares = x]
SetIndex(r, x)      == [r EXCEPT !.index = x]
SetLive(r, x)       == [r EXCEPT !.live = x]
SetRegistered(r, x) == [r EXCEPT !.registered = x]
SetAmount(r, s, x)  == [r EXCEPT !.amount[s] = x]
SetDebt(r, s, x)    == [r EXCEPT !.debt[s] = x]
Put(f, s, x)        == [f EXCEPT ![s] = x]

\* The fields of a replica ...
LEMMA Fields ==
  ASSUME NEW b, NEW n, NEW i, NEW l, NEW g, NEW a, NEW d
  PROVE  /\ Rebuilt(b, n, i, l, g, a, d).index = i
         /\ Rebuilt(b, n, i, l, g, a, d).live = l
         /\ Rebuilt(b, n, i, l, g, a, d).registered = g
         /\ Rebuilt(b, n, i, l, g, a, d).debt = d
BY DEF Rebuilt

\* ... and the replica with one of them changed.
LEMMA SetFields ==
  ASSUME NEW b, NEW n, NEW i, NEW l, NEW g, NEW a, NEW d, NEW x
  PROVE  /\ SetBalance(Rebuilt(b, n, i, l, g, a, d), x) = Rebuilt(x, n, i, l, g, a, d)
         /\ SetShares(Rebuilt(b, n, i, l, g, a, d), x) = Rebuilt(b, x, i, l, g, a, d)
         /\ SetIndex(Rebuilt(b, n, i, l, g, a, d), x) = Rebuilt(b, n, x, l, g, a, d)
         /\ SetLive(Rebuilt(b, n, i, l, g, a, d), x) = Rebuilt(b, n, i, x, g, a, d)
         /\ SetRegistered(Rebuilt(b, n, i, l, g, a, d), x) = Rebuilt(b, n, i, l, x, a, d)
BY DEF Rebuilt, SetBalance, SetShares, SetIndex, SetLive, SetRegistered

LEMMA SetEntries ==
  ASSUME NEW b, NEW n, NEW i, NEW l, NEW g, NEW a, NEW d, NEW x, NEW s
  PROVE  /\ SetAmount(Rebuilt(b, n, i, l, g, a, d), s, x)
              = Rebuilt(b, n, i, l, g, Put(a, s, x), d)
         /\ SetDebt(Rebuilt(b, n, i, l, g, a, d), s, x)
              = Rebuilt(b, n, i, l, g, a, Put(d, s, x))
<1>1. SetAmount(Rebuilt(b, n, i, l, g, a, d), s, x) = Rebuilt(b, n, i, l, g, Put(a, s, x), d)
  BY DEF Rebuilt, SetAmount, Put
<1>2. SetDebt(Rebuilt(b, n, i, l, g, a, d), s, x) = Rebuilt(b, n, i, l, g, a, Put(d, s, x))
  BY DEF Rebuilt, SetDebt, Put
<1> QED BY <1>1, <1>2

\* What the indexer makes of each event.
LEMMA ApplyTheCreated ==
  ASSUME NEW b, NEW n, NEW i, NEW l, NEW g, NEW a, NEW d, NEW s, NEW x
  PROVE  Apply(Rebuilt(b, n, i, l, g, a, d), [type |-> "created", stake |-> s, amount |-> x])
           = Rebuilt(b, n, i, l \cup {s}, g, Put(a, s, x), d)
<1> DEFINE r == Rebuilt(b, n, i, l, g, a, d)
           e == [type |-> "created", stake |-> s, amount |-> x]
           more == l \cup {s}
<1>1. Apply(r, e) = SetAmount(SetLive(r, r.live \cup {s}), s, x)
  <2> HIDE DEF r
  <2>1. Apply(r, e) = ApplyCreated(r, e) /\ e.stake = s /\ e.amount = x
    BY DEF Apply
  <2> HIDE DEF e
  <2> QED BY <2>1 DEF ApplyCreated, SetAmount, SetLive
<1>2. r.live \cup {s} = more
  BY Fields
<1> HIDE DEF e, more
<1>3. SetLive(r, more) = Rebuilt(b, n, i, more, g, a, d)
  BY SetFields
<1>4. SetAmount(Rebuilt(b, n, i, more, g, a, d), s, x)
        = Rebuilt(b, n, i, more, g, Put(a, s, x), d)
  BY SetEntries
<1> HIDE DEF r
<1> QED BY <1>1, <1>2, <1>3, <1>4 DEF r, e, more

LEMMA ApplyTheDestroyed ==
  ASSUME NEW b, NEW n, NEW i, NEW l, NEW g, NEW a, NEW d, NEW s, NEW x
  PROVE  Apply(Rebuilt(b, n, i, l, g, a, d), [type |-> "destroyed", stake |-> s, amount |-> x])
           = Rebuilt(b, n, i, l \ {s}, g, Put(a, s, 0), d)
<1> DEFINE r == Rebuilt(b, n, i, l, g, a, d)
           e == [type |-> "destroyed", stake |-> s, amount |-> x]
           fewer == l \ {s}
<1>1. Apply(r, e) = SetAmount(SetLive(r, r.live \ {s}), s, 0)
  <2> HIDE DEF r
  <2>1. Apply(r, e) = ApplyDestroyed(r, e) /\ e.stake = s
    BY DEF Apply
  <2> HIDE DEF e
  <2> QED BY <2>1 DEF ApplyDestroyed, SetAmount, SetLive
<1>2. r.live \ {s} = fewer
  BY Fields
<1> HIDE DEF e, fewer
<1>3. SetLive(r, fewer) = Rebuilt(b, n, i, fewer, g, a, d)
  BY SetFields
<1>4. SetAmount(Rebuilt(b, n, i, fewer, g, a, d), s, 0)
        = Rebuilt(b, n, i, fewer, g, Put(a, s, 0), d)
  BY SetEntries
<1> HIDE DEF r
<1> QED BY <1>1, <1>2, <1>3, <1>4 DEF r, e, fewer

LEMMA ApplyTheDeposited ==
  ASSUME NEW b, NEW n, NEW i, NEW l, NEW g, NEW a, NEW d, NEW v, NEW x, NEW y
  PROVE  Apply(Rebuilt(b, n, i, l, g, a, d),
               [type |-> "deposited", value |-> v, balance |-> x, index |-> y])
           = Rebuilt(x, n, y, l, g, a, d)
<1> DEFINE r == Rebuilt(b, n, i, l, g, a, d)
           e == [type |-> "deposited", value |-> v, balance |-> x, index |-> y]
<1>1. Apply(r, e) = SetIndex(SetBalance(r, x), y)
  <2> HIDE DEF r
  <2>1. Apply(r, e) = ApplyDeposited(r, e) /\ e.balance = x /\ e.index = y
    BY DEF Apply
  <2> HIDE DEF e
  <2> QED BY <2>1 DEF ApplyDeposited, SetBalance, SetIndex
<1> HIDE DEF e
<1>2. SetBalance(r, x) = Rebuilt(x, n, i, l, g, a, d)
  BY SetFields
<1>3. SetIndex(Rebuilt(x, n, i, l, g, a, d), y) = Rebuilt(x, n, y, l, g, a, d)
  BY SetFields
<1> HIDE DEF r
<1> QED BY <1>1, <1>2, <1>3 DEF r, e

LEMMA ApplyTheRegistered ==
  ASSUME NEW b, NEW n, NEW i, NEW l, NEW g, NEW a, NEW d, NEW s, NEW x, NEW y
  PROVE  Apply(Rebuilt(b, n, i, l, g, a, d),
               [type |-> "registered", stake |-> s, amount |-> x, staked_shares |-> y])
           = Rebuilt(b, y, i, l, g \cup {s}, a, Put(d, s, x * i))
<1> DEFINE r == Rebuilt(b, n, i, l, g, a, d)
           e == [type |-> "registered", stake |-> s, amount |-> x, staked_shares |-> y]
           more == g \cup {s}
           owed == x * i
<1>1. Apply(r, e)
        = SetDebt(SetShares(SetRegistered(r, r.registered \cup {s}), y), s, x * r.index)
  <2> HIDE DEF r
  <2>1. /\ Apply(r, e) = ApplyRegistered(r, e)
        /\ e.stake = s /\ e.amount = x /\ e.staked_shares = y
    BY DEF Apply
  <2> HIDE DEF e
  <2> QED BY <2>1 DEF ApplyRegistered, SetDebt, SetShares, SetRegistered
<1>2. r.registered \cup {s} = more /\ x * r.index = owed
  BY Fields
<1> HIDE DEF e, more, owed
<1>3. SetRegistered(r, more) = Rebuilt(b, n, i, l, more, a, d)
  BY SetFields
<1>4. SetShares(Rebuilt(b, n, i, l, more, a, d), y) = Rebuilt(b, y, i, l, more, a, d)
  BY SetFields
<1>5. SetDebt(Rebuilt(b, y, i, l, more, a, d), s, owed)
        = Rebuilt(b, y, i, l, more, a, Put(d, s, owed))
  BY SetEntries
<1> HIDE DEF r
<1> QED BY <1>1, <1>2, <1>3, <1>4, <1>5 DEF r, e, more, owed

LEMMA ApplyTheUnregistered ==
  ASSUME NEW b, NEW n, NEW i, NEW l, NEW g, NEW a, NEW d, NEW s, NEW x, NEW v, NEW y, NEW z
  PROVE  Apply(Rebuilt(b, n, i, l, g, a, d),
               [type |-> "unregistered", stake |-> s, amount |-> x, value |-> v,
                balance |-> z, staked_shares |-> y])
           = Rebuilt(z, y, i, l, g \ {s}, a, Put(d, s, 0))
<1> DEFINE r == Rebuilt(b, n, i, l, g, a, d)
           e == [type |-> "unregistered", stake |-> s, amount |-> x, value |-> v,
                 balance |-> z, staked_shares |-> y]
           fewer == g \ {s}
<1>1. Apply(r, e)
        = SetDebt(SetBalance(SetShares(SetRegistered(r, r.registered \ {s}), y), z), s, 0)
  <2> HIDE DEF r
  <2>1. /\ Apply(r, e) = ApplyUnregistered(r, e)
        /\ e.stake = s /\ e.balance = z /\ e.staked_shares = y
    BY DEF Apply
  <2> HIDE DEF e
  <2> QED BY <2>1 DEF ApplyUnregistered, SetDebt, SetBalance, SetShares, SetRegistered
<1>2. r.registered \ {s} = fewer
  BY Fields
<1> HIDE DEF e, fewer
<1>3. SetRegistered(r, fewer) = Rebuilt(b, n, i, l, fewer, a, d)
  BY SetFields
<1>4. SetShares(Rebuilt(b, n, i, l, fewer, a, d), y) = Rebuilt(b, y, i, l, fewer, a, d)
  BY SetFields
<1>5. SetBalance(Rebuilt(b, y, i, l, fewer, a, d), z) = Rebuilt(z, y, i, l, fewer, a, d)
  BY SetFields
<1>6. SetDebt(Rebuilt(z, y, i, l, fewer, a, d), s, 0)
        = Rebuilt(z, y, i, l, fewer, a, Put(d, s, 0))
  BY SetEntries
<1> HIDE DEF r
<1> QED BY <1>1, <1>2, <1>3, <1>4, <1>5, <1>6 DEF r, e, fewer

LEMMA ApplyTheClaimed ==
  ASSUME NEW b, NEW n, NEW i, NEW l, NEW g, NEW a, NEW d, NEW s, NEW v, NEW z
  PROVE  Apply(Rebuilt(b, n, i, l, g, a, d),
               [type |-> "claimed", stake |-> s, value |-> v, balance |-> z])
           = Rebuilt(z, n, i, l, g, a, Put(d, s, d[s] + v * PRECISION))
<1> DEFINE r == Rebuilt(b, n, i, l, g, a, d)
           e == [type |-> "claimed", stake |-> s, value |-> v, balance |-> z]
           spent == d[s] + v * PRECISION
<1>1. Apply(r, e) = SetDebt(SetBalance(r, z), s, r.debt[s] + v * PRECISION)
  <2> HIDE DEF r
  <2>1. Apply(r, e) = ApplyClaimed(r, e) /\ e.stake = s /\ e.value = v /\ e.balance = z
    BY DEF Apply
  <2> HIDE DEF e
  <2> QED BY <2>1 DEF ApplyClaimed, SetDebt, SetBalance
<1>2. r.debt[s] + v * PRECISION = spent
  BY Fields
<1> HIDE DEF e, spent
<1>3. SetBalance(r, z) = Rebuilt(z, n, i, l, g, a, d)
  BY SetFields
<1>4. SetDebt(Rebuilt(z, n, i, l, g, a, d), s, spent)
        = Rebuilt(z, n, i, l, g, a, Put(d, s, spent))
  BY SetEntries
<1> HIDE DEF r
<1> QED BY <1>1, <1>2, <1>3, <1>4 DEF r, e, spent

\* The replica that agrees with the pool as it is.
Current == Rebuilt(balance, staked_shares, index, live, registered, amount, debt)

\* The pool after a fold of v, before the call that folded goes on.
Folded(v) ==
    Rebuilt(balance + v, staked_shares, FoldedIndex(v), live, registered, amount, debt)

\* The event of the fold brings the replica to Folded(v), alone or before another
\* event; a fold of nothing emits no event and changes nothing.
LEMMA ApplyTheFold ==
  ASSUME TypeOK, NEW v \in Nat
  PROVE  /\ ApplyAll(Current, Deposited(v)) = Folded(v)
         /\ \A f : ApplyAll(Current, Deposited(v) \o <<f>>) = Apply(Folded(v), f)
<1> DEFINE e == [type |-> "deposited", value |-> v, balance |-> balance + v,
                 index |-> FoldedIndex(v)]
<1>1. CASE v = 0
  <2>1. Deposited(v) = <<>>
    BY <1>1 DEF Deposited
  <2>2. balance + v = balance /\ FoldedIndex(v) = index
    BY <1>1 DEF TypeOK, FoldedIndex
  <2>3. Folded(v) = Current
    BY <2>2 DEF Folded, Current
  <2>4. /\ ApplyAll(Current, <<>>) = Current
        /\ \A f : ApplyAll(Current, <<>> \o <<f>>) = Apply(Current, f)
    BY ApplyTheEvents
  <2> QED BY <2>1, <2>3, <2>4
<1>2. CASE v # 0
  <2>1. Deposited(v) = <<e>>
    BY <1>2 DEF Deposited
  <2>2. Apply(Current, e) = Folded(v)
    BY ApplyTheDeposited DEF Current, Folded
  <2> HIDE DEF e
  <2>3. /\ ApplyAll(Current, <<e>>) = Apply(Current, e)
        /\ \A f : ApplyAll(Current, <<e>> \o <<f>>) = Apply(Apply(Current, e), f)
    BY ApplyTheEvents
  <2> QED BY <2>1, <2>2, <2>3
<1> QED BY <1>1, <1>2

\* Each handler and the events it emits move the pool and the replica alike.
LEMMA ReplicaStep ==
  ASSUME ConstantsAssumption, TypeOK, replica = Current, [ENext]_evars
  PROVE  replica' = Current'
<1>v. SettledValue \in Nat
  BY SettledValueType
<1>1. ASSUME NEW s \in Stakes, NEW n \in 1..ShareSupply, ENewStake(s, n)
      PROVE  replica' = Current'
  <2> DEFINE e == [type |-> "created", stake |-> s, amount |-> n]
  <2>1. replica' = Apply(Current, e)
    BY <1>1, ApplyTheEvents DEF ENewStake, Emits, StakeCreated
  <2>2. Apply(Current, e)
          = Rebuilt(balance, staked_shares, index, live \cup {s}, registered,
                    Put(amount, s, n), debt)
    BY ApplyTheCreated DEF Current
  <2>3. /\ balance' = balance /\ staked_shares' = staked_shares /\ index' = index
        /\ live' = live \cup {s} /\ registered' = registered
        /\ amount' = Put(amount, s, n) /\ debt' = debt
    BY <1>1 DEF ENewStake, NewStake, poolVars, Put
  <2> QED BY <2>1, <2>2, <2>3 DEF Current
<1>2. ASSUME NEW s \in Stakes, EDestroyStake(s)
      PROVE  replica' = Current'
  <2> DEFINE e == [type |-> "destroyed", stake |-> s, amount |-> amount[s]]
  <2>1. replica' = Apply(Current, e)
    BY <1>2, ApplyTheEvents DEF EDestroyStake, Emits, StakeDestroyed
  <2>2. Apply(Current, e)
          = Rebuilt(balance, staked_shares, index, live \ {s}, registered,
                    Put(amount, s, 0), debt)
    BY ApplyTheDestroyed DEF Current
  <2>3. /\ balance' = balance /\ staked_shares' = staked_shares /\ index' = index
        /\ live' = live \ {s} /\ registered' = registered
        /\ amount' = Put(amount, s, 0) /\ debt' = debt
    BY <1>2 DEF EDestroyStake, DestroyStake, poolVars, Put
  <2> QED BY <2>1, <2>2, <2>3 DEF Current
<1>3. ASSUME NEW v \in 0..MaxValue, EDeposit(v)
      PROVE  replica' = Current'
  <2>1. v \in Nat
    BY DEF ConstantsAssumption
  <2>2. replica' = Folded(v)
    BY <1>3, <2>1, ApplyTheFold DEF EDeposit, Emits
  <2>3. /\ balance' = balance + v /\ staked_shares' = staked_shares
        /\ index' = FoldedIndex(v) /\ live' = live /\ registered' = registered
        /\ amount' = amount /\ debt' = debt
    BY <1>3 DEF EDeposit, Deposit, Fold, stakeVars
  <2> QED BY <2>2, <2>3 DEF Current, Folded
<1>4. ASSUME ESettle
      PROVE  replica' = Current'
  <2>1. replica' = Folded(SettledValue)
    BY <1>4, <1>v, ApplyTheFold DEF ESettle, Emits
  <2>2. /\ balance' = balance + SettledValue /\ staked_shares' = staked_shares
        /\ index' = FoldedIndex(SettledValue) /\ live' = live /\ registered' = registered
        /\ amount' = amount /\ debt' = debt
    BY <1>4 DEF ESettle, Settle, Settling, Fold, stakeVars
  <2> QED BY <2>1, <2>2 DEF Current, Folded
<1>5. ASSUME NEW s \in Stakes, ERegisterStake(s)
      PROVE  replica' = Current'
  <2> DEFINE v == SettledValue
             e == [type |-> "registered", stake |-> s, amount |-> amount[s],
                   staked_shares |-> staked_shares']
  <2>1. replica' = Apply(Folded(v), e)
    BY <1>5, <1>v, ApplyTheFold DEF ERegisterStake, Emits, Registered
  <2>2. Apply(Folded(v), e)
          = Rebuilt(balance + v, staked_shares', FoldedIndex(v), live, registered \cup {s},
                    amount, Put(debt, s, amount[s] * FoldedIndex(v)))
    BY ApplyTheRegistered DEF Folded
  <2>3. /\ balance' = balance + v /\ index' = FoldedIndex(v)
        /\ live' = live /\ registered' = registered \cup {s} /\ amount' = amount
        /\ debt' = Put(debt, s, amount[s] * FoldedIndex(v))
    BY <1>5 DEF ERegisterStake, RegisterStake, RegistrationDebt, Settling, Fold, Put
  <2> QED BY <2>1, <2>2, <2>3 DEF Current
<1>6. ASSUME NEW s \in Stakes, EUnregisterStake(s)
      PROVE  replica' = Current'
  <2> DEFINE v == SettledValue
             e == [type |-> "unregistered", stake |-> s, amount |-> amount[s],
                   value |-> ExitValue(s), balance |-> balance',
                   staked_shares |-> staked_shares']
  <2>1. replica' = Apply(Folded(v), e)
    BY <1>6, <1>v, ApplyTheFold DEF EUnregisterStake, Emits, Unregistered
  <2>2. Apply(Folded(v), e)
          = Rebuilt(balance', staked_shares', FoldedIndex(v), live, registered \ {s},
                    amount, Put(debt, s, 0))
    BY ApplyTheUnregistered DEF Folded
  <2>3. /\ index' = FoldedIndex(v)
        /\ live' = live /\ registered' = registered \ {s} /\ amount' = amount
        /\ debt' = Put(debt, s, 0)
    BY <1>6 DEF EUnregisterStake, UnregisterStake, Settling, Fold, Put
  <2> QED BY <2>1, <2>2, <2>3 DEF Current
<1>7. ASSUME NEW s \in Stakes, EClaimRoyalties(s)
      PROVE  replica' = Current'
  <2> DEFINE spent == ClaimValue(s)
             e == [type |-> "claimed", stake |-> s, value |-> spent, balance |-> balance']
  <2>1. /\ staked_shares' = staked_shares /\ index' = index /\ live' = live
        /\ registered' = registered /\ amount' = amount
        /\ balance' = balance - spent
        /\ debt' = [debt EXCEPT ![s] = debt[s] + spent * PRECISION]
    BY <1>7 DEF EClaimRoyalties, ClaimRoyalties, ClaimedDebt
  <2>2. replica' = ApplyAll(Current, Claimed(s, spent))
    BY <1>7 DEF EClaimRoyalties, Emits
  <2>3. CASE spent = 0
    <3>1. replica' = Current
      BY <2>2, <2>3, ApplyTheEvents DEF Claimed
    <3>2. balance' = balance
      BY <2>1, <2>3 DEF TypeOK
    <3>3. debt' = debt
      <4> HIDE DEF spent
      <4>1. debt \in [Stakes -> Nat] /\ PRECISION \in Nat
        BY DEF TypeOK, ConstantsAssumption
      <4>2. debt[s] + spent * PRECISION = debt[s]
        BY <4>1, <2>3
      <4> QED BY <2>1, <4>1, <4>2
    <3> QED BY <2>1, <3>1, <3>2, <3>3 DEF Current
  <2>4. CASE spent # 0
    <3>1. replica' = Apply(Current, e)
      BY <2>2, <2>4, ApplyTheEvents DEF Claimed
    <3>2. Apply(Current, e)
            = Rebuilt(balance', staked_shares, index, live, registered, amount,
                      Put(debt, s, debt[s] + spent * PRECISION))
      BY ApplyTheClaimed DEF Current
    <3>3. debt' = Put(debt, s, debt[s] + spent * PRECISION)
      BY <2>1 DEF Put
    <3> HIDE DEF spent
    <3> QED BY <2>1, <3>1, <3>2, <3>3 DEF Current
  <2> QED BY <2>3, <2>4
<1>8. ASSUME ESilent
      PROVE  replica' = Current'
  <2>1. UNCHANGED <<balance, staked_shares, index, live, registered, amount, debt, replica>>
    BY <1>8 DEF ESilent, RecoverCoins, SendFunds, SendCoins, NextCommit, poolVars, stakeVars
  <2> QED BY <2>1 DEF Current
<1>9. ASSUME UNCHANGED evars
      PROVE  replica' = Current'
  BY <1>9 DEF evars, vars, poolVars, stakeVars, Current
<1> QED BY <1>1, <1>2, <1>3, <1>4, <1>5, <1>6, <1>7, <1>8, <1>9 DEF ENext

\* An indexer that folds the events in their order holds, after every call, every
\* field of the pool and of the stakes, the debts nobody emits included (README
\* "Event schemas"); true of every pool, so no handler emits a field too early,
\* leaves an event out, or emits the Deposited of its settle after its own event.
THEOREM EventsRebuildThePool == ESpec => []ReplicaExact
<1>1. ReplicaExact <=> replica = Current
  BY DEF ReplicaExact, Current, Rebuilt
<1>2. EInit => IInv /\ ReplicaExact
  <2> SUFFICES ASSUME EInit
               PROVE  IInv /\ replica = Current
    BY <1>1
  <2>1. IInv
    BY InitIInv, ConstantsAssumption DEF EInit
  <2>2. replica = Current
    BY DEF EInit, Init, EmptyReplica, Current, Rebuilt
  <2> QED BY <2>1, <2>2
<1>3. IInv /\ ReplicaExact /\ [ENext]_evars => IInv' /\ ReplicaExact'
  <2> SUFFICES ASSUME IInv, ReplicaExact, [ENext]_evars
               PROVE  IInv' /\ ReplicaExact'
    OBVIOUS
  <2>1. [Next]_vars
    BY DEF ENext, evars, Next, ENewStake, EDestroyStake, EDeposit, ESettle,
           ERegisterStake, EUnregisterStake, EClaimRoyalties, ESilent
  <2>2. IInv'
    BY <2>1, NextIInv, ConstantsAssumption
  <2>3. replica' = Current'
    BY <1>1, ReplicaStep, ConstantsAssumption DEF IInv
  <2>4. ReplicaExact'
    BY <2>3 DEF ReplicaExact, Current, Rebuilt
  <2> QED BY <2>2, <2>4
<1> QED BY <1>2, <1>3, PTL DEF ESpec
================================================================================
