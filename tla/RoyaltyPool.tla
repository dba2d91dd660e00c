------------------------------ MODULE RoyaltyPool ------------------------------
(***************************************************************************)
(* One RoyaltyPool<Share, Currency> (sources/pool.move) with the           *)
(* Stake<Share> objects (sources/stake.move) that register in it, and the  *)
(* part of the chain both depend on: the clock, the consensus commit and   *)
(* the funds and coins at the pool's address.                              *)
(*                                                                         *)
(* One action is one entry-point call that commits.  A call that aborts    *)
(* changes nothing (a Sui transaction is atomic), so an abort is a guard.  *)
(* A transaction of several calls is a run of consecutive actions.         *)
(***************************************************************************)
EXTENDS Integers, FiniteSets, Functions

CONSTANTS
    Stakes,        \* identities a Stake object may take
    ShareSupply,   \* base units of the Share coin
    PRECISION,     \* the scale of the index, 10^18 in the code
    MaxRead,       \* the most one settled-balance read returns, u64::MAX
    MaxIndex,      \* bound on the index: the u256 at which fold aborts
    MaxValue,      \* bound on one deposit or one transfer to the address
    MaxFunds,      \* bound on what waits at the pool's address
    MaxTime        \* bound on the clock

ASSUME ConstantsAssumption ==
    /\ IsFiniteSet(Stakes)
    /\ ShareSupply \in Nat \ {0}
    /\ PRECISION \in Nat \ {0}
    /\ MaxRead \in Nat \ {0}
    /\ MaxIndex \in Nat
    /\ MaxValue \in Nat
    /\ MaxFunds \in Nat
    /\ MaxTime \in Nat \ {0}

VARIABLES
    \* the RoyaltyPool object
    balance,               \* payout currency held
    staked_shares,         \* shares of the registered stakes
    index,                 \* cumulative_royalty_per_share
    carry,                 \* remainder of the last fold, in 1/PRECISION units
    last_settled_at_ms,    \* clock value of the last settle, 0 before any
    \* the Stake objects
    live,                  \* identities of the stakes that exist
    amount,                \* shares a live stake wraps, 0 for the others
    registered,            \* stakes with an entry for this pool
    debt,                  \* that entry's debt, 0 without one
    \* the chain
    now,                   \* Clock, constant within a commit
    settled,               \* funds at the address in this commit's snapshot
    redeemed,              \* part of them withdrawn in this commit
    arriving,              \* funds sent in this commit, settled by the next
    coins                  \* Coin objects at the address, by total value

stakeVars == <<live, amount, registered, debt>>
poolVars  == <<balance, staked_shares, index, carry, last_settled_at_ms>>
chainVars == <<now, settled, redeemed, arriving, coins>>
vars      == <<poolVars, stakeVars, chainVars>>

\* A pool that `new` has just created; funds may wait at the derived address.
Init ==
    /\ balance = 0 /\ staked_shares = 0 /\ index = 0 /\ carry = 0
    /\ last_settled_at_ms = 0
    /\ live = {} /\ registered = {}
    /\ amount = [s \in Stakes |-> 0]
    /\ debt = [s \in Stakes |-> 0]
    /\ now = 1
    /\ settled \in 0..MaxFunds
    /\ redeemed = 0 /\ arriving = 0 /\ coins = 0

--------------------------------------------------------------------------------
\* (An operator named ...Fault is not part of the model: it is a bug that could
\* have been written in place of the definition it precedes, kept to show that
\* the properties would notice.)

RoundedUpFault(shares, d, i) == (shares * i - d + PRECISION - 1) \div PRECISION

\* What a registration of `shares` with debt `d` may draw at index `i`.
Royalty(shares, d, i) == (shares * i - d) \div PRECISION

RoundedIndexFault(v) ==
    IF v = 0 THEN index
    ELSE index + (v * PRECISION + carry + staked_shares - 1) \div staked_shares

\* Index and carry once value v is folded in; v = 0 is each caller's early return.
FoldedIndex(v) ==
    IF v = 0 THEN index ELSE index + (v * PRECISION + carry) \div staked_shares

LostCarryFault(v) == IF v = 0 THEN carry ELSE 0
AddedCarryFault(v) ==
    IF v = 0 THEN carry ELSE carry + ((v * PRECISION + carry) % staked_shares)

FoldedCarry(v) ==
    IF v = 0 THEN carry ELSE (v * PRECISION + carry) % staked_shares

Fold(v) ==
    /\ FoldedIndex(v) <= MaxIndex
    /\ index' = FoldedIndex(v)
    /\ carry' = FoldedCarry(v)

LiveBalanceFault == settled + arriving

\* redeem_settled_balance reads the snapshot the commit started with.
Redeemable == IF settled < MaxRead THEN settled ELSE MaxRead

UnguardedFault == staked_shares > 0

SettleDue == now # last_settled_at_ms /\ staked_shares > 0

SettledValue == IF SettleDue THEN Redeemable ELSE 0

\* A second withdraw from one address in one commit fails the transaction.
WithdrawAccepted == SettledValue > 0 => redeemed = 0

StampWhenPaidFault == IF SettledValue > 0 THEN now ELSE last_settled_at_ms

\* The stamp is set before it is known whether there is anything to redeem.
Stamp == now

\* The settle that begins settle, register_stake and unregister_stake; each of
\* them says what becomes of the balance.
Settling ==
    /\ WithdrawAccepted
    /\ last_settled_at_ms' = Stamp
    /\ redeemed' = redeemed + SettledValue
    /\ Fold(SettledValue)
    /\ UNCHANGED <<now, settled, arriving, coins>>

--------------------------------------------------------------------------------
(* stake.move *)

NewStake(s, shares) ==
    /\ s \notin live
    /\ shares > 0
    /\ SumFunction(amount) + shares <= ShareSupply
    /\ live' = live \cup {s}
    /\ amount' = [amount EXCEPT ![s] = shares]
    /\ UNCHANGED <<poolVars, registered, debt, chainVars>>

DestroyRegisteredFault(s) == s \in live

CanDestroy(s) == s \in live /\ s \notin registered

DestroyStake(s) ==
    /\ CanDestroy(s)
    /\ live' = live \ {s}
    /\ amount' = [amount EXCEPT ![s] = 0]
    /\ UNCHANGED <<poolVars, registered, debt, chainVars>>

--------------------------------------------------------------------------------
(* pool.move *)

Deposit(v) ==
    /\ v > 0 => staked_shares > 0
    /\ Fold(v)
    /\ balance' = balance + v
    /\ UNCHANGED <<staked_shares, last_settled_at_ms, stakeVars, chainVars>>

Settle ==
    /\ Settling
    /\ balance' = balance + SettledValue
    /\ UNCHANGED <<staked_shares, stakeVars>>

RecoverCoins(v) ==
    /\ v \in 0..coins
    /\ coins' = coins - v
    /\ arriving' = arriving + v
    /\ UNCHANGED <<poolVars, stakeVars, now, settled, redeemed>>

RegisterTwiceFault(s) == s \in live

CanRegister(s) == s \in live /\ s \notin registered

StaleDebtFault(s) == amount[s] * index

RegistrationDebt(s) == amount[s] * FoldedIndex(SettledValue)

RegisterStake(s) ==
    /\ CanRegister(s)
    /\ Settling
    /\ balance' = balance + SettledValue
    /\ registered' = registered \cup {s}
    /\ debt' = [debt EXCEPT ![s] = RegistrationDebt(s)]
    /\ staked_shares' = staked_shares + amount[s]
    /\ UNCHANGED <<live, amount>>

\* The subtraction in `royalty` and the `split` abort outside these bounds.
Payable(s, i, held) ==
    /\ debt[s] <= amount[s] * i
    /\ Royalty(amount[s], debt[s], i) <= held

StaleExitFault(s) == Royalty(amount[s], debt[s], index)

ExitValue(s) == Royalty(amount[s], debt[s], FoldedIndex(SettledValue))

UnregisterStake(s) ==
    /\ s \in registered
    /\ Payable(s, FoldedIndex(SettledValue), balance + SettledValue)
    /\ Settling
    /\ balance' = (balance + SettledValue) - ExitValue(s)
    /\ registered' = registered \ {s}
    /\ debt' = [debt EXCEPT ![s] = 0]
    /\ staked_shares' = staked_shares - amount[s]
    /\ UNCHANGED <<live, amount>>

ClaimValue(s) == Royalty(amount[s], debt[s], index)

DroppedFractionFault(s) == amount[s] * index

ClaimedDebt(s) == debt[s] + ClaimValue(s) * PRECISION

ClaimRoyalties(s) ==
    /\ s \in registered
    /\ Payable(s, index, balance)
    /\ debt' = [debt EXCEPT ![s] = ClaimedDebt(s)]
    /\ balance' = balance - ClaimValue(s)
    /\ UNCHANGED <<staked_shares, index, carry, last_settled_at_ms>>
    /\ UNCHANGED <<live, amount, registered, chainVars>>

--------------------------------------------------------------------------------
(* The chain *)

RoomAtAddress(v) == settled + arriving + coins + v <= MaxFunds

SendFunds(v) ==
    /\ RoomAtAddress(v)
    /\ arriving' = arriving + v
    /\ UNCHANGED <<poolVars, stakeVars, now, settled, redeemed, coins>>

SendCoins(v) ==
    /\ RoomAtAddress(v)
    /\ coins' = coins + v
    /\ UNCHANGED <<poolVars, stakeVars, now, settled, redeemed, arriving>>

\* The next commit: its clock does not go back and may repeat, its snapshot
\* holds what the last one left and received.
NextCommit(t) ==
    /\ t >= now
    /\ now' = t
    /\ settled' = (settled - redeemed) + arriving
    /\ redeemed' = 0
    /\ arriving' = 0
    /\ UNCHANGED <<poolVars, stakeVars, coins>>

Next ==
    \/ \E s \in Stakes, n \in 1..ShareSupply : NewStake(s, n)
    \/ \E s \in Stakes : DestroyStake(s)
    \/ \E v \in 0..MaxValue : Deposit(v)
    \/ Settle
    \/ \E v \in 0..coins : RecoverCoins(v)
    \/ \E s \in Stakes : RegisterStake(s)
    \/ \E s \in Stakes : UnregisterStake(s)
    \/ \E s \in Stakes : ClaimRoyalties(s)
    \/ \E v \in 1..MaxValue : SendFunds(v)
    \/ \E v \in 1..MaxValue : SendCoins(v)
    \/ \E t \in 1..MaxTime : NextCommit(t)

Spec == Init /\ [][Next]_vars

--------------------------------------------------------------------------------
(* Properties *)

\* Every field stays in the range its type and its meaning give it.
TypeOK ==
    /\ balance \in Nat
    /\ staked_shares \in Nat
    /\ index \in 0..MaxIndex
    /\ carry \in Nat
    /\ last_settled_at_ms \in 0..now
    /\ registered \subseteq live /\ live \subseteq Stakes
    /\ amount \in [Stakes -> 0..ShareSupply]
    /\ \A s \in Stakes : amount[s] = 0 <=> s \notin live
    /\ debt \in [Stakes -> Nat]
    /\ \A s \in Stakes \ registered : debt[s] = 0
    /\ now \in 1..MaxTime
    /\ settled \in Nat /\ redeemed \in 0..settled
    /\ arriving \in Nat /\ coins \in Nat

\* Scaled credit each registration holds against the pool, at index i and now.
OwedAt(i) == [s \in Stakes |->
                IF s \in registered THEN amount[s] * i - debt[s] ELSE 0]
Owed == OwedAt(index)

\* pending_royalties of every stake: what a claim would pay now.
Pending == [s \in Stakes |->
              IF s \in registered THEN Royalty(amount[s], debt[s], index) ELSE 0]

RegisteredAmount == [s \in Stakes |-> IF s \in registered THEN amount[s] ELSE 0]

\* staked_shares, the divisor of every fold, is the sum over the registrations
\* at all times: register and unregister move it by the immutable principal.
StakedSharesExact == staked_shares = SumFunction(RegisteredAmount)

\* The pool never owes more than it holds: the scaled credits of all the
\* registrations, each never negative, and the carry are covered by the balance.
Solvent ==
    /\ \A s \in registered : debt[s] <= amount[s] * index
    /\ SumFunction(Owed) + carry <= balance * PRECISION

\* Every registered stake can draw what it sees as pending, in any order: no
\* claim or unregister ever aborts in `royalty` or in `balance.split`.
EveryExitPayable ==
    /\ \A s \in registered : Payable(s, index, balance)
    /\ SumFunction(Pending) <= balance

\* The timestamp guard does what it is for: whenever a call would redeem, no
\* withdraw from the pool's address has been made in the same commit, so no
\* settle, register or unregister can be failed by somebody else's settle.
NoCallFailedByWithdraw == WithdrawAccepted

\* Stakes wrap shares that exist: their amounts never add up to more than the supply.
StakesWithinSupply == SumFunction(amount) <= ShareSupply

\* A remainder carried to the next fold is below one share's worth of a scaled
\* unit per share in existence, so it fits the u64 it is stored in.
CarryBelowSupply == carry < ShareSupply

\* Nobody's call takes credit from a registration that outlives the step: the
\* credit grows, or falls by exactly what left the pool, leaving the residue.
CreditKept ==
    \A s \in registered \cap registered' :
        \/ Owed'[s] >= Owed[s]
        \/ /\ Owed[s] - Owed'[s] = (balance - balance') * PRECISION
           /\ Owed'[s] < PRECISION

CreditNeverTaken == [][CreditKept]_vars
================================================================================
