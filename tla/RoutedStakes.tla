------------------------------ MODULE RoutedStakes ------------------------------
(***************************************************************************)
(* The system of the 2026-09-09 audit: the pool and stake packages it      *)
(* pinned and the routed_stake package beside them.  A routed stake is     *)
(* derived from a parent work, wraps a stake in shares of another work,    *)
(* and can send what that stake earns to one place only: the parent's own  *)
(* pool.  The pinned pool keys a stake's registrations by currency, has no *)
(* timestamp guard, and lets a stake leave only with nothing to claim.     *)
(*                                                                         *)
(* One action is one entry-point call that commits; an abort is a guard.   *)
(***************************************************************************)
EXTENDS Integers, FiniteSets, Functions

CONSTANTS
    Pools,           \* RoyaltyPool objects, all created and shared
    Holders,         \* Stake objects owned by holders
    Routed,          \* derived addresses of routed stakes
    ParentOf,        \* the parent each pool and routed stake is derived from
    ShareOf,         \* share type of a pool and of a stake, wrapped or not
    RouteShare,      \* PoolShare of each routed stake
    CurrencyOf,      \* currency of each pool
    ShareSupply,     \* base units of each share type
    PRECISION,
    MaxIndex,        \* bound on an index
    CurrencySupply   \* base units of currency in the world

ASSUME ConstantsAssumption ==
    /\ IsFiniteSet(Pools)
    /\ IsFiniteSet(Holders) /\ IsFiniteSet(Routed) /\ Holders \cap Routed = {}
    /\ PRECISION \in Nat \ {0}
    /\ ShareSupply \in Nat /\ MaxIndex \in Nat /\ CurrencySupply \in Nat

VARIABLES
    pool,            \* the pool objects
    derived,         \* routed stakes that were created
    amount,          \* shares each stake holds, 0 where there is none
    registrations,   \* of each stake: from currency to pool and debt
    address,         \* funds and coins at each pool's address
    outside          \* currency in nobody's pool

vars == <<pool, derived, amount, registrations, address, outside>>

Positions == Holders \cup Routed
Parents == {ParentOf[x] : x \in Pools \cup Routed}

NoFunds == [settled |-> 0, redeemed |-> 0, arriving |-> 0, coins |-> 0]
NewPool == [balance |-> 0, staked_shares |-> 0, index |-> 0, carry |-> 0]
NoRegistrations == [c \in {} |-> 0]

Init ==
    /\ pool = [p \in Pools |-> NewPool]
    /\ derived = {}
    /\ amount = [x \in Positions |-> 0]
    /\ registrations = [x \in Positions |-> NoRegistrations]
    /\ address = [p \in Pools |-> NoFunds]
    /\ outside = CurrencySupply

--------------------------------------------------------------------------------
(* pool.move and stake.move, as pinned *)

LostCarryFault(q, v) ==
    [q EXCEPT !.balance = @ + v,
              !.index = @ + ((v * PRECISION + q.carry) \div q.staked_shares),
              !.carry = 0]

RoundUpFault(q, v) ==
    [q EXCEPT !.balance = @ + v,
              !.index = @ + ((v * PRECISION + q.carry + q.staked_shares - 1) \div q.staked_shares),
              !.carry = 0]

\* A pool object after deposit(v), which aborts on v = 0 and without stakes.
Deposited(q, v) ==
    LET numerator == v * PRECISION + q.carry
    IN  [q EXCEPT !.balance = @ + v,
                  !.index = @ + (numerator \div q.staked_shares),
                  !.carry = numerator % q.staked_shares]

DepositAccepted(q, v) ==
    q.staked_shares > 0 /\ v > 0 /\ Deposited(q, v).index <= MaxIndex

calculate_reward(shares, debt, index) == (shares * index - debt) \div PRECISION

HasRegistration(x, p) == CurrencyOf[p] \in DOMAIN registrations[x]
Registration(x, p) == registrations[x][CurrencyOf[p]]

\* Any pool of the right types does.
AnyPoolFault(x, p) == HasRegistration(x, p)

\* The pool of the call is the one the registration names.
RegisteredWith(x, p) == HasRegistration(x, p) /\ Registration(x, p).pool = p

Reward(x, p) == calculate_reward(amount[x], Registration(x, p).debt, pool[p].index)

Payable(x, p) ==
    /\ Registration(x, p).debt <= amount[x] * pool[p].index
    /\ Reward(x, p) <= pool[p].balance

WithRegistration(x, p, debt) ==
    [c \in DOMAIN registrations[x] \cup {CurrencyOf[p]} |->
        IF c = CurrencyOf[p] THEN [pool |-> p, debt |-> debt] ELSE registrations[x][c]]

WithoutRegistration(x, p) ==
    Restrict(registrations[x], DOMAIN registrations[x] \ {CurrencyOf[p]})

RegisterStake(x, p) ==
    /\ amount[x] > 0 /\ ShareOf[x] = ShareOf[p]
    /\ ~HasRegistration(x, p)
    /\ registrations' =
         [registrations EXCEPT ![x] = WithRegistration(x, p, amount[x] * pool[p].index)]
    /\ pool' = [pool EXCEPT ![p].staked_shares = @ + amount[x]]
    /\ UNCHANGED <<derived, amount, address, outside>>

\* A final claim would pay nothing.
Drained(x, p) == Payable(x, p) /\ Reward(x, p) = 0

UnregisterStake(x, p) ==
    /\ ShareOf[x] = ShareOf[p]
    /\ RegisteredWith(x, p)
    /\ Drained(x, p)
    /\ registrations' = [registrations EXCEPT ![x] = WithoutRegistration(x, p)]
    /\ pool' = [pool EXCEPT ![p].staked_shares = @ - amount[x]]
    /\ UNCHANGED <<derived, amount, address, outside>>

\* claim_rewards: the caller has the reward; what becomes of it is the caller's.
ClaimRewards(x, p) ==
    /\ ShareOf[x] = ShareOf[p]
    /\ RegisteredWith(x, p)
    /\ Payable(x, p)
    /\ registrations' =
         [registrations EXCEPT ![x] =
             WithRegistration(x, p, Registration(x, p).debt + Reward(x, p) * PRECISION)]

Claimed(x, p) == [pool[p] EXCEPT !.balance = @ - Reward(x, p)]

Deposit(p, v) ==
    /\ v <= outside
    /\ DepositAccepted(pool[p], v)
    /\ pool' = [pool EXCEPT ![p] = Deposited(@, v)]
    /\ outside' = outside - v
    /\ UNCHANGED <<derived, amount, registrations, address>>

\* What settle redeems: the commit's snapshot, however often it was redeemed.
SettledValue(p) == IF pool[p].staked_shares = 0 THEN 0 ELSE address[p].settled

WithdrawAccepted(p) == SettledValue(p) > 0 => address[p].redeemed = 0

Settle(p) ==
    LET v == SettledValue(p) IN
    /\ v > 0
    /\ WithdrawAccepted(p)
    /\ DepositAccepted(pool[p], v)
    /\ address' = [address EXCEPT ![p].redeemed = v]
    /\ pool' = [pool EXCEPT ![p] = Deposited(@, v)]
    /\ UNCHANGED <<derived, amount, registrations, outside>>

RecoverCoins(p, v) ==
    /\ v \in 1..address[p].coins
    /\ address' = [address EXCEPT ![p].coins = @ - v, ![p].arriving = @ + v]
    /\ UNCHANGED <<pool, derived, amount, registrations, outside>>

InCirculation(share) ==
    SumFunction([x \in Positions |-> IF ShareOf[x] = share THEN amount[x] ELSE 0])

\* stake::new, for a holder or inside a wrapper.
NewStake(x, n) ==
    /\ n > 0
    /\ InCirculation(ShareOf[x]) + n <= ShareSupply
    /\ amount' = [amount EXCEPT ![x] = n]
    /\ UNCHANGED <<pool, registrations, address, outside>>

StillRegisteredFault(x) == TRUE
NothingRegistered(x) == registrations[x] = NoRegistrations

\* stake::destroy.
DestroyStake(x) ==
    /\ amount[x] > 0
    /\ NothingRegistered(x)
    /\ amount' = [amount EXCEPT ![x] = 0]
    /\ UNCHANGED <<pool, derived, registrations, address, outside>>

HolderNewStake(s, n) == amount[s] = 0 /\ NewStake(s, n) /\ UNCHANGED derived

HolderClaims(s, p) ==
    /\ ClaimRewards(s, p)
    /\ pool' = [pool EXCEPT ![p] = Claimed(s, p)]
    /\ outside' = outside + Reward(s, p)
    /\ UNCHANGED <<derived, amount, address>>

--------------------------------------------------------------------------------
(* routed_stake.move; q is the parent, or the parent's ID, the caller hands over *)

AnyParentFault(x, q) == TRUE
DerivedFrom(x, q) == ParentOf[x] = q

HasStake(r) == r \in derived /\ amount[r] > 0

RoutedNew(r, n) ==
    /\ r \notin derived
    /\ derived' = derived \cup {r}
    /\ NewStake(r, n)

RoutedRegister(r, q, p) == DerivedFrom(r, q) /\ HasStake(r) /\ RegisterStake(r, p)

RoutedUnregister(r, q, p) == DerivedFrom(r, q) /\ HasStake(r) /\ UnregisterStake(r, p)

Unstake(r, q) == DerivedFrom(r, q) /\ HasStake(r) /\ DestroyStake(r)

Restake(r, q, n) ==
    /\ DerivedFrom(r, q)
    /\ r \in derived /\ ~HasStake(r)
    /\ NewStake(r, n)
    /\ UNCHANGED derived

\* The types of sweep: the stake's pool, and a pool of the route's share, in one currency.
SweepTypes(r, p, d) ==
    /\ ShareOf[p] = ShareOf[r] /\ ShareOf[d] = RouteShare[r]
    /\ CurrencyOf[p] = CurrencyOf[d]
    /\ p # d

AlwaysDepositFault(d) == FALSE

\* A pool without stakes cannot take a deposit: the reward goes to its address.
Parks(d) == pool[d].staked_shares = 0

Sweep(r, p, d, q) ==
    LET value == Reward(r, p) IN
    /\ SweepTypes(r, p, d)
    /\ DerivedFrom(r, q) /\ DerivedFrom(d, q)
    /\ HasStake(r)
    /\ ClaimRewards(r, p)
    /\ IF value > 0 /\ Parks(d)
       THEN /\ address' = [address EXCEPT ![d].arriving = @ + value]
            /\ pool' = [pool EXCEPT ![p] = Claimed(r, p)]
       ELSE /\ value > 0 => DepositAccepted(pool[d], value)
            /\ pool' = [pool EXCEPT ![p] = Claimed(r, p),
                                    ![d] = IF value = 0 THEN @ ELSE Deposited(@, value)]
            /\ UNCHANGED address
    /\ UNCHANGED <<derived, amount, outside>>

--------------------------------------------------------------------------------
(* The chain *)

SendFunds(p, v) ==
    /\ v <= outside
    /\ outside' = outside - v
    /\ address' = [address EXCEPT ![p].arriving = @ + v]
    /\ UNCHANGED <<pool, derived, amount, registrations>>

SendCoins(p, v) ==
    /\ v <= outside
    /\ outside' = outside - v
    /\ address' = [address EXCEPT ![p].coins = @ + v]
    /\ UNCHANGED <<pool, derived, amount, registrations>>

NextCommit ==
    /\ address' = [p \in Pools |->
                     [settled  |-> (address[p].settled - address[p].redeemed)
                                     + address[p].arriving,
                      redeemed |-> 0, arriving |-> 0, coins |-> address[p].coins]]
    /\ UNCHANGED <<pool, derived, amount, registrations, outside>>

Next ==
    \/ \E s \in Holders, n \in 1..ShareSupply : HolderNewStake(s, n)
    \/ \E s \in Holders : DestroyStake(s)
    \/ \E s \in Holders, p \in Pools : RegisterStake(s, p)
    \/ \E s \in Holders, p \in Pools : UnregisterStake(s, p)
    \/ \E s \in Holders, p \in Pools : HolderClaims(s, p)
    \/ \E p \in Pools, v \in 1..CurrencySupply : Deposit(p, v)
    \/ \E p \in Pools : Settle(p)
    \/ \E p \in Pools, v \in 1..CurrencySupply : RecoverCoins(p, v)
    \/ \E r \in Routed, n \in 1..ShareSupply : RoutedNew(r, n)
    \/ \E r \in Routed, q \in Parents, p \in Pools : RoutedRegister(r, q, p)
    \/ \E r \in Routed, q \in Parents, p \in Pools : RoutedUnregister(r, q, p)
    \/ \E r \in Routed, q \in Parents : Unstake(r, q)
    \/ \E r \in Routed, q \in Parents, n \in 1..ShareSupply : Restake(r, q, n)
    \/ \E r \in Routed, p, d \in Pools, q \in Parents : Sweep(r, p, d, q)
    \/ \E p \in Pools, v \in 1..CurrencySupply : SendFunds(p, v)
    \/ \E p \in Pools, v \in 1..CurrencySupply : SendCoins(p, v)
    \/ NextCommit

Spec == Init /\ [][Next]_vars

--------------------------------------------------------------------------------
(* Properties *)

Owed(x, p) ==
    IF RegisteredWith(x, p) THEN amount[x] * pool[p].index - Registration(x, p).debt ELSE 0

SharesIn(p) == [x \in Positions |-> IF RegisteredWith(x, p) THEN amount[x] ELSE 0]

\* Every pool's divisor is the shares of the stakes registered with that pool and
\* not with another of the same currency, wrapped stakes included: no register,
\* unregister, unstake or restake, through a wrapper or not, leaves shares behind.
DivisorsExact == \A p \in Pools : pool[p].staked_shares = SumFunction(SharesIn(p))

\* No pool owes more than it holds, whatever was swept through it.
PoolsSolvent ==
    \A p \in Pools :
        /\ \A x \in Positions : Owed(x, p) >= 0
        /\ SumFunction([x \in Positions |-> Owed(x, p)]) + pool[p].carry
             <= pool[p].balance * PRECISION

\* routed_stake.move: sweep "can never be blocked by the destination's state".  A
\* registered routed stake can be swept to any pool of its parent that its route
\* names, so it can always be drained and leave; only the model's bound on an index
\* stands apart.
SweepNeverBlocked ==
    \A r \in derived, p, d \in Pools :
        (SweepTypes(r, p, d) /\ RegisteredWith(r, p) /\ ParentOf[d] = ParentOf[r]) =>
            \/ ENABLED Sweep(r, p, d, ParentOf[r])
            \/ /\ pool[d].staked_shares > 0
               /\ Deposited(pool[d], Reward(r, p)).index > MaxIndex

Held(p) ==
    pool[p].balance + (address[p].settled - address[p].redeemed)
      + address[p].arriving + address[p].coins

\* What a wrapped stake earns goes to its parent's pool of that currency, all of it
\* in the same step, whoever sweeps: nothing of it leaves to a caller, to another
\* pool or with an exit, save the residue below one unit.
RouteKept ==
    \A r \in Routed, p \in Pools :
        Owed(r, p)' < Owed(r, p) =>
            \/ /\ RegisteredWith(r, p)'
               /\ outside' = outside
               /\ \E d \in Pools :
                    /\ ParentOf[d] = ParentOf[r] /\ ShareOf[d] = RouteShare[r]
                    /\ (Held(d)' - Held(d)) * PRECISION = Owed(r, p) - Owed(r, p)'
            \/ ~RegisteredWith(r, p)' /\ Owed(r, p) < PRECISION

RewardsStayRouted == [][RouteKept]_vars

Ledger(p) == INSTANCE RoyaltyLedger WITH
    Stakes   <- Positions,
    Shares   <- 1..ShareSupply,
    Payments <- 0..CurrencySupply,
    held     <- pool[p].balance,
    share    <- SharesIn(p),
    credit   <- [x \in Positions |-> Owed(x, p)],
    dust     <- pool[p].carry

\* Each pool, seen alone, is the ledger it promises: a sweep is a member's withdrawal
\* in one pool and a payment in the other.
EachPoolIsALedger ==
    /\ \A p \in Pools : Ledger(p)!Init
    /\ [][\A p \in Pools : [Ledger(p)!Next]_(Ledger(p)!vars)]_vars
================================================================================
