----------------------------- MODULE RoyaltyPools -----------------------------
(***************************************************************************)
(* Several pools and the stakes they share.  Every (work, currency) pair   *)
(* has one pool address, derived from it; the pool object is claimed there *)
(* once.  A stake holds one registration per pool, in a map keyed by the   *)
(* pool's ID, and can be destroyed only when the map is empty.  Each pool, *)
(* seen alone, is a RoyaltyPool.                                           *)
(***************************************************************************)
EXTENDS Integers, FiniteSets, Functions

CONSTANTS
    Pools,         \* derived addresses: the pools of one Share coin
    Stakes, ShareSupply, PRECISION, MaxRead, MaxIndex, MaxValue, MaxFunds, MaxTime

ASSUME ConstantsAssumption ==
    /\ IsFiniteSet(Pools) /\ IsFiniteSet(Stakes)
    /\ PRECISION \in Nat \ {0}
    /\ ShareSupply \in Nat \ {0} /\ MaxRead \in Nat \ {0} /\ MaxTime \in Nat \ {0}
    /\ MaxIndex \in Nat /\ MaxValue \in Nat /\ MaxFunds \in Nat

VARIABLES
    pool,           \* the pool object claimed at each address
    live, amount,   \* the stakes that exist and the shares they wrap
    registrations,  \* for each stake, its map from pools to debts
    now,            \* Clock
    address         \* funds and coins at each pool address

vars == <<pool, live, amount, registrations, now, address>>

NoFunds == [settled |-> 0, redeemed |-> 0, arriving |-> 0, coins |-> 0]

\* A pool object as `new` makes it; "absent" is an address nothing was claimed at.
NewPool(status) ==
    [status |-> status, balance |-> 0, staked_shares |-> 0, index |-> 0, carry |-> 0,
     last_settled_at_ms |-> 0]

NoRegistrations == [p \in {} |-> 0]

Init ==
    /\ pool = [p \in Pools |-> NewPool("absent")]
    /\ live = {}
    /\ amount = [s \in Stakes |-> 0]
    /\ registrations = [s \in Stakes |-> NoRegistrations]
    /\ now = 1
    /\ address = [p \in Pools |-> NoFunds]

--------------------------------------------------------------------------------
\* The pool exists, in its creator's transaction or shared.
Usable(p) == pool[p].status # "absent"

IsRegistered(s, p) == p \in DOMAIN registrations[s]

Royalty(shares, d, i) == (shares * i - d) \div PRECISION

FoldedPool(p, v) ==
    LET numerator == v * PRECISION + pool[p].carry
        shares    == pool[p].staked_shares
    IN  IF v = 0 THEN pool[p]
        ELSE [pool[p] EXCEPT !.balance = @ + v,
                             !.index = @ + (numerator \div shares),
                             !.carry = numerator % shares]

SettledValue(p) ==
    IF now = pool[p].last_settled_at_ms \/ pool[p].staked_shares = 0 THEN 0
    ELSE IF address[p].settled < MaxRead THEN address[p].settled ELSE MaxRead

\* The pool after the settle that register_stake and unregister_stake begin with.
SettledPool(p) ==
    [FoldedPool(p, SettledValue(p)) EXCEPT !.last_settled_at_ms = now]

\* `after` is what the call makes of the settled pool.
SettleInto(p, after) ==
    /\ Usable(p)
    /\ SettledValue(p) > 0 => address[p].redeemed = 0
    /\ SettledPool(p).index <= MaxIndex
    /\ address' = [address EXCEPT ![p].redeemed = @ + SettledValue(p)]
    /\ pool' = [pool EXCEPT ![p] = after]

--------------------------------------------------------------------------------
\* derived_object::claim: an address is claimed at most once.
ReclaimFault(p) == pool[p].status # "unshared"
CanClaim(p) == pool[p].status = "absent"

New(p) ==
    /\ CanClaim(p)
    /\ pool' = [pool EXCEPT ![p] = NewPool("unshared")]
    /\ UNCHANGED <<live, amount, registrations, now, address>>

Share(p) ==
    /\ pool[p].status = "unshared"
    /\ pool' = [pool EXCEPT ![p].status = "shared"]
    /\ UNCHANGED <<live, amount, registrations, now, address>>

NewStake(s, shares) ==
    /\ s \notin live
    /\ shares > 0
    /\ SumFunction(amount) + shares <= ShareSupply
    /\ live' = live \cup {s}
    /\ amount' = [amount EXCEPT ![s] = shares]
    /\ UNCHANGED <<pool, registrations, now, address>>

\* Looks for one registration, not for any.
OnePoolFault(s) == \E p \in Pools : ~IsRegistered(s, p)
NothingRegistered(s) == registrations[s] = NoRegistrations

DestroyStake(s) ==
    /\ s \in live
    /\ NothingRegistered(s)
    /\ live' = live \ {s}
    /\ amount' = [amount EXCEPT ![s] = 0]
    /\ UNCHANGED <<pool, registrations, now, address>>

Deposit(p, v) ==
    /\ Usable(p)
    /\ v > 0 => pool[p].staked_shares > 0
    /\ FoldedPool(p, v).index <= MaxIndex
    /\ pool' = [pool EXCEPT ![p] = FoldedPool(p, v)]
    /\ UNCHANGED <<live, amount, registrations, now, address>>

Settle(p) ==
    /\ SettleInto(p, SettledPool(p))
    /\ UNCHANGED <<live, amount, registrations, now>>

RecoverCoins(p, v) ==
    /\ Usable(p)
    /\ v \in 0..address[p].coins
    /\ address' = [address EXCEPT ![p].coins = @ - v, ![p].arriving = @ + v]
    /\ UNCHANGED <<pool, live, amount, registrations, now>>

\* The registration map with one entry added, replaced or removed.
WithDebt(s, p, d) ==
    [q \in DOMAIN registrations[s] \cup {p} |-> IF q = p THEN d ELSE registrations[s][q]]

WithoutDebt(s, p) == Restrict(registrations[s], DOMAIN registrations[s] \ {p})

RegisterStake(s, p) ==
    LET q == SettledPool(p) IN
    /\ s \in live
    /\ ~IsRegistered(s, p)
    /\ SettleInto(p, [q EXCEPT !.staked_shares = @ + amount[s]])
    /\ registrations' = [registrations EXCEPT ![s] = WithDebt(s, p, amount[s] * q.index)]
    /\ UNCHANGED <<live, amount, now>>

UnregisterStake(s, p) ==
    LET q     == SettledPool(p)
        debt  == registrations[s][p]
        value == Royalty(amount[s], debt, q.index)
    IN
    /\ IsRegistered(s, p)
    /\ debt <= amount[s] * q.index /\ value <= q.balance
    /\ SettleInto(p, [q EXCEPT !.staked_shares = @ - amount[s], !.balance = @ - value])
    /\ registrations' = [registrations EXCEPT ![s] = WithoutDebt(s, p)]
    /\ UNCHANGED <<live, amount, now>>

ClaimRoyalties(s, p) ==
    LET debt  == registrations[s][p]
        value == Royalty(amount[s], debt, pool[p].index)
    IN
    /\ IsRegistered(s, p)
    /\ debt <= amount[s] * pool[p].index /\ value <= pool[p].balance
    /\ registrations' =
         [registrations EXCEPT ![s] = WithDebt(s, p, debt + value * PRECISION)]
    /\ pool' = [pool EXCEPT ![p].balance = @ - value]
    /\ UNCHANGED <<live, amount, now, address>>

--------------------------------------------------------------------------------
(* The chain *)

RoomAt(p, v) == address[p].settled + address[p].arriving + address[p].coins + v <= MaxFunds

\* Anyone can send to the address, before the pool exists too.
SendFunds(p, v) ==
    /\ RoomAt(p, v)
    /\ address' = [address EXCEPT ![p].arriving = @ + v]
    /\ UNCHANGED <<pool, live, amount, registrations, now>>

SendCoins(p, v) ==
    /\ RoomAt(p, v)
    /\ address' = [address EXCEPT ![p].coins = @ + v]
    /\ UNCHANGED <<pool, live, amount, registrations, now>>

\* A pool cannot be dropped or kept: the transaction that creates it shares it,
\* so none is unshared when the commit ends.
NextCommit(t) ==
    /\ \A p \in Pools : pool[p].status # "unshared"
    /\ t >= now
    /\ now' = t
    /\ address' = [p \in Pools |->
                     [settled  |-> (address[p].settled - address[p].redeemed)
                                     + address[p].arriving,
                      redeemed |-> 0, arriving |-> 0, coins |-> address[p].coins]]
    /\ UNCHANGED <<pool, live, amount, registrations>>

Next ==
    \/ \E p \in Pools : New(p) \/ Share(p) \/ Settle(p)
    \/ \E s \in Stakes, n \in 1..ShareSupply : NewStake(s, n)
    \/ \E s \in Stakes : DestroyStake(s)
    \/ \E p \in Pools, v \in 0..MaxValue : Deposit(p, v)
    \/ \E p \in Pools : \E v \in 0..address[p].coins : RecoverCoins(p, v)
    \/ \E s \in Stakes, p \in Pools :
          RegisterStake(s, p) \/ UnregisterStake(s, p) \/ ClaimRoyalties(s, p)
    \/ \E p \in Pools, v \in 1..MaxValue : SendFunds(p, v) \/ SendCoins(p, v)
    \/ \E t \in 1..MaxTime : NextCommit(t)

Spec == Init /\ [][Next]_vars

--------------------------------------------------------------------------------
(* Properties *)

\* A registration always belongs to an existing stake and an existing pool, and
\* each pool's divisor counts exactly those: destroying a stake, or leaving one
\* pool, never leaves shares behind in another.
RegistrationsMatchPools ==
    /\ \A s \in Stakes : \A p \in DOMAIN registrations[s] : s \in live /\ Usable(p)
    /\ \A p \in Pools :
         pool[p].staked_shares =
           SumFunction([s \in Stakes |-> IF IsRegistered(s, p) THEN amount[s] ELSE 0])

Pool(p) == INSTANCE RoyaltyPool WITH
    balance            <- pool[p].balance,
    staked_shares      <- pool[p].staked_shares,
    index              <- pool[p].index,
    carry              <- pool[p].carry,
    last_settled_at_ms <- pool[p].last_settled_at_ms,
    registered         <- {s \in Stakes : IsRegistered(s, p)},
    debt               <- [s \in Stakes |->
                             IF IsRegistered(s, p) THEN registrations[s][p] ELSE 0],
    settled            <- address[p].settled,
    redeemed           <- address[p].redeemed,
    arriving           <- address[p].arriving,
    coins              <- address[p].coins

\* Each pool behaves as RoyaltyPool does alone: what is done at one pool, with the
\* same stakes and in the same commit, is invisible at every other.
EachPoolImplements ==
    /\ \A p \in Pools : Pool(p)!Init
    /\ [][\A p \in Pools : [Pool(p)!Next]_(Pool(p)!vars)]_vars
================================================================================
