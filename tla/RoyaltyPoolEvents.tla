--------------------------- MODULE RoyaltyPoolEvents ---------------------------
(***************************************************************************)
(* The events the pool and its stakes emit, and an indexer that sees       *)
(* nothing else: README "Event schemas" says such an indexer can rebuild   *)
(* every pool and stake.  Each action is RoyaltyPool's with the events its *)
(* handler emits, in the handler's order; the indexer folds them in.       *)
(***************************************************************************)
EXTENDS RoyaltyPool, Sequences

VARIABLE replica    \* what the indexer has rebuilt

evars == <<vars, replica>>

\* A new pool starts with zero balance, staked shares and index, no stake exists.
EmptyReplica ==
    [balance |-> 0, staked_shares |-> 0, index |-> 0, live |-> {}, registered |-> {},
     amount |-> [s \in Stakes |-> 0], debt |-> [s \in Stakes |-> 0]]

--------------------------------------------------------------------------------
(* Events *)

IndexBeforeFault(v) ==
    IF v = 0 THEN <<>>
    ELSE <<[type |-> "deposited", value |-> v, balance |-> balance + v, index |-> index]>>

\* fold emits this after it has moved the index and joined the balance.
Deposited(v) ==
    IF v = 0 THEN <<>>
    ELSE <<[type |-> "deposited", value |-> v, balance |-> balance + v,
            index |-> FoldedIndex(v)]>>

StakeCreated(s, n) == <<[type |-> "created", stake |-> s, amount |-> n]>>

StakeDestroyed(s) == <<[type |-> "destroyed", stake |-> s, amount |-> amount[s]]>>

Registered(s) ==
    <<[type |-> "registered", stake |-> s, amount |-> amount[s],
       staked_shares |-> staked_shares']>>

Unregistered(s, value) ==
    <<[type |-> "unregistered", stake |-> s, amount |-> amount[s], value |-> value,
       balance |-> balance', staked_shares |-> staked_shares']>>

\* A claim of nothing returns before the event.
Claimed(s, value) ==
    IF value = 0 THEN <<>>
    ELSE <<[type |-> "claimed", stake |-> s, value |-> value, balance |-> balance']>>

--------------------------------------------------------------------------------
(* The indexer: how one event changes what it has rebuilt *)

ApplyCreated(r, e) ==
    [r EXCEPT !.live = @ \cup {e.stake}, !.amount[e.stake] = e.amount]

ApplyDestroyed(r, e) ==
    [r EXCEPT !.live = @ \ {e.stake}, !.amount[e.stake] = 0]

ApplyDeposited(r, e) == [r EXCEPT !.balance = e.balance, !.index = e.index]

\* The debt is derived: the amount times the index of the latest deposit event.
ApplyRegistered(r, e) ==
    [r EXCEPT !.registered = @ \cup {e.stake}, !.staked_shares = e.staked_shares,
              !.debt[e.stake] = e.amount * r.index]

ApplyUnregistered(r, e) ==
    [r EXCEPT !.registered = @ \ {e.stake}, !.staked_shares = e.staked_shares,
              !.balance = e.balance, !.debt[e.stake] = 0]

ApplyClaimed(r, e) ==
    [r EXCEPT !.balance = e.balance, !.debt[e.stake] = @ + e.value * PRECISION]

Apply(r, e) ==
    CASE e.type = "created"      -> ApplyCreated(r, e)
      [] e.type = "destroyed"    -> ApplyDestroyed(r, e)
      [] e.type = "deposited"    -> ApplyDeposited(r, e)
      [] e.type = "registered"   -> ApplyRegistered(r, e)
      [] e.type = "unregistered" -> ApplyUnregistered(r, e)
      [] e.type = "claimed"      -> ApplyClaimed(r, e)

\* No handler emits more than two events.
ApplyAll(r, events) ==
    CASE Len(events) = 0 -> r
      [] Len(events) = 1 -> Apply(r, events[1])
      [] Len(events) = 2 -> Apply(Apply(r, events[1]), events[2])

Emits(events) == replica' = ApplyAll(replica, events)

--------------------------------------------------------------------------------
ENewStake(s, n)     == NewStake(s, n) /\ Emits(StakeCreated(s, n))
EDestroyStake(s)    == DestroyStake(s) /\ Emits(StakeDestroyed(s))
EDeposit(v)         == Deposit(v) /\ Emits(Deposited(v))
ESettle             == Settle /\ Emits(Deposited(SettledValue))
ERegisterStake(s)   ==
    RegisterStake(s) /\ Emits(Deposited(SettledValue) \o Registered(s))
EUnregisterStake(s) ==
    /\ UnregisterStake(s)
    /\ Emits(Deposited(SettledValue)
               \o Unregistered(s, ExitValue(s)))
EClaimRoyalties(s)  ==
    ClaimRoyalties(s) /\ Emits(Claimed(s, ClaimValue(s)))

ESilent ==
    /\ \/ \E v \in 0..coins : RecoverCoins(v)
       \/ \E v \in 1..MaxValue : SendFunds(v)
       \/ \E v \in 1..MaxValue : SendCoins(v)
       \/ \E t \in 1..MaxTime : NextCommit(t)
    /\ UNCHANGED replica

ENext ==
    \/ \E s \in Stakes, n \in 1..ShareSupply : ENewStake(s, n)
    \/ \E s \in Stakes : EDestroyStake(s)
    \/ \E v \in 0..MaxValue : EDeposit(v)
    \/ ESettle
    \/ \E s \in Stakes : ERegisterStake(s)
    \/ \E s \in Stakes : EUnregisterStake(s)
    \/ \E s \in Stakes : EClaimRoyalties(s)
    \/ ESilent

EInit == Init /\ replica = EmptyReplica

ESpec == EInit /\ [][ENext]_evars

--------------------------------------------------------------------------------
(* Properties *)

\* The events alone give the pool and every stake, down to the debts nobody emits.
ReplicaExact ==
    replica = [balance |-> balance, staked_shares |-> staked_shares, index |-> index,
               live |-> live, registered |-> registered, amount |-> amount, debt |-> debt]
================================================================================
