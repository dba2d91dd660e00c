--------------------------- MODULE RoyaltyPoolHistory ---------------------------
(***************************************************************************)
(* RoyaltyPool with history variables, to say what a registration gets     *)
(* over its whole life and where every unit of scaled value went.  The     *)
(* history only watches: each action is the pool's own, unchanged.         *)
(***************************************************************************)
EXTENDS RoyaltyPool

VARIABLES
    joined,      \* index when the stake registered, 0 for an unregistered one
    paid,        \* currency paid to the registration so far
    since,       \* currency folded in since the stake registered
    forfeited    \* scaled residue left behind by unregistered stakes

historyVars == <<joined, paid, since, forfeited>>
hvars == <<vars, historyVars>>

HInit ==
    /\ Init
    /\ joined = [s \in Stakes |-> 0]
    /\ paid = [s \in Stakes |-> 0]
    /\ since = [s \in Stakes |-> 0]
    /\ forfeited = 0

\* What `since` becomes when v is folded in and the stakes in `leaving` go.
SinceAfter(v, leaving) ==
    [s \in Stakes |-> IF s \in registered \ leaving THEN since[s] + v ELSE 0]

\* Credit of a leaving stake that its payout does not cover.
Residue(s) ==
    (amount[s] * FoldedIndex(SettledValue) - debt[s])
      - ((balance + SettledValue) - balance') * PRECISION

HDeposit(v) ==
    /\ Deposit(v)
    /\ since' = SinceAfter(v, {})
    /\ UNCHANGED <<joined, paid, forfeited>>

HSettle ==
    /\ Settle
    /\ since' = SinceAfter(SettledValue, {})
    /\ UNCHANGED <<joined, paid, forfeited>>

HRegisterStake(s) ==
    /\ RegisterStake(s)
    /\ since' = SinceAfter(SettledValue, {})
    /\ joined' = [joined EXCEPT ![s] = FoldedIndex(SettledValue)]
    /\ UNCHANGED <<paid, forfeited>>

HUnregisterStake(s) ==
    /\ UnregisterStake(s)
    /\ since' = SinceAfter(SettledValue, {s})
    /\ joined' = [joined EXCEPT ![s] = 0]
    /\ paid' = [paid EXCEPT ![s] = 0]
    /\ forfeited' = forfeited + Residue(s)

HClaimRoyalties(s) ==
    /\ ClaimRoyalties(s)
    /\ paid' = [paid EXCEPT ![s] = @ + (balance - balance')]
    /\ UNCHANGED <<joined, since, forfeited>>

HNoAccounting ==
    /\ \/ \E s \in Stakes, n \in 1..ShareSupply : NewStake(s, n)
       \/ \E s \in Stakes : DestroyStake(s)
       \/ \E v \in 0..coins : RecoverCoins(v)
       \/ \E v \in 1..MaxValue : SendFunds(v)
       \/ \E v \in 1..MaxValue : SendCoins(v)
       \/ \E t \in 1..MaxTime : NextCommit(t)
    /\ UNCHANGED historyVars

HNext ==
    \/ \E v \in 0..MaxValue : HDeposit(v)
    \/ HSettle
    \/ \E s \in Stakes : HRegisterStake(s)
    \/ \E s \in Stakes : HUnregisterStake(s)
    \/ \E s \in Stakes : HClaimRoyalties(s)
    \/ HNoAccounting

HSpec == HInit /\ [][HNext]_hvars

--------------------------------------------------------------------------------
(* Properties *)

Entitled(s, i) == (amount[s] * (i - joined[s])) \div PRECISION

\* What a registration was paid and what it can still claim is exactly its
\* shares times the growth of the index, rounded down once, however its claims
\* were spread in between: claiming often or never gives the same total.
LifetimeExact ==
    \A s \in registered : paid[s] + Pending[s] = Entitled(s, index)

\* An exit completes that total: claims plus the unregister payout.
ExitPaysRest ==
    \A s \in registered \ registered' :
        paid[s] + ((balance + SettledValue) - balance') = Entitled(s, index')

ExitCompletesLifetime == [][ExitPaysRest]_hvars

\* The pool's balance, scaled, is what the registrations are owed, the carry and
\* the forfeited residues, to the unit: rounding neither loses nor makes value.
Conservation == balance * PRECISION = SumFunction(Owed) + carry + forfeited

\* With a supply that divides PRECISION, a holder registered throughout gets at
\* least its fraction of the supply of everything deposited meanwhile.
SupplyFloor ==
    PRECISION % ShareSupply = 0 =>
        \A s \in registered :
            paid[s] + Pending[s] >= (amount[s] * since[s]) \div ShareSupply

\* With a supply of at most PRECISION, nobody gets more than was deposited while
\* it was registered, even though a carry from before may come its way.
NoWindfall ==
    ShareSupply <= PRECISION => \A s \in registered : paid[s] + Pending[s] <= since[s]

\* Only an unregister forfeits, and less than one currency unit each time.
ForfeitsBelowUnit ==
    /\ forfeited' >= forfeited
    /\ forfeited' - forfeited < PRECISION
    /\ forfeited' # forfeited => registered \ registered' # {}

ResidueBound == [][ForfeitsBelowUnit]_hvars
================================================================================
