-------------------------- MODULE ReleaseDistribution --------------------------
(***************************************************************************)
(* release_revenue_distributor, the audit's payer of the pools: it splits  *)
(* a Release's revenue over its tracklist, each track's part rounded down, *)
(* and sends the remainder back to the Release's own address, where a      *)
(* later call takes it up again.  The admin cap is the caller's right to   *)
(* act and is not modelled; events are left out.                           *)
(***************************************************************************)
EXTENDS Integers, Sequences, FiniteSetsExt, Functions

CONSTANTS
    Splits,        \* the tracklist: basis points of each track
    RecordingOf,   \* the recording of each track; two tracks may share one
    BPS,           \* basis points in a whole, 10,000
    MaxU64,        \* the most that one settled read returns
    Supply         \* currency in the world

Tracks == DOMAIN Splits

ASSUME SplitsSumToWhole ==
    /\ BPS \in Nat \ {0}
    /\ Splits \in Seq(0..BPS)
    /\ SumFunction(Splits) = BPS

ASSUME AmountsAreUnsigned == MaxU64 \in Nat /\ Supply \in Nat

VARIABLES
    release,       \* funds and coins at the Release's address
    received,      \* sent to each recording's address
    outside,       \* currency still with payers
    credited       \* history: what each track was sent

vars == <<release, received, outside, credited>>

Recordings == {RecordingOf[t] : t \in Tracks}

Init ==
    /\ release = [settled |-> 0, redeemed |-> 0, arriving |-> 0, coins |-> 0]
    /\ received = [r \in Recordings |-> 0]
    /\ outside = Supply
    /\ credited = [t \in Tracks |-> 0]

Waiting == release.settled - release.redeemed
Held == Waiting + release.arriving + release.coins

DivideFirstFault(rate, amount) == (amount \div BPS) * rate

\* bps::apply.
Apply(rate, amount) == (amount * rate) \div BPS

OfWhatIsLeftFault(total) ==
    LET left[t \in 0..Len(Splits)] ==
            IF t = 0 THEN total ELSE left[t - 1] - Apply(Splits[t], left[t - 1])
    IN  [t \in Tracks |-> Apply(Splits[t], left[t - 1])]

\* Every split is of the whole input, not of what the tracks before it left.
Amounts(total) == [t \in Tracks |-> Apply(Splits[t], total)]

KeptFault(total) == 0

\* What is left of the balance after every split, sent back to the Release.
Remainder(total) == total - SumFunction(Amounts(total))

\* distribute; from is the Release's address once the revenue was taken from it.
Distribute(from, total) ==
    /\ received' =
         [r \in Recordings |->
             received[r] + SumFunctionOnSet(Amounts(total), {t \in Tracks : RecordingOf[t] = r})]
    /\ credited' = [t \in Tracks |-> credited[t] + Amounts(total)[t]]
    /\ release' = [from EXCEPT !.arriving = @ + Remainder(total)]
    /\ UNCHANGED outside

\* The accumulator fails a withdraw beyond what is settled and not yet redeemed.
RedeemAndDistribute(value) ==
    /\ value > 0
    /\ value <= Waiting
    /\ Distribute([release EXCEPT !.redeemed = @ + value], value)

AllOrNothingFault == IF release.settled > MaxU64 THEN 0 ELSE release.settled

\* The framework's snapshot: what was settled at the commit's start, capped.
SettledFundsValue == Min({release.settled, MaxU64})

\* A zero snapshot is a no-op.
RedeemAllAndDistribute == RedeemAndDistribute(SettledFundsValue)

WithoutCoins(value) == [release EXCEPT !.coins = @ - value]

ReceiveAndDistribute(value) ==
    /\ value \in 1..release.coins
    /\ Distribute(WithoutCoins(value), value)

ReceiveAllAndDistribute ==
    \E v \in 1..Supply : v = release.coins /\ ReceiveAndDistribute(v)

SendFunds(v) ==
    /\ v <= outside
    /\ outside' = outside - v
    /\ release' = [release EXCEPT !.arriving = @ + v]
    /\ UNCHANGED <<received, credited>>

SendCoins(v) ==
    /\ v <= outside
    /\ outside' = outside - v
    /\ release' = [release EXCEPT !.coins = @ + v]
    /\ UNCHANGED <<received, credited>>

NextCommit ==
    /\ release' = [settled |-> Waiting + release.arriving, redeemed |-> 0,
                   arriving |-> 0, coins |-> release.coins]
    /\ UNCHANGED <<received, outside, credited>>

Next ==
    \/ \E v \in 1..Supply : RedeemAndDistribute(v)
    \/ RedeemAllAndDistribute
    \/ \E v \in 1..Supply : ReceiveAndDistribute(v)
    \/ \E v \in 1..Supply : SendFunds(v)
    \/ \E v \in 1..Supply : SendCoins(v)
    \/ NextCommit

\* Commits go on, somebody turns the crank while it would take something, and
\* delivered coins are received; a partial redeem cannot be relied on.
Fairness ==
    /\ WF_vars(NextCommit)
    /\ SF_vars(RedeemAllAndDistribute)
    /\ WF_vars(ReceiveAllAndDistribute)

Spec == Init /\ [][Next]_vars /\ Fairness

--------------------------------------------------------------------------------
(* Properties *)

\* Revenue is neither made nor lost, however it is cut into calls and however often
\* its remainder comes round: it is with a payer, at the Release or at a recording,
\* and a recording has what its tracks were sent.
Conservation ==
    /\ outside + Held + SumFunction(received) = Supply
    /\ SumFunction(received) = SumFunction(credited)

\* No call can turn the tracklist around: a track with the larger split was never
\* sent less, over any sequence of calls with any fragments and remainders.
LargerSplitNeverBehind ==
    \A t, u \in Tracks : Splits[t] <= Splits[u] => credited[t] <= credited[u]

\* A distribution sends back less than one unit per track, whatever was redeemed.
Distribution == \E v \in 1..Supply : RedeemAndDistribute(v) \/ ReceiveAndDistribute(v)
SmallRemainder == release'.arriving - release.arriving < Len(Splits)

RemainderBelowTracks == [][Distribution => SmallRemainder]_vars

\* What no track's split rounds to a unit of.
Dust == {n \in 0..Supply : \A t \in Tracks : Amounts(n)[t] = 0}

\* Under the crank, once payers are done a Release ends up with no more than what no
\* track's split of it rounds to a unit: remainders come round and do not pile up.
QuietReleaseDrains == <>[](Held \in Dust)
================================================================================
