----------------------- MODULE ReleaseDistributionProofs -----------------------
(***************************************************************************)
(* What holds of the Release's distributor for every tracklist, supply and *)
(* width: the splits of one amount (Splitting), the invariant ReleaseInv,  *)
(* and the module's safety properties as theorems of Spec.  That remainders*)
(* come round until the Release is drained is liveness and stays with TLC. *)
(***************************************************************************)
EXTENDS ReleaseDistribution, SumTheorems

\* What the proofs use of a tracklist: its splits, one for each of finitely many
\* tracks and at least one, sum to a positive whole.
Tracklist ==
  /\ IsFiniteSet(Tracks) /\ Tracks # {} /\ Cardinality(Tracks) = Len(Splits)
  /\ Splits \in [Tracks -> Nat] /\ Splits \in [Tracks -> Int]
  /\ BPS \in Nat /\ BPS > 0 /\ SumFunction(Splits) = BPS

LEMMA SplitsAreATracklist ==
  ASSUME SplitsSumToWhole
  PROVE  Tracklist
<1>1. /\ BPS \in Nat /\ BPS > 0 /\ Len(Splits) \in Nat /\ Tracks = 1..Len(Splits)
      /\ Splits \in [1..Len(Splits) -> 0..BPS]
  BY DEF SplitsSumToWhole, Tracks
<1>2. IsFiniteSet(Tracks) /\ Cardinality(Tracks) = Len(Splits)
  <2>1. \A n \in Nat : IsFiniteSet(1..n) /\ Cardinality(1..n) = n
    <3> TAKE n \in Nat
    <3>1. 1 \in Int /\ n \in Int
      OBVIOUS
    <3>2. IsFiniteSet(1..n) /\ Cardinality(1..n) = IF 1 > n THEN 0 ELSE n - 1 + 1
      BY <3>1, FS_Interval
    <3> QED BY <3>2
  <2> QED BY <1>1, <2>1
<1>3. Splits \in [Tracks -> Nat] /\ Splits \in [Tracks -> Int]
  BY <1>1
<1>4. Len(Splits) # 0
  <2> SUFFICES ASSUME Len(Splits) = 0 PROVE FALSE
    OBVIOUS
  <2>1. \A t \in Tracks : Splits[t] = 0
    BY <1>1
  <2>2. SumFunction(Splits) = 0
    BY <1>2, <1>3, <2>1, SumZero
  <2> QED BY <1>1, <2>2 DEF SplitsSumToWhole
<1>5. Tracks # {}
  BY <1>1, <1>4
<1> QED BY <1>1, <1>2, <1>3, <1>5 DEF Tracklist, SplitsSumToWhole

\* Each track's part of an amount is a whole number of units.
LEMMA AmountsType ==
  ASSUME Tracklist, NEW total \in Nat
  PROVE  Amounts(total) \in [Tracks -> Nat] /\ Amounts(total) \in [Tracks -> Int]
<1>1. Splits \in [Tracks -> Nat] /\ BPS \in Nat /\ BPS > 0
  BY DEF Tracklist
<1>2. ASSUME NEW t \in Tracks PROVE Apply(Splits[t], total) \in Nat
  <2>1. Splits[t] \in Nat
    BY <1>1
  <2>2. total * Splits[t] \in Nat
    BY <2>1
  <2> QED BY <1>1, <2>2, Division DEF Apply
<1> QED BY <1>2 DEF Amounts

\* The splits of an amount leave a remainder of at least nothing and of less than one
\* unit per track, whatever the tracklist.
LEMMA RemainderBounds ==
  ASSUME Tracklist, NEW total \in Nat
  PROVE  /\ SumFunction(Amounts(total)) \in Nat
         /\ Remainder(total) \in 0..(Len(Splits) - 1)
<1> DEFINE scaled == [t \in Tracks |-> total * Splits[t]]
<1>1. IsFiniteSet(Tracks) /\ Tracks # {} /\ BPS \in Nat /\ BPS > 0
  BY DEF Tracklist
<1>2. Splits \in [Tracks -> Nat] /\ Splits \in [Tracks -> Int] /\ total \in Int
  BY DEF Tracklist
<1>3. scaled \in [Tracks -> Nat]
  BY <1>2
<1>4. SumFunction(scaled) = BPS * total
  <2>1. SumFunction(scaled) = total * SumFunction(Splits)
    BY <1>1, <1>2, SumScale
  <2>2. total * BPS = BPS * total
    BY <1>1
  <2> QED BY <2>1, <2>2 DEF Tracklist
<1>5. Amounts(total) = [t \in Tracks |-> scaled[t] \div BPS]
  BY DEF Amounts, Apply
<1> HIDE DEF scaled
<1> DEFINE parts == [t \in Tracks |-> scaled[t] \div BPS]
<1>6. SumFunction(parts) \in Nat /\ total - SumFunction(parts) \in 0..(Cardinality(Tracks) - 1)
  BY <1>1, <1>3, <1>4, RoundedParts
<1> HIDE DEF parts
<1>7. Cardinality(Tracks) = Len(Splits)
  BY DEF Tracklist
<1> QED BY <1>5, <1>6, <1>7 DEF Remainder, parts

\* A track with the larger split never gets less of the same amount.
LEMMA AmountsMonotonic ==
  ASSUME Tracklist, NEW total \in Nat, NEW t \in Tracks, NEW u \in Tracks,
         Splits[t] <= Splits[u]
  PROVE  Amounts(total)[t] <= Amounts(total)[u]
<1> DEFINE q    == Amounts(total)[t]
           low  == total * Splits[t]
           high == total * Splits[u]
<1>1. BPS \in Nat /\ BPS > 0 /\ Splits[t] \in Nat /\ Splits[u] \in Nat
  BY DEF Tracklist
<1>2. low \in Nat /\ high \in Nat /\ low <= high
  BY <1>1
<1>3. q = low \div BPS /\ Amounts(total)[u] = high \div BPS /\ q \in Nat
  BY AmountsType DEF Amounts, Apply
<1> HIDE DEF q, low, high
<1>4. q * BPS <= low /\ q * BPS \in Nat
  BY <1>1, <1>2, <1>3, DivisionFloor
<1>5. q \in Nat
  BY <1>3
<1>6. q <= high \div BPS
  BY <1>1, <1>2, <1>4, <1>5, QuotientAtLeast
<1> QED BY <1>3, <1>6 DEF q

--------------------------------------------------------------------------------
(* The invariant *)

Accounts == [settled : Nat, redeemed : Nat, arriving : Nat, coins : Nat]

\* Conservation and LargerSplitNeverBehind with the ranges their steps need.
ReleaseInv ==
  /\ release \in Accounts /\ release.redeemed <= release.settled
  /\ received \in [Recordings -> Int]
  /\ outside \in Nat
  /\ credited \in [Tracks -> Nat]
  /\ Conservation
  /\ LargerSplitNeverBehind

\* A distribution of `total`, given that `from` is the Release without it: the parts go
\* to the tracks and, track by track, to their recordings.
LEMMA DistributeStep ==
  ASSUME Tracklist, ReleaseInv, NEW total \in Nat, NEW from \in Accounts,
         from.redeemed <= from.settled, from.arriving = release.arriving,
         (from.settled - from.redeemed) + from.arriving + from.coins = Held - total,
         Distribute(from, total)
  PROVE  ReleaseInv' /\ SmallRemainder
<1> DEFINE A == Amounts(total)
           R == Remainder(total)
           G == [r \in Recordings |-> SumFunctionOnSet(A, {t \in Tracks : RecordingOf[t] = r})]
<1>1. IsFiniteSet(Tracks) /\ A \in [Tracks -> Nat] /\ A \in [Tracks -> Int]
  BY AmountsType DEF Tracklist
<1>0. R \in 0..(Len(Splits) - 1) /\ Len(Splits) \in Nat
  BY <1>1, RemainderBounds, FS_CardinalityType DEF Tracklist
<1>2. R \in Nat /\ SumFunction(A) \in Nat /\ R = total - SumFunction(A)
  BY <1>0, RemainderBounds DEF Remainder
<1>3. IsFiniteSet(Recordings) /\ \A t \in Tracks : RecordingOf[t] \in Recordings
  <2> DEFINE k == [t \in Tracks |-> RecordingOf[t]]
  <2>1. k \in Surjection(Tracks, Recordings)
    BY DEF Surjection, Recordings
  <2> HIDE DEF k
  <2>2. IsFiniteSet(Recordings)
    BY <1>1, <2>1, FS_Surjection
  <2> QED BY <2>2 DEF Recordings
<1>4. G \in [Recordings -> Int] /\ SumFunction(G) = SumFunction(A)
  <2> HIDE DEF A
  <2> QED BY <1>1, <1>3, SumByGroup
<1>5. /\ received' = [r \in Recordings |-> received[r] + G[r]]
      /\ credited' = [t \in Tracks |-> credited[t] + A[t]]
      /\ release' = [from EXCEPT !.arriving = @ + R]
      /\ outside' = outside
  BY DEF Distribute
<1> HIDE DEF A, G, R
<1>6. /\ release' \in Accounts /\ release'.redeemed <= release'.settled
      /\ release'.settled = from.settled /\ release'.redeemed = from.redeemed
      /\ release'.arriving = from.arriving + R /\ release'.coins = from.coins
  <2> DEFINE next == [from EXCEPT !.arriving = @ + R]
  <2>1. /\ next \in Accounts /\ next.redeemed <= next.settled
        /\ next.settled = from.settled /\ next.redeemed = from.redeemed
        /\ next.arriving = from.arriving + R /\ next.coins = from.coins
    BY <1>2 DEF Accounts
  <2>2. release' = next
    BY <1>5
  <2> HIDE DEF next
  <2> QED BY <2>1, <2>2
<1>7. /\ credited' \in [Tracks -> Nat]
      /\ SumFunction(credited') = SumFunction(credited) + SumFunction(A)
  <2>1. credited \in [Tracks -> Int] /\ credited' \in [Tracks -> Nat]
        /\ credited' \in [Tracks -> Int]
    BY <1>1, <1>5 DEF ReleaseInv
  <2>2. \A t \in Tracks : A[t] = credited'[t] - credited[t]
    BY <1>1, <1>5, <2>1
  <2>3. SumFunction(A) = SumFunction(credited') - SumFunction(credited)
    BY <1>1, <2>1, <2>2, SumDifference
  <2>4. SumFunction(credited) \in Int /\ SumFunction(credited') \in Int
    BY <1>1, <2>1, SumType
  <2> QED BY <2>1, <2>3, <2>4
<1>8. /\ received' \in [Recordings -> Int]
      /\ SumFunction(received') = SumFunction(received) + SumFunction(A)
  <2>1. received \in [Recordings -> Int] /\ received' \in [Recordings -> Int]
    BY <1>4, <1>5 DEF ReleaseInv
  <2>2. \A r \in Recordings : G[r] = received'[r] - received[r]
    BY <1>4, <1>5, <2>1
  <2>3. SumFunction(G) = SumFunction(received') - SumFunction(received)
    BY <1>3, <1>4, <2>1, <2>2, SumDifference
  <2>4. SumFunction(received) \in Int /\ SumFunction(received') \in Int
    BY <1>3, <2>1, SumType
  <2> QED BY <1>4, <2>1, <2>3, <2>4
<1>9. SumFunction(received) \in Int /\ SumFunction(credited) \in Int
  <2>1. received \in [Recordings -> Int] /\ credited \in [Tracks -> Int]
    BY DEF ReleaseInv
  <2> QED BY <1>1, <1>3, <2>1, SumType
<1>10. Held' = Held - total + R /\ Held \in Int
  <2>1. Held' = (release'.settled - release'.redeemed) + release'.arriving + release'.coins
    BY DEF Held, Waiting
  <2>2. Held \in Int
    BY DEF Held, Waiting, ReleaseInv, Accounts
  <2>3. /\ from.settled \in Nat /\ from.redeemed \in Nat /\ from.arriving \in Nat
        /\ from.coins \in Nat
    BY DEF Accounts
  <2>4. Held' = (from.settled - from.redeemed) + (from.arriving + R) + from.coins
    BY <1>6, <2>1
  <2>5. Held' = ((from.settled - from.redeemed) + from.arriving + from.coins) + R
    BY <1>2, <2>3, <2>4
  <2> QED BY <2>2, <2>5
<1>11. Conservation'
  <2>1. outside + Held + SumFunction(received) = Supply
        /\ SumFunction(received) = SumFunction(credited) /\ outside \in Nat
    BY DEF ReleaseInv, Conservation
  <2>2. outside' + Held' + SumFunction(received') = Supply
    BY <1>2, <1>5, <1>8, <1>9, <1>10, <2>1
  <2>3. SumFunction(received') = SumFunction(credited')
    BY <1>7, <1>8, <2>1
  <2> QED BY <2>2, <2>3 DEF Conservation
<1>12. LargerSplitNeverBehind'
  <2> SUFFICES ASSUME NEW t \in Tracks, NEW u \in Tracks, Splits[t] <= Splits[u]
               PROVE  credited'[t] <= credited'[u]
    BY DEF LargerSplitNeverBehind
  <2>1. credited[t] <= credited[u] /\ credited[t] \in Nat /\ credited[u] \in Nat
    BY DEF ReleaseInv, LargerSplitNeverBehind
  <2>2. A[t] <= A[u] /\ A[t] \in Nat /\ A[u] \in Nat
    BY <1>1, AmountsMonotonic DEF A
  <2> QED BY <1>5, <2>1, <2>2
<1>13. SmallRemainder
  <2>1. from.arriving \in Nat /\ release'.arriving - release.arriving = R
    BY <1>2, <1>6 DEF Accounts
  <2> QED BY <1>0, <2>1 DEF SmallRemainder
<1>14. outside' \in Nat
  BY <1>5 DEF ReleaseInv
<1> QED BY <1>6, <1>7, <1>8, <1>11, <1>12, <1>13, <1>14 DEF ReleaseInv

\* Both entry points that redeem, and the one that receives a coin.
LEMMA RedeemStep ==
  ASSUME Tracklist, ReleaseInv, NEW value \in Nat, RedeemAndDistribute(value)
  PROVE  ReleaseInv' /\ SmallRemainder
<1> DEFINE from == [release EXCEPT !.redeemed = @ + value]
<1>1. release \in Accounts /\ release.redeemed <= release.settled /\ value <= Waiting
  BY DEF ReleaseInv, RedeemAndDistribute
<1>2. /\ from \in Accounts /\ from.redeemed <= from.settled
      /\ from.arriving = release.arriving
      /\ (from.settled - from.redeemed) + from.arriving + from.coins = Held - value
  BY <1>1 DEF Accounts, Held, Waiting
<1>3. Distribute(from, value)
  BY DEF RedeemAndDistribute
<1> HIDE DEF from
<1> QED BY <1>2, <1>3, DistributeStep

LEMMA ReceiveStep ==
  ASSUME Tracklist, ReleaseInv, NEW value \in Nat, ReceiveAndDistribute(value)
  PROVE  ReleaseInv' /\ SmallRemainder
<1> DEFINE from == WithoutCoins(value)
<1>1. release \in Accounts /\ release.redeemed <= release.settled
      /\ value \in 1..release.coins
  BY DEF ReleaseInv, ReceiveAndDistribute
<1>2. /\ from \in Accounts /\ from.redeemed <= from.settled
      /\ from.arriving = release.arriving
      /\ (from.settled - from.redeemed) + from.arriving + from.coins = Held - value
  BY <1>1 DEF Accounts, Held, Waiting, WithoutCoins
<1>3. Distribute(from, value)
  BY DEF ReceiveAndDistribute
<1> HIDE DEF from
<1> QED BY <1>2, <1>3, DistributeStep

\* What payers and commits do leaves the recordings and the tracks alone.
LEMMA QuietStep ==
  ASSUME ReleaseInv, release' \in Accounts, release'.redeemed <= release'.settled,
         outside' \in Nat, outside' + Held' = outside + Held, UNCHANGED <<received, credited>>
  PROVE  ReleaseInv'
<1>1. LargerSplitNeverBehind'
  BY DEF ReleaseInv, LargerSplitNeverBehind
<1>2. Conservation'
  BY DEF ReleaseInv, Conservation
<1> QED BY <1>1, <1>2 DEF ReleaseInv

LEMMA InitReleaseInv ==
  ASSUME Tracklist, AmountsAreUnsigned, Init
  PROVE  ReleaseInv
<1>1. release \in Accounts /\ release.redeemed <= release.settled /\ Held = 0
  BY DEF Init, Accounts, Held, Waiting
<1>2. /\ received \in [Recordings -> Int] /\ (\A r \in Recordings : received[r] = 0)
      /\ credited \in [Tracks -> Nat] /\ credited \in [Tracks -> Int]
      /\ \A t \in Tracks : credited[t] = 0
  BY DEF Init
<1>3. IsFiniteSet(Tracks) /\ IsFiniteSet(Recordings)
  <2> DEFINE k == [t \in Tracks |-> RecordingOf[t]]
  <2>1. k \in Surjection(Tracks, Recordings)
    BY DEF Surjection, Recordings
  <2> HIDE DEF k
  <2> QED BY <2>1, FS_Surjection DEF Tracklist
<1>4. SumFunction(received) = 0 /\ SumFunction(credited) = 0
  BY <1>2, <1>3, SumZero
<1>5. outside = Supply /\ outside \in Nat
  BY DEF Init, AmountsAreUnsigned
<1>6. Conservation
  BY <1>1, <1>4, <1>5 DEF Conservation
<1>7. LargerSplitNeverBehind
  BY <1>2 DEF LargerSplitNeverBehind
<1> QED BY <1>1, <1>2, <1>5, <1>6, <1>7 DEF ReleaseInv

LEMMA NextReleaseInv ==
  ASSUME Tracklist, AmountsAreUnsigned, ReleaseInv, [Next]_vars
  PROVE  ReleaseInv'
<1>t. /\ release.settled \in Nat /\ release.redeemed \in Nat /\ release.arriving \in Nat
      /\ release.coins \in Nat /\ release.redeemed <= release.settled
      /\ release \in Accounts /\ outside \in Nat /\ Supply \in Nat /\ MaxU64 \in Nat
  BY DEF ReleaseInv, Accounts, AmountsAreUnsigned
<1>1. ASSUME NEW v \in 1..Supply, RedeemAndDistribute(v) PROVE ReleaseInv'
  BY <1>t, <1>1, RedeemStep
<1>2. CASE RedeemAllAndDistribute
  <2>1. SettledFundsValue \in Nat
    <3>1. \E m \in {release.settled, MaxU64} : \A n \in {release.settled, MaxU64} : m <= n
      BY <1>t
    <3>2. SettledFundsValue \in {release.settled, MaxU64}
      BY <3>1 DEF SettledFundsValue, Min
    <3> QED BY <1>t, <3>2
  <2> QED BY <1>2, <2>1, RedeemStep DEF RedeemAllAndDistribute
<1>3. ASSUME NEW v \in 1..Supply, ReceiveAndDistribute(v) PROVE ReleaseInv'
  BY <1>t, <1>3, ReceiveStep
<1>4. ASSUME NEW v \in 1..Supply, SendFunds(v) PROVE ReleaseInv'
  <2>1. /\ release' \in Accounts /\ release'.redeemed <= release'.settled
        /\ outside' \in Nat /\ outside' + Held' = outside + Held
        /\ UNCHANGED <<received, credited>>
    BY <1>t, <1>4 DEF SendFunds, Accounts, Held, Waiting
  <2> QED BY <2>1, QuietStep
<1>5. ASSUME NEW v \in 1..Supply, SendCoins(v) PROVE ReleaseInv'
  <2>1. /\ release' \in Accounts /\ release'.redeemed <= release'.settled
        /\ outside' \in Nat /\ outside' + Held' = outside + Held
        /\ UNCHANGED <<received, credited>>
    BY <1>t, <1>5 DEF SendCoins, Accounts, Held, Waiting
  <2> QED BY <2>1, QuietStep
<1>6. CASE NextCommit
  <2>1. /\ release' \in Accounts /\ release'.redeemed <= release'.settled
        /\ outside' \in Nat /\ outside' + Held' = outside + Held
        /\ UNCHANGED <<received, credited>>
    BY <1>t, <1>6 DEF NextCommit, Accounts, Held, Waiting
  <2> QED BY <2>1, QuietStep
<1>7. CASE UNCHANGED vars
  <2>1. /\ release' \in Accounts /\ release'.redeemed <= release'.settled
        /\ outside' \in Nat /\ outside' + Held' = outside + Held
        /\ UNCHANGED <<received, credited>>
    BY <1>t, <1>7 DEF vars, Held, Waiting
  <2> QED BY <2>1, QuietStep
<1> QED BY <1>1, <1>2, <1>3, <1>4, <1>5, <1>6, <1>7 DEF Next

--------------------------------------------------------------------------------
(* The theorems *)

\* The three entry points and the chain keep the money in place and the credits in the
\* order of the splits, in every reachable state.
THEOREM ReleaseInvariant == Spec => []ReleaseInv
<1>1. Tracklist
  BY SplitsAreATracklist, SplitsSumToWhole
<1>2. Init => ReleaseInv
  BY <1>1, InitReleaseInv, AmountsAreUnsigned
<1>3. ReleaseInv /\ [Next]_vars => ReleaseInv'
  BY <1>1, NextReleaseInv, AmountsAreUnsigned
<1> QED BY <1>2, <1>3, PTL DEF Spec

\* Whatever the tracklist, its recordings and the calls: a Release's revenue is with a
\* payer, at the Release or at a recording, and each recording has what its tracks got.
THEOREM RevenueConserved == Spec => []Conservation
<1>1. ReleaseInv => Conservation
  BY DEF ReleaseInv
<1> QED BY <1>1, ReleaseInvariant, PTL

\* No cutting of the revenue into calls lets a track overtake one with a larger split.
THEOREM NoTrackOvertakes == Spec => []LargerSplitNeverBehind
<1>1. ReleaseInv => LargerSplitNeverBehind
  BY DEF ReleaseInv
<1> QED BY <1>1, ReleaseInvariant, PTL

\* Every distribution hands on all but less than one unit per track.
THEOREM RemainderStaysSmall == Spec => RemainderBelowTracks
<1>1. Tracklist
  BY SplitsAreATracklist, SplitsSumToWhole
<1>2. ReleaseInv /\ [Next]_vars => [Distribution => SmallRemainder]_vars
  <2> SUFFICES ASSUME ReleaseInv, Distribution
               PROVE  SmallRemainder
    OBVIOUS
  <2>1. PICK v \in 1..Supply : RedeemAndDistribute(v) \/ ReceiveAndDistribute(v)
    BY DEF Distribution
  <2>2. v \in Nat
    BY AmountsAreUnsigned
  <2> QED BY <1>1, <2>1, <2>2, RedeemStep, ReceiveStep
<1> QED BY <1>2, ReleaseInvariant, PTL DEF Spec, RemainderBelowTracks
================================================================================
