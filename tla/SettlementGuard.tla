---------------------------- MODULE SettlementGuard ----------------------------
(***************************************************************************)
(* The timestamp guard of `settle` and the accumulator it protects, with   *)
(* the accounting left out: whether a stake is registered, whether the     *)
(* current timestamp is stamped, and where the funds sent to the pool's    *)
(* address are.  The clock is abstracted to "a new timestamp or not", so   *)
(* commits can go on for ever and liveness can be checked.                 *)
(***************************************************************************)
EXTENDS Integers

CONSTANTS
    MaxFunds,    \* bound on what waits at the address
    MaxRead      \* the most one read of the settled balance returns

ASSUME GuardAssumption == MaxFunds \in Nat /\ MaxRead \in Nat \ {0}

VARIABLES
    staked,      \* some stake is registered
    stamped,     \* last_settled_at_ms is the current timestamp
    snapshot,    \* settled funds at the start of this commit
    drawn,       \* part of them withdrawn in this commit
    incoming,    \* funds sent in this commit
    parked       \* value of the Coin objects at the address

vars == <<staked, stamped, snapshot, drawn, incoming, parked>>

Init ==
    /\ staked = FALSE /\ stamped = FALSE
    /\ snapshot \in 0..MaxFunds
    /\ drawn = 0 /\ incoming = 0 /\ parked = 0

AllOrNothingFault == IF snapshot <= MaxRead THEN snapshot ELSE 0

Available == IF snapshot < MaxRead THEN snapshot ELSE MaxRead

UnguardedFault == IF staked THEN Available ELSE 0

Drawable == IF staked /\ ~stamped THEN Available ELSE 0

\* The settle every entry point below begins with.
Attempt ==
    /\ Drawable > 0 => drawn = 0
    /\ stamped' = TRUE
    /\ drawn' = drawn + Drawable
    /\ UNCHANGED <<snapshot, incoming, parked>>

Settle     == Attempt /\ UNCHANGED staked
Register   == Attempt /\ staked' = TRUE
Unregister == Attempt /\ staked /\ staked' \in BOOLEAN

Room(v) == snapshot + incoming + parked + v <= MaxFunds

Send(v) ==
    /\ Room(v)
    /\ incoming' = incoming + v
    /\ UNCHANGED <<staked, stamped, snapshot, drawn, parked>>

Park(v) ==
    /\ Room(v)
    /\ parked' = parked + v
    /\ UNCHANGED <<staked, stamped, snapshot, drawn, incoming>>

Recover(v) ==
    /\ v \in 1..parked
    /\ parked' = parked - v
    /\ incoming' = incoming + v
    /\ UNCHANGED <<staked, stamped, snapshot, drawn>>

Commit(advance) ==
    /\ snapshot' = (snapshot - drawn) + incoming
    /\ drawn' = 0
    /\ incoming' = 0
    /\ stamped' = (stamped /\ ~advance)
    /\ UNCHANGED <<staked, parked>>

Arrival == \E v \in 1..MaxFunds : Send(v) \/ Park(v)

Next ==
    \/ Settle
    \/ Register
    \/ Unregister
    \/ Arrival
    \/ \E v \in 1..MaxFunds : Recover(v)
    \/ \E advance \in BOOLEAN : Commit(advance)

Spec == Init /\ [][Next]_vars

\* The chain keeps committing and its clock keeps advancing; somebody calls the
\* permissionless settle and recover_coins when there is something for them to do.
Fairness ==
    /\ WF_vars(Commit(TRUE))
    /\ WF_vars(Settle)
    /\ WF_vars(\E v \in 1..MaxFunds : Recover(v))

FairSpec == Spec /\ Fairness

--------------------------------------------------------------------------------
(* Properties *)

Waiting == (snapshot - drawn) + incoming + parked

\* Funds and coins at the address, whenever they came and whoever stamps the
\* timestamps first, reach the pool while a stake stays registered.
WaitingFundsReachStakers ==
    (Waiting > 0 /\ drawn = 0 /\ staked) ~> (drawn > 0 \/ ~staked)

\* Once nothing more arrives and a stake stays registered, the address is emptied,
\* in several reads if it holds more than one read returns.
QuietAddressDrains ==
    (<>[]staked /\ <>[][~Arrival]_vars) => <>[](Waiting = 0)

\* No call can be failed by another's withdraw from the same address.
NoSecondWithdraw == Drawable > 0 => drawn = 0
================================================================================
