-------------------------- MODULE RoyaltyPoolNewcomer --------------------------
(***************************************************************************)
(* Who gets the funds that wait at the address when a stake registers.     *)
(* README "Settlement guard": "Registering settles first, so funds already *)
(* waiting go to the stakes registered before the newcomer."               *)
(***************************************************************************)
EXTENDS RoyaltyPool, TLC

Symmetry == Permutations(Stakes)

\* Settled funds at the address that no settle has taken.
Waiting == settled - redeemed

\* When a stake joins others, none of the settled funds still wait: the settle
\* in register_stake has given them to the stakes registered before it.
NoneLeftForNewcomer ==
    registered' \ registered # {} /\ staked_shares > 0 => Waiting' = 0

\* README's sentence about register_stake, for every register of every behaviour.
WaitingGoToEarlierStakes == [][NoneLeftForNewcomer]_vars
================================================================================
