------------------------------- MODULE MCSimWorld -------------------------------
(***************************************************************************)
(* TLC instance of SimWorld: a source pool, a pool that routed stakes pay  *)
(* into, an owner's stake, a routed one and a release.                     *)
(***************************************************************************)
EXTENDS SimWorld, TLC

MCCurrencyOf == [p \in PoolIds |-> "usd"]
MCSplits == {<<1, 2>>, <<1, 1>>}
Symmetry == Permutations(PoolIds) \cup Permutations(Parents)
================================================================================
