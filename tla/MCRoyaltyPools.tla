---------------------------- MODULE MCRoyaltyPools ----------------------------
(* TLC instance of RoyaltyPools: pools and stakes are interchangeable. *)
EXTENDS RoyaltyPools, TLC

Symmetry == Permutations(Stakes) \cup Permutations(Pools)
================================================================================
