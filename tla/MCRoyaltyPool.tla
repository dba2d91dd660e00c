---------------------------- MODULE MCRoyaltyPool ----------------------------
(***************************************************************************)
(* TLC instance of the pool with its indexer, against the ledger and the   *)
(* settlement guard it implements: stake identities are interchangeable.   *)
(***************************************************************************)
EXTENDS RoyaltyPoolEvents, RoyaltyPoolRefinement, TLC

Symmetry == Permutations(Stakes)
================================================================================
