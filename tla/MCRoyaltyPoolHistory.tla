------------------------- MODULE MCRoyaltyPoolHistory -------------------------
(* TLC instance of RoyaltyPoolHistory: stake identities are interchangeable. *)
EXTENDS RoyaltyPoolHistory, TLC

Symmetry == Permutations(Stakes)
================================================================================
