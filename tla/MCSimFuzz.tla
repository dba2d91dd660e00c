------------------------------- MODULE MCSimFuzz -------------------------------
(***************************************************************************)
(* TLC instance of SimFuzz, with a defect that shows once a stake has left *)
(* behind others that were paid into.                                      *)
(***************************************************************************)
EXTENDS SimFuzz

MCViolating(w) == w.pools[Pool].exits > 0 /\ w.pools[Pool].balance > 0
                    /\ w.pools[Pool].staked_shares > 0
================================================================================
