----------------------------- MODULE MCRoutedStakes -----------------------------
(***************************************************************************)
(* TLC instance of RoutedStakes: a recording with its pool, a composition  *)
(* with its pool and a routed stake of recording shares, and a stray pool  *)
(* of composition shares that somebody derived from another object.        *)
(***************************************************************************)
EXTENDS RoutedStakes, TLC

CONSTANTS recording, composition, stray, h1, r1

MCParentOf ==
    recording :> "recording" @@ composition :> "composition" @@ stray :> "other"
      @@ r1 :> "composition"

MCShareOf ==
    recording :> "r" @@ r1 :> "r"
      @@ composition :> "c" @@ stray :> "c" @@ h1 :> "c"

MCRouteShare == r1 :> "c"

MCCurrencyOf == [p \in Pools |-> "usd"]
================================================================================
