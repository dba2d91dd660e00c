------------------------- MODULE RoyaltyPoolRefinement -------------------------
(***************************************************************************)
(* RoyaltyPool implements the ledger it promises and the settlement guard. *)
(***************************************************************************)
EXTENDS RoyaltyPool

Ledger == INSTANCE RoyaltyLedger WITH
    Shares   <- 1..ShareSupply,
    Payments <- 0..(MaxValue + MaxRead),
    held     <- balance,
    share    <- RegisteredAmount,
    credit   <- Owed,
    dust     <- carry

Guard == INSTANCE SettlementGuard WITH
    staked   <- staked_shares > 0,
    stamped  <- now = last_settled_at_ms,
    snapshot <- settled,
    drawn    <- redeemed,
    incoming <- arriving,
    parked   <- coins

\* Index, debt and carry together are a credit account per registered stake:
\* shares * index - debt is the account, and each call moves the accounts of all
\* the stakes as the ledger's action does.
ImplementsLedger == Ledger!Spec

\* Settle, register and unregister use the timestamp and the accumulator as the
\* guard says, so what the guard guarantees holds of the pool.
ImplementsGuard == Guard!Spec
================================================================================
