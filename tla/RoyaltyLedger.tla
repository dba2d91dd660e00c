----------------------------- MODULE RoyaltyLedger -----------------------------
(***************************************************************************)
(* What a RoyaltyPool promises its holders, with no index and no debt: a   *)
(* ledger with one credit account per member.  A payment is divided among  *)
(* the members of the moment by their shares, at the highest whole rate    *)
(* the payment and the dust of earlier ones allow.  The pool does in O(1)  *)
(* what this does by writing to every account.                             *)
(***************************************************************************)
EXTENDS Integers, FiniteSets, Functions

CONSTANTS
    Stakes,
    PRECISION,   \* accounts are kept in 1/PRECISION of a currency unit
    Shares,      \* the amounts a member may join with
    Payments     \* the payments that may be divided, 0 among them

VARIABLES
    held,        \* currency in the ledger
    share,       \* shares of each member, 0 for who is not one
    credit,      \* account of each member
    dust         \* what the last division left over

vars == <<held, share, credit, dust>>

Init ==
    /\ held = 0
    /\ share = [s \in Stakes |-> 0]
    /\ credit = [s \in Stakes |-> 0]
    /\ dust = 0

Total == SumFunction(share)

Rate(v) == IF v = 0 THEN 0 ELSE (v * PRECISION + dust) \div Total

Credited(v) == [s \in Stakes |-> credit[s] + share[s] * Rate(v)]

\* Division of v among the members, the first part of every action below.
Divide(v) ==
    /\ v > 0 => Total > 0
    /\ dust' = IF v = 0 THEN dust ELSE (v * PRECISION + dust) % Total

Distribute(v) ==
    /\ Divide(v)
    /\ credit' = Credited(v)
    /\ held' = held + v
    /\ UNCHANGED share

\* A member joins after the division, with an empty account.
Join(s, n, v) ==
    /\ share[s] = 0
    /\ Divide(v)
    /\ credit' = Credited(v)
    /\ share' = [share EXCEPT ![s] = n]
    /\ held' = held + v

\* A member leaves with the whole units of its account.
Leave(s, v) ==
    /\ share[s] > 0
    /\ Divide(v)
    /\ held' = (held + v) - (Credited(v)[s] \div PRECISION)
    /\ credit' = [Credited(v) EXCEPT ![s] = 0]
    /\ share' = [share EXCEPT ![s] = 0]

\* A member takes the whole units and keeps the fraction.
Withdraw(s) ==
    /\ share[s] > 0
    /\ held' = held - (credit[s] \div PRECISION)
    /\ credit' = [credit EXCEPT ![s] = @ % PRECISION]
    /\ UNCHANGED <<share, dust>>

Next ==
    \/ \E v \in Payments : Distribute(v)
    \/ \E s \in Stakes, n \in Shares, v \in Payments : Join(s, n, v)
    \/ \E s \in Stakes, v \in Payments : Leave(s, v)
    \/ \E s \in Stakes : Withdraw(s)

Spec == Init /\ [][Next]_vars
================================================================================
