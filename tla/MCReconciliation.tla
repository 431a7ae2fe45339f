--------------------------- MODULE MCReconciliation ---------------------------
(***************************************************************************)
(* Small instances of Reconciliation, on the seeded board of migration     *)
(* 0006 with a third project that may be opened.                           *)
(***************************************************************************)
EXTENDS Reconciliation, TLC

CONSTANTS c1, c2, c3, k1, k2, k3, k4

Settle(k, p) == [kind |-> "settle", project |-> p, key |-> k, amount |-> 1]
Mock(k, p)   == [kind |-> "mock", project |-> p, key |-> k, amount |-> 1]
Reversal(k)  == [kind |-> "reverse", project |-> 1, key |-> k, amount |-> 1]
Open(k, p)   == [kind |-> "open", project |-> p, key |-> k, amount |-> 1]

Seed == k1 :> [project |-> 1, amount |-> 2, reversed |-> FALSE]
     @@ k2 :> [project |-> 2, amount |-> 2, reversed |-> FALSE]
SeedOrders == k1 :> 2 @@ k2 :> 2
SeedStatus == 1 :> "live" @@ 2 :> "live" @@ 3 :> "absent"

\* Settlements, a reversal and an opening, which keep the totals; or two
\* refunds of one bid and a demo payment, which make a project or both drift.
EveryWorkload ==
     c1 :> {Settle(k3, 1), Reversal(k1), Mock(k3, 2)}
  @@ c2 :> {Reversal(k1)}
  @@ c3 :> {Settle(k4, 1), Settle(k4, 2), Open(k4, 3)}
=============================================================================
