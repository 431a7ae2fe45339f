----------------------------- MODULE MCBidLedger -----------------------------
(***************************************************************************)
(* Small instances of BidLedger.  Projects are numbered in id order; the   *)
(* seeded table is the one migration 0006 leaves: a verified bid per       *)
(* sample project and an empty leadership_log.                             *)
(***************************************************************************)
EXTENDS BidLedger, TLC

CONSTANTS c1, c2, c3, c4, k1, k2, k3, k4

Settle(k, p, a) == [kind |-> "settle", project |-> p, key |-> k, amount |-> a]
Mock(k, p, a)   == [kind |-> "mock", project |-> p, key |-> k, amount |-> a]
Open(k, p, a)   == [kind |-> "open", project |-> p, key |-> k, amount |-> a]
Reversal(k)     == [kind |-> "reverse", project |-> 1, key |-> k, amount |-> 1]

\* Two live samples with a seeded bid each, a third project still absent.
Seed == k1 :> [project |-> 1, amount |-> 2, reversed |-> FALSE]
     @@ k2 :> [project |-> 2, amount |-> 2, reversed |-> FALSE]
SeedOrders == k1 :> 2 @@ k2 :> 2
SeedStatus == 1 :> "live" @@ 2 :> "live" @@ 3 :> "absent"

\* One seeded bid, and k3 is ordered (as before a webhook).
DemoSeed == k1 :> [project |-> 1, amount |-> 2, reversed |-> FALSE]
DemoOrders == k1 :> 2 @@ k3 :> 1
TwoLive == 1 :> "live" @@ 2 :> "live"

Bids == {Settle(k3, p, a) : p \in 1 .. 2, a \in 1 .. 2}

\* Production: webhook settlements, reversals by one admin, an opening.
\* Two calls race on the same key k3, across projects and amounts.
LedgerWorkload ==
     c1 :> Bids
  @@ c2 :> {Settle(k3, p, 2) : p \in 1 .. 2}
  @@ c3 :> {Reversal(k1), Reversal(k2), Reversal(k3)}
  @@ c4 :> {Open(k4, 3, 1)}

\* Two demo payments on one project, each with a key of its own.
MockWorkload ==
     c1 :> {Mock(k3, 1, 1)}
  @@ c2 :> {Mock(k4, 1, 1), Settle(k4, 1, 1)}

\* Two admins refund the same bid.
TwoAdminsWorkload == c1 :> {Reversal(k1)} @@ c2 :> {Reversal(k1)}

\* Either of these races, which lose an update; each alone shows its trace.
LostUpdateWorkload == [c \in {c1, c2} |-> MockWorkload[c] \cup TwoAdminsWorkload[c]]

\* A build with everything: demo payments, key reuse across projects on an
\* ordered intent, two refunds of one bid, an opening, moderation.
DemoWorkload ==
     c1 :> {Mock(k3, p, 1) : p \in 1 .. 2} \cup {Reversal(k1)}
  @@ c2 :> {Mock(k3, 2, 1), Settle(k3, 1, 1), Settle(k4, 2, 2)}
  @@ c3 :> {Reversal(k1), Mock(k4, 1, 1), Open(k2, 3, 1)}
=============================================================================
