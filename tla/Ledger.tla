------------------------------- MODULE Ledger -------------------------------
(***************************************************************************)
(* What the money path promises, with every operation atomic: a payment    *)
(* intent becomes at most one bid, a bid is reversed at most once, and     *)
(* each of the two moves the totals of the bid's project with it.          *)
(***************************************************************************)
EXTENDS Integers, FiniteSets, Postings

CONSTANTS
  Projects,   \* ids of the projects
  Keys,       \* idempotency keys: one per payment intent
  Amounts,    \* amounts a bid may have, in paise
  OpeningBids \* the table of bids the system starts with

VARIABLES
  bid,        \* the ledger: a table of bid rows by idempotency key
  total,      \* projects.cached_total_paise
  count       \* projects.total_bid_count

ledgerVars == <<bid, total, count>>

Init ==
  /\ bid = OpeningBids
  /\ total = [p \in Projects |-> LedgerTotal(OpeningBids, p)]
  /\ count = [p \in Projects |-> LedgerCount(OpeningBids, p)]

\* accept_bid: an intent that has no bid yet gets one, on a project.
Settle(k, p, a) ==
  /\ k \notin DOMAIN bid
  /\ bid' = Insert(bid, k, [project |-> p, amount |-> a, reversed |-> FALSE])
  /\ total' = [total EXCEPT ![p] = @ + a]
  /\ count' = [count EXCEPT ![p] = @ + 1]

\* reverse_bid: a bid that is not reversed yet is, once.
Reverse(k) ==
  /\ k \in DOMAIN bid
  /\ ~bid[k].reversed
  /\ bid' = [bid EXCEPT ![k].reversed = TRUE]
  /\ total' = [total EXCEPT ![bid[k].project] = @ - bid[k].amount]
  /\ count' = [count EXCEPT ![bid[k].project] = @ - 1]

Next ==
  \E k \in Keys :
    \/ \E p \in Projects, a \in Amounts : Settle(k, p, a)
    \/ Reverse(k)

Spec == Init /\ [][Next]_ledgerVars

=============================================================================
