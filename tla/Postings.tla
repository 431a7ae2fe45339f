------------------------------ MODULE Postings ------------------------------
(***************************************************************************)
(* Tables as functions from keys to rows, and what a table of bids adds up *)
(* to.  The key of a bid is the idempotency key of its payment intent:     *)
(* bids are unique per intent.  Sums are counted paisa by paisa, as        *)
(* cardinalities, so that facts about finite sets are all a proof needs.   *)
(***************************************************************************)
EXTENDS Integers, FiniteSets

\* A table with one more row.  A key that has a row keeps it.
Insert(table, k, newRow) ==
  [x \in DOMAIN table \cup {k} |-> IF x \in DOMAIN table THEN table[x]
                                                        ELSE newRow]

\* The bids that count for project p: its bids that are not reversed.
Counted(table, p) ==
  {k \in DOMAIN table : table[k].project = p /\ ~table[k].reversed}

\* One element for every paisa of every bid that counts for p.
Paise(table, p) ==
  UNION {{k} \X (1 .. table[k].amount) : k \in Counted(table, p)}

\* SUM(amount_paise) and COUNT(*) FILTER (NOT reversed), per project.
LedgerTotal(table, p) == Cardinality(Paise(table, p))
LedgerCount(table, p) == Cardinality(Counted(table, p))
=============================================================================
