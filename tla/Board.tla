--------------------------------- MODULE Board ---------------------------------
(***************************************************************************)
(* What people see of the ledger and what they are asked to pay: the board *)
(* that _compute_leaderboard puts together from several statements while   *)
(* calls go on committing, and the amounts the pages propose for taking    *)
(* the lead.                                                               *)
(*                                                                         *)
(* A board is computed for a GET, in a session of its own, or by a call of *)
(* BidLedger that has settled or reversed a bid, in the session of that    *)
(* call: a settlement's keeps the columns of its own project as it last    *)
(* loaded them.  A project's page is another GET, of its row and its bids. *)
(* Reading changes nothing for anybody else, so one reader stands for all  *)
(* of them.                                                                *)
(***************************************************************************)
EXTENDS BidLedger

CONSTANTS
  Visitor,   \* a GET of the board
  Guest,     \* a GET of a project's page
  Readers,   \* who may read in a run
  BoardSize, \* LIMIT of the rankings
  MinBid,    \* MIN_BID_PAISE
  Rupee      \* paise in a rupee, the unit in which the pages propose

ASSUME ReadersAssumption ==
  /\ Visitor \notin Calls /\ Guest \notin Calls /\ Visitor # Guest
  /\ Readers \subseteq Calls \cup {Visitor, Guest}
ASSUME BoardAssumption == {BoardSize, MinBid, Rupee} \subseteq Nat \ {0}

VARIABLES
  reader,   \* who reads
  at,       \* its next statement
  kept,     \* the project its session has, with its total and count
  rankings, \* the rows of the board
  onTop,    \* the board's "leader"
  listed,   \* the bids on the project's page
  led,      \* history: who led since the rankings were read
  calm      \* history: no commit since the first column was read

board == <<reader, at, kept, rankings, onTop, listed, led, calm>>

Unloaded == [project |-> None, total |-> 0, count |-> 0]

BoardInit ==
  /\ Init
  /\ reader \in Readers
  /\ at = CASE reader = Visitor -> "rankings" [] reader = Guest -> "page"
            [] OTHER -> "idle"
  /\ kept = Unloaded
  /\ rankings = {}
  /\ onTop = None
  /\ listed = <<>>
  /\ led = {}
  /\ calm = TRUE

-----------------------------------------------------------------------------
(* _compute_leaderboard.                                                   *)

Now == Leader(status, total)
Loaded(p) == [project |-> p, total |-> total[p], count |-> count[p]]

\* session.refresh(project), in a transaction that follows the settlement's.
Refresh ==
  LET p == req[reader].project
  IN /\ at = "refresh"
     /\ kept' = Loaded(p)
     /\ calm' = TRUE
     /\ at' = "rankings"
     /\ UNCHANGED <<vars, reader, rankings, onTop, listed, led>>

\* A row shows the total of the object that the session has.
Printed(p) == IF p = kept.project THEN kept.total ELSE total[p]
Rank(p) == 1 + Cardinality({q \in Live(status) : Ahead(total, q, p)})
Row(p) == [rank |-> Rank(p), project |-> p, total |-> Printed(p)]
\* Variant: the projects that were submitted first.
RowsBySubmission ==
  {[Row(p) EXCEPT !.rank = p] : p \in {q \in Live(status) : q <= BoardSize}}
\* Variant: every live project.
RowsUnlimited == {Row(p) : p \in Live(status)}
\* The first live projects in the order of the database.
Rows == {Row(p) : p \in {q \in Live(status) : Rank(q) <= BoardSize}}

ReadRankings ==
  /\ at = "rankings"
  /\ rankings' = Rows
  /\ led' = {Now}
  /\ calm' = (calm \/ kept = Unloaded)
  /\ at' = "leader"
  /\ UNCHANGED <<vars, reader, kept, onTop, listed>>

\* The open row of leadership_log.
ReadOnTop ==
  /\ at = "leader"
  /\ onTop' = IF NewestOpen = 0 THEN None ELSE log[NewestOpen].project
  /\ at' = "done"
  /\ UNCHANGED <<vars, reader, kept, rankings, listed, led, calm>>

-----------------------------------------------------------------------------
(* get_project_detail: the project's row, or 404, and then its bids.       *)

OpenPage ==
  /\ at = "page"
  /\ calm' = TRUE
  /\ \E p \in Projects :
       IF status[p] = "live" THEN kept' = Loaded(p) /\ at' = "bids"
                             ELSE kept' = kept /\ at' = "done"
  /\ UNCHANGED <<vars, reader, rankings, onTop, listed, led>>

\* As long as they are no more than one page holds.
ListBids ==
  /\ at = "bids"
  /\ listed' = Restrict(bid, Counted(bid, kept.project))
  /\ at' = "done"
  /\ UNCHANGED <<vars, reader, kept, rankings, onTop, led, calm>>

-----------------------------------------------------------------------------
(* The calls of the ledger, and the board they publish in the end.         *)

Goes(from, to) == reader \in Calls /\ pc[reader] = from /\ pc'[reader] = to

\* A settlement publishes if it made the bid, a refund in any case, once its
\* admin_actions row is committed; no object of the refunded project is left by
\* then.
Publishes ==
  at' = IF Goes("commit", "done") THEN "refresh"
        ELSE IF Goes("audit", "done") THEN "rankings" ELSE at

Commits == <<status, total, count, bid, log>>' # <<status, total, count, bid, log>>

LedgerStep ==
  /\ Next
  /\ Publishes
  /\ led' = IF at = "leader" THEN led \cup {Leader(status', total')} ELSE led
  /\ calm' = IF at = "done" THEN calm ELSE calm /\ ~Commits
  /\ UNCHANGED <<reader, kept, rankings, onTop, listed>>

BoardNext ==
  LedgerStep \/ Refresh \/ ReadRankings \/ ReadOnTop \/ OpenPage \/ ListBids

BoardSpec == BoardInit /\ [][BoardNext]_<<vars, board>>

-----------------------------------------------------------------------------
(* What the pages propose.                                                 *)

Larger(x, y) == IF x < y THEN y ELSE x

\* BidModal: whole rupees, and no less than the minimum.
Proposed(x) == Rupee * ((Larger(x, MinBid) + Rupee - 1) \div Rupee)

First == CHOOSE r \in rankings : r.rank = 1

\* LeaderboardTable, for a row that is not on top.
TableOffer(r) == Proposed(Larger(First.total - r.total + Rupee, MinBid))

\* Variant: as much as the first row has is taken for enough.
PageOfferForTie(t) == Proposed(First.total - t)
\* ProjectDetailPage, with the total the page has of a project that is not the
\* board's first.
PageOffer(t) == Proposed(First.total - t + 1)

-----------------------------------------------------------------------------
(* Properties.                                                             *)

\* Every variable has its type.
BoardTypeOK ==
  /\ TypeOK
  /\ reader \in Readers
  /\ at \in {"idle", "refresh", "rankings", "leader", "page", "bids", "done"}
  /\ kept \in [project : Projects \cup {None}, total : Int, count : Int]
  /\ rankings \subseteq [rank : 1 .. BoardSize, project : Projects, total : Int]
  /\ onTop \in Projects \cup {None}
  /\ listed \in [DOMAIN listed -> BidRow]
  /\ led \subseteq Projects \cup {None}
  /\ calm \in BOOLEAN

\* Who is "On top" of a board led the live projects at some time while it was
\* put together, although its parts are read at different times; and what no
\* commit fell into is of one piece: a board's totals come in the order of the
\* ranks, and who is on top is in its first row; a page's bids add up to the
\* total and the count above them.
BoardsAgree ==
  at = "done" =>
    /\ onTop # None => onTop \in led
    /\ calm =>
         /\ \A r, s \in rankings : r.rank < s.rank => r.total >= s.total
         /\ onTop # None => \E r \in rankings : r.rank = 1 /\ r.project = onTop
         /\ reader = Guest /\ kept # Unloaded =>
              /\ kept.total = LedgerTotal(listed, kept.project)
              /\ kept.count = LedgerCount(listed, kept.project)

\* A bid of a takes the lead for p.
TakesLead(p, a) == Leader(status, [total EXCEPT ![p] = @ + a]) = p

\* A proposal is enough: as long as no other live project has more than the
\* board's first row and the bidder's no less than the page said, a bid of
\* the proposed amount leads, ties and rounding included; also when board and
\* page were fetched at different times and are not up to date.
OffersTakeTheLead ==
  at = "done" /\ rankings # {} =>
    \A p \in Live(status) :
      (\A q \in Live(status) \ {p} : total[q] <= First.total) =>
        /\ \A r \in rankings :
             r.project = p /\ p # onTop /\ r.total <= total[p] => TakesLead(p, TableOffer(r))
        /\ p # First.project =>
             \A t \in 0 .. total[p] : TakesLead(p, PageOffer(t))
=============================================================================
