----------------------------- MODULE BoardProofs -----------------------------
(***************************************************************************)
(* Proofs about Board for every number of projects, calls and requests:    *)
(* BoardInv says what a reader already has is worth, and what a board and  *)
(* a page show follows from it and from what is proved of the ledger.      *)
(***************************************************************************)
EXTENDS Board, BidLedgerProofs

-----------------------------------------------------------------------------
(* leadership_log: one open row, for the leader, and a history that is     *)
(* never rewritten.  It rests on the advisory lock, which ControlInv says  *)
(* is held from the reads of _update_leadership_log to the commit, so that *)
(* no two calls are between the two.                                       *)

Commit(c) == CommitSettlement(c) \/ CommitReversal(c)

\* Only a commit writes the totals, the bids and the log, and only a
\* moderation writes the status beside it.
LEMMA OnlyCommitsWrite ==
  ASSUME NEW c \in Calls, Step(c) \/ Crash(c) \/ DeadlockVictim(c), ~Commit(c)
  PROVE  UNCHANGED <<status, total, bid, log, req>>
BY DEF Step, Commit, PreloadProject, InsertProject, ReadBid, LockProject,
       AlreadySettled, FindIntent, InsertIntent, IntentConflict,
       TakeAdvisoryLock, BidConflict, ReadLeader, RecordReversal, Crash,
       DeadlockVictim, Abort, db

\* A step of another call changes nothing that a call about to commit sees
\* as its own: its label, session, readings and intent.
LEMMA OthersKeepOwn ==
  ASSUME ControlInv, NEW x \in Calls, pc[x] = "commit", NEW c \in Calls \ {x},
         Step(c) \/ Crash(c) \/ DeadlockVictim(c)
  PROVE  /\ ~Commit(c)
         /\ orm'[x] = orm[x] /\ found'[x] = found[x] /\ pc'[x] = pc[x]
         /\ ~Reversing(x) => intent'[req[x].key] = intent[req[x].key]
<1>1. advisory = x /\ pc[c] \notin {"leader", "commit"}
  BY IdsAssumption DEF ControlInv, LockDiscipline
<1>2. /\ x \in DOMAIN orm
      /\ ~Reversing(x) => /\ req[x].key \in DOMAIN intent
                          /\ intent[req[x].key].owner # c
  BY IdsAssumption DEF ControlInv, ReadsStayTrue, HoldsRow, IntentOwnership, Posting
<1>3. ~Commit(c) /\ ~ReadLeader(c) /\ ~BidConflict(c)
  BY <1>1 DEF Commit, CommitSettlement, CommitReversal, ReadLeader, BidConflict
<1>4. pc'[x] = pc[x]
  BY <1>3 DEF Step, Commit, PreloadProject, InsertProject, ReadBid, LockProject,
     AlreadySettled, FindIntent, InsertIntent, IntentConflict, TakeAdvisoryLock,
     RecordReversal, Crash, DeadlockVictim, Abort, Goto, ControlInv, TypeOK
<1>5. ASSUME NEW v PROVE Insert(orm, c, v)[x] = orm[x]
  BY <1>2 DEF Insert
<1>6. ASSUME EndTransaction(c) PROVE orm'[x] = orm[x] /\ found'[x] = found[x]
  BY <1>2, <1>6 DEF EndTransaction, Restrict, ControlInv, TypeOK
<1>7. orm'[x] = orm[x] /\ found'[x] = found[x]
  BY <1>3, <1>5, <1>6 DEF Step, Commit, PreloadProject, InsertProject, ReadBid,
     LockProject, AlreadySettled, FindIntent, InsertIntent, IntentConflict,
     TakeAdvisoryLock, RecordReversal, Crash, DeadlockVictim, Abort
<1>8. ASSUME ~Reversing(x) PROVE intent'[req[x].key] = intent[req[x].key]
  <2>1. ASSUME Abort(c) PROVE intent'[req[x].key] = intent[req[x].key]
    BY <1>2, <1>8, <2>1 DEF Abort, Restrict
  <2>2. ASSUME InsertIntent(c) PROVE intent'[req[x].key] = intent[req[x].key]
    BY <1>2, <1>8, <2>2 DEF InsertIntent, Insert
  <2> QED
    BY <1>3, <2>1, <2>2 DEF Step, Commit, PreloadProject, InsertProject,
       ReadBid, LockProject, AlreadySettled, FindIntent, IntentConflict,
       TakeAdvisoryLock, RecordReversal, Crash, DeadlockVictim, db
<1> QED BY <1>3, <1>4, <1>7, <1>8

\* What a call sees of the tables depends on what the last lemma keeps.
LEMMA SeenKept ==
  ASSUME NEW x \in Calls, UNCHANGED <<status, total, bid, log, req>>,
         orm'[x] = orm[x],
         ~Reversing(x) => intent'[req[x].key] = intent[req[x].key]
  PROVE  /\ NewestOpen' = NewestOpen
         /\ Leader(StatusSeenBy(x), TotalSeenBy(x))' =
              Leader(StatusSeenBy(x), TotalSeenBy(x))
<1>1. NewestOpen' = NewestOpen
  BY DEF NewestOpen, OpenRows
<1>2. Target(x)' = Target(x) /\ (Reversing(x)' <=> Reversing(x))
  BY TargetsKept
<1>3. NewTotal(x)' = NewTotal(x)
  BY <1>2 DEF NewTotal
<1>4. StatusSeenBy(x)' = StatusSeenBy(x)
  BY DEF StatusSeenBy
<1>5. TotalSeenBy(x)' = TotalSeenBy(x)
  BY <1>2, <1>3 DEF TotalSeenBy
<1> QED BY <1>1, <1>4, <1>5 DEF Leader, Live, Ahead

\* What was read under the advisory lock stays true to the commit.
LEMMA ReadsHoldStep ==
  ASSUME ControlInv, LogReadsHold, [Next]_vars
  PROVE  LogReadsHold'
<1> SUFFICES ASSUME NEW x \in Calls, pc'[x] = "commit"
             PROVE  /\ found'[x].open = NewestOpen'
                    /\ Moderation = {} =>
                         found'[x].leader = Leader(StatusSeenBy(x), TotalSeenBy(x))'
  BY DEF LogReadsHold
<1>1. ASSUME UNCHANGED <<total, bid, log, req, orm, found, intent, pc>>,
             Moderation = {} => UNCHANGED status
      PROVE  /\ found'[x].open = NewestOpen'
             /\ Moderation = {} =>
                  found'[x].leader = Leader(StatusSeenBy(x), TotalSeenBy(x))'
  <2>1. found'[x].open = NewestOpen'
    BY <1>1 DEF LogReadsHold, NewestOpen, OpenRows
  <2>2. Moderation = {} =>
          found'[x].leader = Leader(StatusSeenBy(x), TotalSeenBy(x))'
    BY <1>1, SeenKept DEF LogReadsHold
  <2> QED BY <2>1, <2>2
<1>2. ASSUME NEW c \in Calls, c # x, Step(c) \/ Crash(c) \/ DeadlockVictim(c)
      PROVE  /\ found'[x].open = NewestOpen'
             /\ Moderation = {} =>
                  found'[x].leader = Leader(StatusSeenBy(x), TotalSeenBy(x))'
  <2>1. pc[x] = "commit"
    BY <1>2 DEF Step, PreloadProject, InsertProject, ReadBid, LockProject,
       AlreadySettled, FindIntent, InsertIntent, IntentConflict,
       TakeAdvisoryLock, BidConflict, ReadLeader, CommitSettlement,
       CommitReversal, RecordReversal, Crash, DeadlockVictim, Abort, Goto,
       ControlInv, TypeOK
  <2>2. /\ UNCHANGED <<status, total, bid, log, req>>
        /\ orm'[x] = orm[x] /\ found'[x] = found[x]
        /\ ~Reversing(x) => intent'[req[x].key] = intent[req[x].key]
    BY <1>2, <2>1, OthersKeepOwn, OnlyCommitsWrite
  <2> QED BY <2>1, <2>2, SeenKept DEF LogReadsHold
<1>3. ASSUME Step(x) \/ Crash(x) \/ DeadlockVictim(x) PROVE ReadLeader(x)
  BY <1>3 DEF Step, PreloadProject, InsertProject, ReadBid, LockProject,
     AlreadySettled, FindIntent, InsertIntent, IntentConflict,
     TakeAdvisoryLock, BidConflict, CommitSettlement, CommitReversal,
     RecordReversal, Crash, DeadlockVictim, Abort, Goto, ControlInv, TypeOK
<1>4. ASSUME ReadLeader(x)
      PROVE  /\ found'[x].open = NewestOpen'
             /\ Moderation = {} =>
                  found'[x].leader = Leader(StatusSeenBy(x), TotalSeenBy(x))'
  <2>1. /\ found'[x].leader = Leader(StatusSeenBy(x), TotalSeenBy(x))
        /\ found'[x].open = NewestOpen
        /\ UNCHANGED <<status, total, bid, log, req, orm, intent>>
    BY <1>4 DEF ReadLeader, ControlInv, TypeOK, db
  <2> QED BY <2>1, SeenKept
<1>5. ASSUME NEW p \in Projects, NEW s \in Moderation, Moderate(p, s)
      PROVE  /\ UNCHANGED <<total, bid, log, req, orm, found, intent, pc>>
             /\ Moderation # {}
  BY <1>5 DEF Moderate
<1>6. ASSUME UNCHANGED vars
      PROVE  UNCHANGED <<status, total, bid, log, req, orm, found, intent, pc>>
  BY <1>6 DEF vars, db
<1> QED BY <1>1, <1>2, <1>3, <1>4, <1>5, <1>6 DEF Next

\* Whatever calls run, what _update_leadership_log read under the advisory lock
\* is still so when its transaction commits.
THEOREM ReadingsHold == Spec => []LogReadsHold
<1>1. Init => LogReadsHold
  BY DEF Init, LogReadsHold
<1> QED BY <1>1, ReadsHoldStep, ControlCorrect, PTL DEF Spec

-----------------------------------------------------------------------------
(* One open row, for the leader.                                           *)

\* Closing the only open row leaves none.
LEMMA ClosedLogIsClosed ==
  ASSUME ControlInv, OneOpenRow, NEW c \in Calls, found[c].open = NewestOpen
  PROVE  /\ ClosedLog(c) \in Seq(LogRow) /\ Len(ClosedLog(c)) = Len(log)
         /\ \A i \in 1 .. Len(log) : ~ClosedLog(c)[i].open
<1>1. log \in Seq(LogRow)
  BY DEF ControlInv, TypeOK
<1>2. \A i \in 1 .. Len(log) : log[i].open => i = NewestOpen /\ NewestOpen # 0
  BY <1>1, NewestOpenFacts DEF OneOpenRow, OpenRows
<1> QED BY <1>1, <1>2, ClosedLogFacts

\* What a commit does to the log, in the three cases of the code.
LEMMA CommittedLog ==
  ASSUME ControlInv, OneOpenRow, LogReadsHold, NEW c \in Calls, Commit(c)
  PROVE  LET l == found[c].leader
         IN  /\ l \in Projects \cup {None}
             /\ OneOpenRow'
             /\ l = None => OpenRows' = {}
             /\ l # None => OpenRows' # {} /\ log'[NewestOpen'].project = l
<1> DEFINE l == found[c].leader
<1>1. /\ found[c].open = NewestOpen /\ log' = LogAfter(c)
      /\ found[c] \in Reading /\ log \in Seq(LogRow)
  BY DEF Commit, CommitSettlement, CommitReversal, LogReadsHold, ControlInv, TypeOK
<1>2. log' \in Seq(LogRow)
  BY <1>1, LogTyped
<1>3. CASE Takeover(c)
  <2> DEFINE n == Len(log) + 1
             new == [project |-> l, open |-> TRUE]
  <2>1. l # None /\ log' = Append(ClosedLog(c), new) /\ new \in LogRow
    BY <1>1, <1>3 DEF LogAfter, Takeover, Reading, LogRow
  <2>2. /\ Len(log') = n /\ log'[n] = new
        /\ \A i \in 1 .. Len(log) : log'[i] = ClosedLog(c)[i]
    BY <1>1, <2>1, ClosedLogIsClosed
  <2>3. OpenRows' = {n}
    BY <1>1, <1>2, <2>2, ClosedLogIsClosed DEF OpenRows
  <2>4. NewestOpen' = n
    BY <2>3 DEF NewestOpen
  <2> QED BY <1>1, <2>1, <2>2, <2>3, <2>4 DEF OneOpenRow, Reading
<1>4. CASE ~Takeover(c) /\ l = None
  <2>1. log' = ClosedLog(c)
    BY <1>1, <1>4 DEF LogAfter
  <2>2. OpenRows' = {}
    BY <1>1, <1>2, <2>1, ClosedLogIsClosed DEF OpenRows
  <2> QED BY <1>1, <1>4, <2>2 DEF OneOpenRow
<1>5. CASE ~Takeover(c) /\ l # None
  <2>1. log' = log
    BY <1>1, <1>5 DEF LogAfter
  <2>2. NewestOpen # 0 /\ log[NewestOpen].project = l
    BY <1>1, <1>5 DEF Takeover
  <2>3. OpenRows # {}
    BY <1>1, <2>2, NewestOpenFacts
  <2>4. OpenRows' = OpenRows /\ NewestOpen' = NewestOpen
    BY <2>1 DEF OpenRows, NewestOpen
  <2> QED BY <1>1, <1>5, <2>1, <2>2, <2>3, <2>4 DEF OneOpenRow, Reading
<1> QED BY <1>3, <1>4, <1>5

\* Only a commit changes the log and the totals, only an admin a status else.
LEMMA OtherStepsKeepLog ==
  ASSUME [Next]_vars, ~ \E c \in Calls : Commit(c)
  PROVE  UNCHANGED <<log, total>> /\ (Moderation = {} => status' = status)
<1>1. ASSUME NEW c \in Calls, Step(c) \/ Crash(c) \/ DeadlockVictim(c)
      PROVE  UNCHANGED <<status, total, log>>
  BY <1>1, OnlyCommitsWrite
<1>2. ASSUME NEW p \in Projects, NEW s \in Moderation, Moderate(p, s)
      PROVE  UNCHANGED <<log, total>> /\ Moderation # {}
  BY <1>2 DEF Moderate
<1>3. ASSUME UNCHANGED vars PROVE UNCHANGED <<status, total, log>>
  BY <1>3 DEF vars, db
<1> QED BY <1>1, <1>2, <1>3 DEF Next

\* At any time at most one row of leadership_log is open: the calls that
\* close and open rows are serialized from their reads to their commits.
THEOREM LogHasOneOpenRow == Spec => []OneOpenRow
<1>1. Init => OneOpenRow
  BY DEF Init, OneOpenRow, OpenRows
<1>2. ASSUME ControlInv, OneOpenRow, LogReadsHold, [Next]_vars
      PROVE  OneOpenRow'
  <2>1. ASSUME NEW c \in Calls, Commit(c) PROVE OneOpenRow'
    BY <1>2, <2>1, CommittedLog
  <2>2. ASSUME log' = log PROVE OneOpenRow'
    BY <1>2, <2>2 DEF OneOpenRow, OpenRows
  <2> QED BY <1>2, <2>1, <2>2, OtherStepsKeepLog
<1> QED BY <1>1, <1>2, ControlCorrect, ReadingsHold, PTL DEF Spec

\* There is no leader exactly when no project is live.
LEMMA LeaderOfNobody ==
  ASSUME NEW st, NEW tot \in [Projects -> Int]
  PROVE  Leader(st, tot) = None <=> Live(st) = {}
<1>1. Live(st) # {} => Leader(st, tot) \in Projects
  BY LeaderIsFirst DEF Live
<1> QED BY <1>1, IdsAssumption DEF Leader

\* The commit leaves the log as its readings say, and they are of the very
\* tables it leaves.
LEMMA CommitNamesLeader ==
  ASSUME ControlInv, OneOpenRow, LogReadsHold, Moderation = {},
         NEW c \in Calls, Commit(c)
  PROVE  LogNamesLeader'
<1>1. /\ pc[c] = "commit" /\ total' = TotalSeenBy(c)
      /\ status' = StatusSeenBy(c)
  BY DEF Commit, CommitSettlement, CommitReversal, StatusSeenBy, Reversing
<1>2. total' \in [Projects -> Int]
  BY <1>1, SeenTyped
<1>3. found[c].leader = Leader(status', total')
  BY <1>1 DEF LogReadsHold
<1>4. found[c].leader = None <=> Live(status') = {}
  BY <1>2, <1>3, LeaderOfNobody
<1>5. /\ Live(status') = {} => OpenRows' = {}
      /\ Live(status') # {} =>
           OpenRows' # {} /\ log'[NewestOpen'].project = Leader(status', total')
  BY <1>3, <1>4, CommittedLog
<1>6. /\ Live(status)' = Live(status')
      /\ Leader(status, total)' = Leader(status', total')
  BY DEF Live, Leader, Ahead
<1> QED BY <1>5, <1>6 DEF LogNamesLeader

\* As long as no admin changes a status, whoever is #1 on the board is the
\* project of the open row, after any commit of any concurrent calls.
THEOREM LogIsInSync ==
  ASSUME Moderation = {}
  PROVE  Spec => []LogNamesLeader
<1>1. Init => LogNamesLeader
  BY DEF Init, LogNamesLeader
<1>2. ASSUME ControlInv, OneOpenRow, LogReadsHold, LogNamesLeader, [Next]_vars
      PROVE  LogNamesLeader'
  <2>1. ASSUME NEW c \in Calls, Commit(c) PROVE LogNamesLeader'
    BY <1>2, <2>1, CommitNamesLeader
  <2>2. ASSUME UNCHANGED <<log, total, status>> PROVE LogNamesLeader'
    BY <1>2, <2>2 DEF LogNamesLeader, OpenRows, NewestOpen, Live, Leader, Ahead
  <2> QED BY <1>2, <2>1, <2>2, OtherStepsKeepLog
<1> QED BY <1>1, <1>2, ControlCorrect, ReadingsHold, LogHasOneOpenRow, PTL DEF Spec

-----------------------------------------------------------------------------
(* History.                                                                *)

\* No step of any call takes a row from leadership_log, gives it another
\* project or opens it again.
THEOREM HistoryIsKept == Spec => HistoryKept
<1> DEFINE Extends == \A i \in DOMAIN log :
                      /\ i \in DOMAIN log'
                      /\ log'[i].project = log[i].project
                      /\ log'[i].open => log[i].open
<1>1. ASSUME ControlInv, [Next]_vars PROVE [Extends]_vars
  <2>1. ASSUME NEW c \in Calls, Commit(c) PROVE Extends
    <3>1. log' = LogAfter(c) /\ log \in Seq(LogRow) /\ found[c].leader \in Projects \cup {None}
      BY <1>1, <2>1 DEF Commit, CommitSettlement, CommitReversal, ControlInv,
         TypeOK, Reading
    <3>2. log' = Append(ClosedLog(c), [project |-> found[c].leader, open |-> TRUE])
          \/ log' = ClosedLog(c) \/ log' = log
      BY <3>1 DEF LogAfter
    <3> QED BY <3>1, <3>2, ClosedLogFacts
  <2>2. ASSUME log' = log PROVE Extends
    BY <2>2
  <2> QED BY <1>1, <2>1, <2>2, OtherStepsKeepLog
<1> QED BY <1>1, ControlCorrect, PTL DEF Spec, HistoryKept

-----------------------------------------------------------------------------
(* A reader changes nothing for the calls.                                 *)

\* A board is read beside the calls of the ledger, which go on as without it.
LEMMA ReadingIsHarmless == BoardSpec => Spec
<1>1. BoardInit => Init
  BY DEF BoardInit
<1>2. [BoardNext]_<<vars, board>> => [Next]_vars
  BY DEF BoardNext, LedgerStep, Refresh, ReadRankings, ReadOnTop, OpenPage, ListBids
<1> QED BY <1>1, <1>2, PTL DEF BoardSpec, Spec

\* So the ledger keeps its promise while boards are read.
THEOREM LedgerKeptWithReaders ==
  ASSUME SafeWorkload
  PROVE  BoardSpec => ImplementsLedger
BY ReadingIsHarmless, LedgerImplemented, PTL

-----------------------------------------------------------------------------
(* Ranks.                                                                  *)

\* The ranks of live projects start at one, for the leader, and go with the
\* totals.
LEMMA RankFacts ==
  ASSUME TypeOK
  PROVE  /\ \A p \in Projects : Rank(p) \in Nat \ {0}
         /\ \A p, q \in Live(status) : Rank(p) < Rank(q) => total[p] >= total[q]
         /\ Live(status) # {} => Now \in Live(status) /\ Rank(Now) = 1
<1> DEFINE S == Live(status)
           Above(p) == {q \in S : Ahead(total, q, p)}
<1>1. /\ S \subseteq Projects /\ S \subseteq Nat /\ IsFiniteSet(S)
      /\ \A p \in S : total[p] \in Int
  BY IdsAssumption, FS_Subset DEF Live, TypeOK
<1>2. S # {} => Now \in S /\ \A q \in S \ {Now} : Ahead(total, Now, q)
  BY LeaderIsFirst DEF Now, TypeOK
<1>3. \A p \in Projects : Rank(p) = 1 + Cardinality(Above(p))
  BY DEF Rank
<1> HIDE DEF S
<1>4. \A p \in Projects : IsFiniteSet(Above(p)) /\ Cardinality(Above(p)) \in Nat
  BY <1>1, FS_Subset, FS_CardinalityType
<1>5. ASSUME NEW p \in S, NEW q \in S, total[p] < total[q]
      PROVE  Cardinality(Above(q)) <= Cardinality(Above(p))
  <2>1. ASSUME NEW x \in Above(q) PROVE x \in Above(p)
    <3>1. x \in S /\ Ahead(total, x, q)
      OBVIOUS
    <3>2. total[x] \in Int /\ total[q] \in Int /\ total[p] \in Int
      BY <1>1, <3>1
    <3>3. total[x] > total[p]
      BY <1>5, <3>1, <3>2 DEF Ahead
    <3> QED BY <3>1, <3>3 DEF Ahead
  <2>2. Above(q) \subseteq Above(p)
    BY <2>1
  <2> HIDE DEF Above
  <2> QED BY <1>1, <1>4, <2>2, FS_Subset
<1>6. ASSUME S # {} PROVE Cardinality(Above(Now)) = 0
  <2>1. ASSUME NEW x \in Above(Now) PROVE FALSE
    <3>1. x \in S /\ Ahead(total, x, Now)
      OBVIOUS
    <3>2. Now \in S /\ (x # Now => Ahead(total, Now, x))
      BY <1>2, <1>6, <3>1
    <3>3. total[x] \in Int /\ total[Now] \in Int /\ x \in Nat /\ Now \in Nat
      BY <1>1, <3>1, <3>2
    <3> QED BY <3>1, <3>2, <3>3 DEF Ahead
  <2>2. Above(Now) = {}
    BY <2>1
  <2> HIDE DEF Above
  <2> QED BY <2>2, FS_EmptySet
<1> HIDE DEF Above
<1>7. \A p \in Projects : Rank(p) \in Nat \ {0}
  BY <1>3, <1>4
<1>8. \A p, q \in S : Rank(p) < Rank(q) => total[p] >= total[q]
  BY <1>1, <1>3, <1>4, <1>5
<1>9. Now \in Projects => Rank(Now) = 1 + Cardinality(Above(Now))
  BY <1>3
<1>10. ASSUME S # {} PROVE Now \in S /\ Rank(Now) = 1
  <2>1. Now \in S /\ Now \in Projects
    BY <1>1, <1>2, <1>10
  <2>2. Cardinality(Above(Now)) = 0
    BY <1>6, <1>10
  <2> QED BY <1>9, <2>1, <2>2
<1> QED BY <1>7, <1>8, <1>10 DEF S

-----------------------------------------------------------------------------
(* What a reader has.                                                      *)

\* Who may be where: a call reads after it is done, a guest reads a page.
Places ==
  /\ reader \in Readers
  /\ at \in {"idle", "refresh", "rankings", "leader", "page", "bids", "done"}
  /\ reader \in Calls /\ at # "idle" => pc[reader] = "done"
  /\ reader = Guest => at \in {"page", "bids", "done"}
  /\ at \in {"page", "bids"} => reader = Guest
  /\ at \in {"idle", "refresh"} => reader \in Calls
  /\ at # "done" => onTop = None
  /\ at \in {"page", "bids"} => rankings = {}
  /\ at = "page" => kept = Unloaded

\* The project a session has is as it is in the table unless something was
\* committed since it was read.
KeptInv ==
  /\ kept = Unloaded \/ kept \in [project : Projects, total : Int, count : Int]
  /\ at = "bids" => kept # Unloaded
  /\ calm /\ kept # Unloaded /\ at # "done" => kept = Loaded(kept.project)

\* Between its two statements a board has a first row, the leader of now is
\* among those who led since, and without a commit the rows are those of now.
RowsInv ==
  /\ rankings \subseteq [rank : 1 .. BoardSize, project : Projects, total : Int]
  /\ rankings # {} => \E r \in rankings : r.rank = 1
  /\ at = "leader" => Now \in led
  /\ at = "leader" /\ calm =>
       /\ \A r \in rankings : /\ r.project \in Live(status)
                              /\ r.rank = Rank(r.project)
                              /\ r.total = total[r.project]
       /\ Live(status) # {} => \E r \in rankings : r.rank = 1 /\ r.project = Now

\* The variables that the others say nothing of.
RestTyped ==
  /\ onTop \in Projects \cup {None}
  /\ listed \in [DOMAIN listed -> BidRow]
  /\ led \subseteq Projects \cup {None}
  /\ calm \in BOOLEAN

BoardInv == Places /\ KeptInv /\ RowsInv /\ RestTyped

\* A reader who has begun is no call that still commits.
LEMMA ReaderIsDone ==
  ASSUME ControlInv, Places, LedgerStep, at # "idle"
  PROVE  /\ at' = at /\ kept' = kept
         /\ calm' = IF at = "done" THEN calm ELSE calm /\ ~Commits
<1>1. \A from, to \in {"commit", "audit", "done"} : from # "done" => ~Goes(from, to)
  BY DEF Places, Goes
<1> QED BY <1>1 DEF LedgerStep, Publishes

\* Every statement leaves the readers in their places.
LEMMA NextKeepsPlaces ==
  ASSUME ControlInv, Places, [BoardNext]_<<vars, board>>
  PROVE  Places'
<1>1. ASSUME LedgerStep PROVE Places'
  <2>1. UNCHANGED <<reader, rankings, onTop>> /\ Next
    BY <1>1 DEF LedgerStep
  <2>2. CASE at = "idle"
    <3>1. \/ at' = "idle"
          \/ at' \in {"refresh", "rankings"} /\ reader \in Calls /\ pc'[reader] = "done"
      BY <1>1, <2>2 DEF LedgerStep, Publishes, Goes
    <3> QED BY <2>1, <2>2, <3>1, ReadersAssumption DEF Places
  <2>3. CASE at # "idle"
    <3>1. at' = at /\ kept' = kept
      BY <1>1, <2>3, ReaderIsDone
    <3>2. reader \in Calls => pc'[reader] = "done"
      BY <2>1, <2>3, DoneStays DEF Places
    <3> QED BY <2>1, <3>1, <3>2 DEF Places
  <2> QED BY <2>2, <2>3
<1>2. ASSUME Refresh \/ ReadRankings \/ ReadOnTop \/ OpenPage \/ ListBids
      PROVE  Places'
  BY <1>2, ReadersAssumption DEF Refresh, ReadRankings, ReadOnTop, OpenPage, ListBids, Places, vars
<1>3. CASE UNCHANGED <<vars, board>>
  BY <1>3 DEF vars, board, Places
<1> QED BY <1>1, <1>2, <1>3 DEF BoardNext

\* A session's project goes out of date only by a commit.
LEMMA NextKeepsKept ==
  ASSUME ControlInv, Places, KeptInv, calm \in BOOLEAN, [BoardNext]_<<vars, board>>
  PROVE  KeptInv'
<1>1. /\ \A p \in Projects : Loaded(p) \in [project : Projects, total : Int, count : Int]
      /\ None \notin Projects
  BY IdsAssumption DEF Loaded, ControlInv, TypeOK
<1>2. ASSUME LedgerStep PROVE KeptInv'
  <2>1. CASE at = "idle"
    <3>1. /\ kept' = kept /\ calm' = (calm /\ ~Commits) /\ at' # "bids"
      BY <1>2, <2>1 DEF LedgerStep, Publishes
    <3>2. ~Commits => total' = total /\ count' = count
      BY DEF Commits
    <3> QED BY <2>1, <3>1, <3>2 DEF KeptInv, Loaded
  <2>2. CASE at # "idle"
    <3>1. /\ at' = at /\ kept' = kept
          /\ calm' = IF at = "done" THEN calm ELSE calm /\ ~Commits
      BY <1>2, <2>2, ReaderIsDone
    <3>2. ~Commits => total' = total /\ count' = count
      BY DEF Commits
    <3> QED BY <3>1, <3>2 DEF KeptInv, Loaded
  <2> QED BY <2>1, <2>2
<1>3. ASSUME Refresh PROVE KeptInv'
  <2>1. /\ kept' = Loaded(req[reader].project) /\ at' = "rankings"
        /\ total' = total /\ count' = count
    BY <1>3 DEF Refresh, vars, db
  <2>2. reader \in Calls /\ req[reader].project \in Projects
    BY <1>3, ReadersAssumption DEF Refresh, Places, ControlInv, TypeOK, Request
  <2> QED BY <1>1, <2>1, <2>2 DEF KeptInv, Loaded
<1>4. ASSUME ReadRankings \/ ReadOnTop \/ ListBids PROVE KeptInv'
  BY <1>4 DEF ReadRankings, ReadOnTop, ListBids, KeptInv, Loaded, vars, db
<1>5. ASSUME OpenPage PROVE KeptInv'
  <2>1. /\ UNCHANGED <<total, count>>
        /\ \/ \E p \in Projects : kept' = Loaded(p) /\ at' = "bids"
           \/ kept' = kept /\ at' = "done"
    BY <1>5 DEF OpenPage, vars, db
  <2> QED BY <1>1, <2>1 DEF KeptInv, Loaded, Unloaded
<1>6. CASE UNCHANGED <<vars, board>>
  BY <1>6 DEF vars, db, board, KeptInv, Loaded
<1> QED BY <1>2, <1>3, <1>4, <1>5, <1>6 DEF BoardNext

\* A row is of a live project, with its rank and what the session says is its
\* total.
LEMMA RowFacts ==
  ASSUME ControlInv, KeptInv
  PROVE  /\ Rows \subseteq [rank : 1 .. BoardSize, project : Projects, total : Int]
         /\ \A r \in Rows : /\ r.project \in Live(status) /\ r.rank = Rank(r.project)
                            /\ r.total = Printed(r.project)
         /\ Live(status) # {} => \E r \in Rows : r.rank = 1 /\ r.project = Now
<1>1. /\ \A p \in Projects : Rank(p) \in Nat \ {0}
      /\ Live(status) # {} => Now \in Live(status) /\ Rank(Now) = 1
      /\ BoardSize \in Nat \ {0} /\ Live(status) \subseteq Projects
  BY RankFacts, BoardAssumption DEF ControlInv, Live
<1>2. \A p \in Projects : Printed(p) \in Int
  BY DEF Printed, KeptInv, Unloaded, ControlInv, TypeOK
<1>3. ASSUME NEW r \in Rows
      PROVE  /\ r \in [rank : 1 .. BoardSize, project : Projects, total : Int]
             /\ r.project \in Live(status) /\ r.rank = Rank(r.project)
             /\ r.total = Printed(r.project)
  <2>1. PICK p \in Live(status) : Rank(p) <= BoardSize /\ r = Row(p)
    BY DEF Rows
  <2>2. Rank(p) \in 1 .. BoardSize /\ Printed(p) \in Int /\ p \in Projects
    BY <1>1, <1>2, <2>1
  <2> QED BY <2>1, <2>2 DEF Row
<1>4. ASSUME Live(status) # {} PROVE \E r \in Rows : r.rank = 1 /\ r.project = Now
  <2>1. Now \in Live(status) /\ Rank(Now) = 1 /\ Rank(Now) <= BoardSize
    BY <1>1, <1>4
  <2>2. Row(Now) \in Rows
    BY <2>1 DEF Rows
  <2> QED BY <2>1, <2>2 DEF Row
<1> QED BY <1>3, <1>4

\* Rows go out of date only by a commit, and then the leader of now is noted.
LEMMA NextKeepsRows ==
  ASSUME ControlInv, Places, KeptInv, RowsInv, calm \in BOOLEAN,
         [BoardNext]_<<vars, board>>
  PROVE  RowsInv'
<1>1. ASSUME UNCHANGED <<status, total>>
      PROVE  /\ Live(status)' = Live(status) /\ Now' = Now
             /\ \A p : Rank(p)' = Rank(p)
  BY <1>1 DEF Live, Now, Leader, Ahead, Rank
<1>2. Now' = Leader(status', total')
  BY DEF Now, Leader, Live, Ahead
<1>3. ASSUME LedgerStep PROVE RowsInv'
  <2>1. rankings' = rankings
    BY <1>3 DEF LedgerStep
  <2>2. CASE at = "leader"
    <3>1. at' = "leader" /\ calm' = (calm /\ ~Commits)
      BY <1>3, <2>2, ReaderIsDone
    <3>2. led' = led \cup {Now'}
      BY <1>2, <1>3, <2>2 DEF LedgerStep
    <3>3. calm' => calm /\ UNCHANGED <<status, total>>
      BY <3>1 DEF Commits
    <3>4. calm' =>
            /\ \A r \in rankings : /\ r.project \in Live(status)'
                                   /\ r.rank = Rank(r.project)'
                                   /\ r.total = total'[r.project]
            /\ Live(status)' # {} => \E r \in rankings : r.rank = 1 /\ r.project = Now'
      BY <1>1, <2>2, <3>3 DEF RowsInv
    <3> QED BY <2>1, <3>2, <3>4 DEF RowsInv
  <2>3. CASE at # "leader"
    <3>1. at' # "leader"
      BY <1>3, <2>3 DEF LedgerStep, Publishes
    <3> QED BY <2>1, <3>1 DEF RowsInv
  <2> QED BY <2>2, <2>3
<1>4. ASSUME ReadRankings PROVE RowsInv'
  <2>1. /\ rankings' = Rows /\ led' = {Now} /\ calm' = (calm \/ kept = Unloaded)
        /\ UNCHANGED <<status, total>> /\ at = "rankings"
    BY <1>4 DEF ReadRankings, vars, db
  <2>2. Rows # {} => Live(status) # {}
    BY DEF Rows
  <2>3. calm' => \A p \in Projects : Printed(p) = total[p]
    <3>1. calm \/ kept = Unloaded => kept = Unloaded \/ kept = Loaded(kept.project)
      BY <2>1 DEF KeptInv
    <3>2. kept = Unloaded => \A p \in Projects : Printed(p) = total[p]
      BY IdsAssumption DEF Printed, Unloaded
    <3>3. kept = Loaded(kept.project) => \A p \in Projects : Printed(p) = total[p]
      BY DEF Printed, Loaded
    <3> QED BY <2>1, <3>1, <3>2, <3>3
  <2>4. Live(status) \subseteq Projects
    BY DEF Live
  <2> QED BY <1>1, <2>1, <2>2, <2>3, <2>4, RowFacts DEF RowsInv
<1>5. ASSUME Refresh \/ ReadOnTop \/ OpenPage \/ ListBids PROVE RowsInv'
  <2>1. rankings' = rankings /\ at' # "leader"
    BY <1>5 DEF Refresh, ReadOnTop, OpenPage, ListBids
  <2> QED BY <2>1 DEF RowsInv
<1>6. CASE UNCHANGED <<vars, board>>
  <2>1. UNCHANGED <<status, total, at, rankings, led, calm>>
    BY <1>6 DEF vars, db, board
  <2> QED BY <1>1, <2>1 DEF RowsInv
<1> QED BY <1>3, <1>4, <1>5, <1>6 DEF BoardNext

\* Whoever leads or has the open row is a project, and a page lists bids.
LEMMA NextKeepsTypes ==
  ASSUME ControlInv, ControlInv', RestTyped, [BoardNext]_<<vars, board>>
  PROVE  RestTyped'
<1>1. ASSUME ControlInv PROVE Now \in Projects \cup {None}
  <2>1. Live(status) = {} => Now = None
    BY DEF Now, Leader
  <2>2. Live(status) # {} => Now \in Live(status)
    BY <1>1, RankFacts DEF ControlInv
  <2> QED BY <2>1, <2>2 DEF Live
<1>2. Leader(status', total') \in Projects \cup {None}
  <2>1. total' \in [Projects -> Int]
    BY DEF ControlInv, TypeOK
  <2>2. Live(status') # {} => Leader(status', total') \in Projects
    BY <2>1, LeaderIsFirst DEF Live
  <2> QED BY <2>2 DEF Leader
<1>3. ASSUME LedgerStep PROVE RestTyped'
  <2>1. UNCHANGED <<onTop, listed>> /\ led' \subseteq led \cup {Leader(status', total')}
    BY <1>3 DEF LedgerStep
  <2>2. calm' \in BOOLEAN
    BY <1>3 DEF LedgerStep, RestTyped
  <2> QED BY <1>2, <2>1, <2>2 DEF RestTyped
<1>4. ASSUME ReadOnTop PROVE RestTyped'
  <2>1. onTop' \in Projects \cup {None}
    <3>1. log \in Seq(LogRow)
      BY DEF ControlInv, TypeOK
    <3>2. NewestOpen # 0 => log[NewestOpen] \in LogRow
      BY <3>1, NewestOpenFacts DEF OpenRows
    <3> QED BY <1>4, <3>2 DEF ReadOnTop, LogRow
  <2> QED BY <1>4, <2>1 DEF ReadOnTop, RestTyped
<1>5. ASSUME ListBids PROVE RestTyped'
  <2>1. listed' = Restrict(bid, Counted(bid, kept.project))
    BY <1>5 DEF ListBids
  <2>2. listed' \in [DOMAIN listed' -> BidRow]
    BY <2>1 DEF Restrict, Counted, ControlInv, TypeOK
  <2> QED BY <1>5, <2>2 DEF ListBids, RestTyped
<1>6. ASSUME Refresh \/ ReadRankings \/ OpenPage PROVE RestTyped'
  BY <1>1, <1>6 DEF Refresh, ReadRankings, OpenPage, RestTyped
<1>7. CASE UNCHANGED <<vars, board>>
  BY <1>7 DEF board, RestTyped
<1> QED BY <1>3, <1>4, <1>5, <1>6, <1>7 DEF BoardNext

\* At the start the reader has read nothing, so BoardInv asks nothing of it.
LEMMA InitHasBoard == BoardInit => Init /\ BoardInv
<1>1. BoardInit => Places
  BY ReadersAssumption DEF BoardInit, Places
<1>2. BoardInit => KeptInv /\ RowsInv /\ RestTyped /\ Init
  BY DEF BoardInit, KeptInv, RowsInv, RestTyped
<1> QED BY <1>1, <1>2 DEF BoardInv

\* Every step, the reader's or a call's, keeps BoardInv.
LEMMA NextKeepsBoard ==
  ASSUME ControlInv, BoardInv, [BoardNext]_<<vars, board>>
  PROVE  ControlInv' /\ BoardInv'
<1>1. [Next]_vars
  BY DEF BoardNext, LedgerStep, Refresh, ReadRankings, ReadOnTop, OpenPage, ListBids
<1>2. ControlInv'
  BY <1>1, NextKeepsControl
<1> QED
  BY <1>2, NextKeepsPlaces, NextKeepsKept, NextKeepsRows, NextKeepsTypes
  DEF BoardInv, RestTyped

\* What a reader has, and what the board and the page show, has its type and
\* is worth what BoardInv says.
THEOREM BoardsAreTyped == BoardSpec => [](ControlInv /\ BoardInv /\ BoardTypeOK)
<1>1. ControlInv /\ BoardInv => BoardTypeOK
  <2>1. KeptInv => kept \in [project : Projects \cup {None}, total : Int, count : Int]
    BY DEF KeptInv, Unloaded
  <2> QED BY <2>1 DEF BoardTypeOK, BoardInv, ControlInv, Places, RowsInv, RestTyped
<1> QED
  BY <1>1, InitHasBoard, InitHasControl, NextKeepsBoard, PTL DEF BoardSpec

-----------------------------------------------------------------------------
(* What the pages propose.                                                 *)

\* Rounding up to whole rupees takes nothing away.
LEMMA ProposedIsEnough ==
  ASSUME NEW x \in Int
  PROVE  Proposed(x) \in Int /\ Proposed(x) >= x
<1>1. Rupee \in Nat \ {0} /\ MinBid \in Nat \ {0}
  BY BoardAssumption
<1>2. Larger(x, MinBid) \in Int /\ Larger(x, MinBid) >= x
  BY <1>1 DEF Larger
<1>3. ASSUME NEW d \in Nat \ {0}, NEW n \in Int
      PROVE  (n + d - 1) \div d \in Int /\ d * ((n + d - 1) \div d) >= n
  OBVIOUS
<1> QED BY <1>1, <1>2, <1>3 DEF Proposed

\* A bid that brings a project above all others takes the lead for it.
LEMMA MoreThanAllLeads ==
  ASSUME TypeOK, NEW p \in Live(status), NEW a \in Int,
         \A q \in Live(status) \ {p} : total[q] < total[p] + a
  PROVE  TakesLead(p, a)
<1> DEFINE tot == [total EXCEPT ![p] = @ + a]
           L == Leader(status, tot)
<1>1. p \in Projects /\ Live(status) \subseteq Projects /\ total \in [Projects -> Int]
  BY DEF Live, TypeOK
<1>2. /\ tot \in [Projects -> Int] /\ tot[p] = total[p] + a
      /\ \A q \in Projects \ {p} : tot[q] = total[q]
  BY <1>1
<1> HIDE DEF tot
<1>3. L \in Live(status) /\ (L # p => Ahead(tot, L, p))
  BY <1>2, LeaderIsFirst
<1>4. ASSUME L # p PROVE FALSE
  <2>1. tot[L] \in Int /\ tot[p] \in Int /\ tot[L] >= tot[p]
    BY <1>1, <1>2, <1>3, <1>4 DEF Ahead
  <2>2. tot[L] = total[L] /\ total[L] < tot[p]
    BY <1>1, <1>2, <1>3, <1>4
  <2> QED BY <2>1, <2>2
<1> QED BY <1>4 DEF TakesLead, tot

\* What BidModal proposes on either page takes the lead, for any totals, any
\* minimum and any rounding, as long as the others are no further than the
\* board's first row was.
THEOREM OffersAreEnough == BoardSpec => []OffersTakeTheLead
<1>1. ASSUME ControlInv, BoardInv PROVE OffersTakeTheLead
  <2>1. SUFFICES ASSUME rankings # {}, NEW p \in Live(status),
                        \A q \in Live(status) \ {p} : total[q] <= First.total
                 PROVE  /\ \A r \in rankings :
                             r.project = p /\ p # onTop /\ r.total <= total[p] =>
                               TakesLead(p, TableOffer(r))
                        /\ p # First.project =>
                             \A t \in 0 .. total[p] : TakesLead(p, PageOffer(t))
    BY DEF OffersTakeTheLead
  <2>2. First \in rankings /\ First.total \in Int
    BY <1>1, <2>1 DEF BoardInv, RowsInv, First
  <2>3. /\ TypeOK /\ \A q \in Live(status) : total[q] \in Int
        /\ Rupee \in Nat \ {0} /\ MinBid \in Nat \ {0}
    BY <1>1, BoardAssumption DEF ControlInv, TypeOK, Live
  <2>4. ASSUME NEW a \in Int, a >= First.total - total[p] + 1 PROVE TakesLead(p, a)
    <3>1. \A q \in Live(status) \ {p} : total[q] < total[p] + a
      BY <2>1, <2>2, <2>3, <2>4
    <3> QED BY <2>3, <3>1, MoreThanAllLeads
  <2>5. ASSUME NEW r \in rankings, r.total <= total[p]
        PROVE  TakesLead(p, TableOffer(r))
    <3> DEFINE x == Larger(First.total - r.total + Rupee, MinBid)
    <3>1. r.total \in Int
      BY <1>1 DEF BoardInv, RowsInv
    <3>2. x \in Int /\ x >= First.total - total[p] + 1
      BY <2>2, <2>3, <2>5, <3>1 DEF Larger
    <3> HIDE DEF x
    <3>3. Proposed(x) \in Int /\ Proposed(x) >= First.total - total[p] + 1
      BY <2>2, <2>3, <3>2, ProposedIsEnough
    <3> QED BY <2>4, <3>3 DEF TableOffer, x
  <2>6. ASSUME NEW t \in 0 .. total[p] PROVE TakesLead(p, PageOffer(t))
    <3> DEFINE x == First.total - t + 1
    <3>1. x \in Int /\ x >= First.total - total[p] + 1
      BY <2>2, <2>3
    <3> HIDE DEF x
    <3>2. Proposed(x) \in Int /\ Proposed(x) >= First.total - total[p] + 1
      BY <2>2, <2>3, <3>1, ProposedIsEnough
    <3> QED BY <2>4, <3>2 DEF PageOffer, x
  <2> QED BY <2>5, <2>6
<1> QED BY <1>1, BoardsAreTyped, PTL

-----------------------------------------------------------------------------
(* What boards and pages show.                                             *)

\* The bids of one project add up to what they add up to among all bids.
LEMMA PageSums ==
  ASSUME NEW p
  PROVE  /\ LedgerTotal(Restrict(bid, Counted(bid, p)), p) = LedgerTotal(bid, p)
         /\ LedgerCount(Restrict(bid, Counted(bid, p)), p) = LedgerCount(bid, p)
<1> DEFINE u == Restrict(bid, Counted(bid, p))
<1>1. DOMAIN u = Counted(bid, p) /\ \A k \in DOMAIN u : u[k] = bid[k]
  BY DEF Restrict, Counted
<1> HIDE DEF u
<1>2. Counted(u, p) = Counted(bid, p)
  BY <1>1 DEF Counted
<1>3. \A k \in Counted(bid, p) : u[k].amount = bid[k].amount
  BY <1>1
<1> QED BY <1>2, <1>3, SameSums DEF u

\* While no admin changes a status, a board's last statement finds the leader
\* of now in the log.
LEMMA BoardIsOfOnePiece ==
  ASSUME ControlInv, BoardInv, LogNamesLeader, ReadOnTop
  PROVE  BoardsAgree'
<1>1. /\ rankings' = rankings /\ led' = led /\ calm' = calm /\ reader' = reader
      /\ at = "leader" /\ kept' = kept
      /\ onTop' = IF NewestOpen = 0 THEN None ELSE log[NewestOpen].project
  BY DEF ReadOnTop
<1>2. reader # Guest /\ calm \in BOOLEAN
  BY <1>1 DEF BoardInv, Places, RestTyped
<1>3. onTop' # None => Live(status) # {} /\ onTop' = Now
  <2>1. log \in Seq(LogRow)
    BY DEF ControlInv, TypeOK
  <2>2. NewestOpen # 0 => OpenRows # {} /\ log # <<>>
    BY <2>1, NewestOpenFacts DEF OpenRows
  <2> QED BY <1>1, <2>2 DEF LogNamesLeader, Now
<1>4. onTop' # None => onTop' \in led
  BY <1>1, <1>3 DEF BoardInv, RowsInv
<1>5. ASSUME calm
      PROVE  /\ \A r, s \in rankings : r.rank < s.rank => r.total >= s.total
             /\ onTop' # None => \E r \in rankings : r.rank = 1 /\ r.project = onTop'
  <2>1. /\ \A r \in rankings : /\ r.project \in Live(status)
                               /\ r.rank = Rank(r.project)
                               /\ r.total = total[r.project]
        /\ Live(status) # {} => \E r \in rankings : r.rank = 1 /\ r.project = Now
    BY <1>1, <1>5 DEF BoardInv, RowsInv
  <2>2. \A p, q \in Live(status) : Rank(p) < Rank(q) => total[p] >= total[q]
    BY RankFacts DEF ControlInv
  <2> QED BY <1>3, <2>1, <2>2
<1> QED BY <1>1, <1>2, <1>4, <1>5 DEF BoardsAgree

\* A page's bids are those its project's columns were the sums of.
LEMMA PageIsOfOnePiece ==
  ASSUME BoardInv, CacheMatchesLedger, ListBids
  PROVE  BoardsAgree'
<1>1. /\ rankings' = {} /\ onTop' = None /\ kept' = kept /\ calm' = calm
      /\ listed' = Restrict(bid, Counted(bid, kept.project)) /\ at = "bids"
  BY DEF ListBids, BoardInv, Places
<1>2. calm => kept = Loaded(kept.project) /\ kept.project \in Projects
  BY <1>1, IdsAssumption DEF BoardInv, KeptInv
<1>3. calm => /\ kept.total = LedgerTotal(bid, kept.project)
              /\ kept.count = LedgerCount(bid, kept.project)
  BY <1>2 DEF CacheMatchesLedger, Loaded
<1>4. calm => /\ kept.total = LedgerTotal(listed', kept.project)
              /\ kept.count = LedgerCount(listed', kept.project)
  BY <1>1, <1>3, PageSums
<1> QED BY <1>1, <1>4 DEF BoardsAgree, LedgerTotal, LedgerCount, Paise, Counted

\* For any number of concurrent calls: a board names a leader who led while it
\* was put together, and what no commit fell into is of one piece, as long as the
\* requests in flight are such that no update is lost.
THEOREM BoardsHold ==
  ASSUME Moderation = {}
  PROVE  BoardSpec => [](SafeRequests => BoardsAgree)
<1>1. BoardInit => BoardsAgree
  BY DEF BoardInit, BoardsAgree
<1>2. ASSUME ControlInv, BoardInv, LogNamesLeader, CacheMatchesLedger, BoardsAgree,
             [BoardNext]_<<vars, board>>
      PROVE  BoardsAgree'
  <2>1. ASSUME at' = at, UNCHANGED <<reader, kept, rankings, onTop, listed, led, calm>>
        PROVE  BoardsAgree'
    BY <1>2, <2>1 DEF BoardsAgree, LedgerTotal, LedgerCount, Paise, Counted
  <2>2. ASSUME at' # "done" PROVE BoardsAgree'
    BY <2>2 DEF BoardsAgree
  <2>3. ASSUME LedgerStep PROVE BoardsAgree'
    <3>1. CASE at = "done"
      <4>1. at' = at /\ kept' = kept /\ calm' = calm
        BY <1>2, <2>3, <3>1, ReaderIsDone DEF BoardInv
      <4>2. UNCHANGED <<reader, rankings, onTop, listed, led>>
        BY <2>3, <3>1 DEF LedgerStep
      <4> QED BY <2>1, <4>1, <4>2
    <3>2. CASE at # "done"
      BY <2>2, <2>3, <3>2 DEF LedgerStep, Publishes
    <3> QED BY <3>1, <3>2
  <2>4. ASSUME Refresh \/ ReadRankings PROVE BoardsAgree'
    BY <2>2, <2>4 DEF Refresh, ReadRankings
  <2>5. ASSUME ReadOnTop PROVE BoardsAgree'
    BY <1>2, <2>5, BoardIsOfOnePiece
  <2>6. ASSUME OpenPage PROVE BoardsAgree'
    <3>1. /\ rankings' = {} /\ onTop' = None
          /\ at' = "done" => kept' = Unloaded
      BY <1>2, <2>6 DEF OpenPage, BoardInv, Places
    <3> QED BY <3>1 DEF BoardsAgree, Unloaded
  <2>7. ASSUME ListBids PROVE BoardsAgree'
    BY <1>2, <2>7, PageIsOfOnePiece
  <2>8. CASE UNCHANGED <<vars, board>>
    BY <2>1, <2>8 DEF board
  <2> QED BY <1>2, <2>3, <2>4, <2>5, <2>6, <2>7, <2>8 DEF BoardNext
<1>3. ASSUME ControlInv, BoardInv, LogNamesLeader, SafeRequests => CacheMatchesLedger,
             SafeRequests => BoardsAgree, [BoardNext]_<<vars, board>>
      PROVE  (SafeRequests => BoardsAgree)'
  <2>1. [Next]_vars
    BY <1>3 DEF BoardNext, LedgerStep, Refresh, ReadRankings, ReadOnTop, OpenPage, ListBids
  <2> QED BY <1>2, <1>3, <2>1, RequestsKept
<1> QED
  BY <1>1, <1>3, BoardsAreTyped, ReadingIsHarmless, LogIsInSync, TotalsHold, PTL
  DEF BoardSpec
=============================================================================
