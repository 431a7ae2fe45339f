------------------------------ MODULE BidLedger ------------------------------
(***************************************************************************)
(* The bid ledger of the leaderboard at the grain PostgreSQL sees it: one  *)
(* action per SQL statement of accept_bid, reverse_bid, create_project and *)
(* _update_leadership_log, run by concurrent calls under READ COMMITTED    *)
(* with row locks, unique indexes, one advisory lock and one ORM session   *)
(* per call.                                                               *)
(*                                                                         *)
(* Uncommitted work of a call is visible to nobody, so it lives in what    *)
(* the call holds (pc, orm, found) until Commit applies it.  The exception *)
(* is an inserted payment intent: its entry in the unique index on         *)
(* idempotency_key blocks other inserts, hence the owner field.            *)
(***************************************************************************)
EXTENDS Integers, Sequences, FiniteSets, Functions, Postings

CONSTANTS
  Projects,    \* project ids; their order is the order of the UUIDs
  Keys,        \* idempotency keys
  Calls,       \* calls in flight; a retry is another call
  None,        \* no call, no project
  Workload,    \* for each call, the requests it may carry
  Orders,      \* amount of each intent that /payments/intent has committed
  OpeningBids, \* the seeded table of bids
  OpeningStatus, \* the status of every project at the start
  Moderation   \* the statuses an admin may give a project

Status == {"absent", "pending_review", "live", "rejected", "suspended"}
Kinds == {"settle", "mock", "open", "reverse"}
Request ==
  [kind : Kinds, project : Projects, key : Keys, amount : Nat \ {0}]
BidRow == [project : Projects, amount : Nat \ {0}, reversed : BOOLEAN]

ASSUME IdsAssumption ==
  /\ Projects \subseteq Nat
  /\ None \notin Calls
  /\ None \notin Projects
  /\ IsFiniteSet(Projects) /\ IsFiniteSet(Keys)
\* A new project has an id of its own, and its opening bid a key made of it.
ASSUME WorkloadAssumption ==
  /\ Workload \in [Calls -> SUBSET Request]
  /\ \A c, d \in Calls : \A r \in Workload[c], s \in Workload[d] :
       /\ r.kind = "open" /\ s.kind # "reverse" /\ r.key = s.key => c = d
       /\ r.kind = "open" /\ s.kind = "open" /\ r.project = s.project => c = d
ASSUME OpeningAssumption ==
  /\ DOMAIN Orders \subseteq Keys
  /\ Orders \in [DOMAIN Orders -> Nat \ {0}]
  /\ OpeningStatus \in [Projects -> Status]
  /\ DOMAIN OpeningBids \subseteq DOMAIN Orders
  /\ OpeningBids \in [DOMAIN OpeningBids -> BidRow]
  /\ \A k \in DOMAIN OpeningBids :
       /\ OpeningBids[k].amount = Orders[k]
       /\ OpeningStatus[OpeningBids[k].project] # "absent"
ASSUME ModerationAssumption == Moderation \subseteq Status \ {"absent"}

VARIABLES
  status,      \* projects.status, "absent" before the row is committed
  total,       \* projects.cached_total_paise
  count,       \* projects.total_bid_count
  intent,      \* payment_intents by idempotency key
  bid,         \* bids by the idempotency key of their intent
  log,         \* leadership_log in the order of became_leader_at
  audit,       \* the calls whose refund_bid row is in admin_actions
  row,         \* who holds each project row FOR UPDATE
  advisory,    \* who holds the leadership_log advisory lock
  req,         \* the request each call carries
  pc,          \* the statement each call is about to run
  orm,         \* project columns each session has in its identity map
  found        \* what each call's _update_leadership_log read

\* The leader, and the open row of the log; 0 stands for no row.
Nothing == [leader |-> None, open |-> 0]

db == <<status, total, count, intent, bid, log, audit>>
locks == <<row, advisory>>
vars == <<db, locks, req, pc, orm, found>>

Init ==
  /\ status = OpeningStatus
  /\ total = [p \in Projects |-> LedgerTotal(OpeningBids, p)]
  /\ count = [p \in Projects |-> LedgerCount(OpeningBids, p)]
  /\ intent = [k \in DOMAIN Orders |->
                 [amount |-> Orders[k],
                  verified |-> k \in DOMAIN OpeningBids,
                  owner |-> None]]
  /\ bid = OpeningBids
  /\ log = <<>>
  /\ audit = {}
  /\ row = [p \in Projects |-> None]
  /\ advisory = None
  /\ req \in [Calls -> UNION {Workload[c] : c \in Calls}]
  /\ \A c \in Calls : req[c] \in Workload[c]
  /\ pc = [c \in Calls |-> "idle"]
  /\ orm = <<>>
  /\ found = [c \in Calls |-> Nothing]

-----------------------------------------------------------------------------
(* What a call works on, and what it sees.                                 *)

Reversing(c) == req[c].kind = "reverse"

\* The project a call locks: the bid's for a reversal, else the caller's.
Target(c) == IF Reversing(c) THEN bid[req[c].key].project
                             ELSE req[c].project

\* A settlement adds the intent's amount, a reversal takes the bid's away.
NewTotal(c) ==
  IF Reversing(c) THEN orm[c].total - bid[req[c].key].amount
                  ELSE orm[c].total + intent[req[c].key].amount
\* Variant: total_bid_count counts every bid there ever was.
NewCountNeverFalls(c) == orm[c].count + (IF Reversing(c) THEN 0 ELSE 1)
NewCount(c) == orm[c].count + (IF Reversing(c) THEN -1 ELSE 1)

\* The ORM writes back the columns of its own copy of the project.
TotalSeenBy(c) == [total EXCEPT ![Target(c)] = NewTotal(c)]
CountSeenBy(c) == [count EXCEPT ![Target(c)] = NewCount(c)]
StatusSeenBy(c) ==
  IF req[c].kind = "open" THEN [status EXCEPT ![req[c].project] = "live"]
                          ELSE status

Live(st) == {p \in Projects : st[p] = "live"}

\* ORDER BY cached_total_paise DESC, id ASC
Ahead(tot, p, q) == tot[p] > tot[q] \/ (tot[p] = tot[q] /\ p < q)

\* ... LIMIT 1 among the live projects.
Leader(st, tot) ==
  IF Live(st) = {} THEN None
  ELSE CHOOSE p \in Live(st) : \A q \in Live(st) \ {p} : Ahead(tot, p, q)

OpenRows == {i \in DOMAIN log : log[i].open}

\* ORDER BY became_leader_at DESC LIMIT 1
NewestOpen ==
  IF OpenRows = {} THEN 0
  ELSE CHOOSE i \in OpenRows : \A j \in OpenRows : j <= i

\* The call must insert a row: it read no open one for the leader it read.
Takeover(c) ==
  /\ found[c].leader # None
  /\ found[c].open # 0 => log[found[c].open].project # found[c].leader

ClosedLog(c) == IF found[c].open = 0 THEN log
                ELSE [log EXCEPT ![found[c].open].open = FALSE]

\* Variant: a takeover updates the open row instead of adding one.
LogAfterRewriting(c) ==
  IF Takeover(c) /\ found[c].open # 0
    THEN [log EXCEPT ![found[c].open].project = found[c].leader]
    ELSE IF Takeover(c)
           THEN Append(log, [project |-> found[c].leader, open |-> TRUE])
           ELSE IF found[c].leader = None THEN ClosedLog(c) ELSE log

LogAfter(c) ==
  IF Takeover(c)
    THEN Append(ClosedLog(c), [project |-> found[c].leader, open |-> TRUE])
    ELSE IF found[c].leader = None THEN ClosedLog(c) ELSE log

-----------------------------------------------------------------------------
(* Ends of a transaction: they release every lock the call holds.          *)

\* Variant: the advisory lock is the session's and outlives its commit.
EndTransactionKeepingLock(c) ==
  /\ row' = [p \in Projects |-> IF row[p] = c THEN None ELSE row[p]]
  /\ orm' = Restrict(orm, DOMAIN orm \ {c})
  /\ found' = [found EXCEPT ![c] = Nothing]
  /\ UNCHANGED advisory

EndTransaction(c) ==
  /\ row' = [p \in Projects |-> IF row[p] = c THEN None ELSE row[p]]
  /\ advisory' = IF advisory = c THEN None ELSE advisory
  /\ orm' = Restrict(orm, DOMAIN orm \ {c})
  /\ found' = [found EXCEPT ![c] = Nothing]

Goto(c, label) == pc' = [pc EXCEPT ![c] = label]

\* Roll back: the intent the call inserted, if any, disappears with it.
Abort(c) ==
  /\ EndTransaction(c)
  /\ intent' = Restrict(intent, {k \in DOMAIN intent : intent[k].owner # c})
  /\ Goto(c, "failed")
  /\ UNCHANGED <<status, total, count, bid, log, audit, req>>

-----------------------------------------------------------------------------
(* The first statement of each kind of call.                               *)

\* mock_payment: reads the project, and keeps it in the session, before
\* accept_bid takes the lock.
PreloadProjectAlways(c) ==  \* Variant: the webhook does so, too.
  LET p == req[c].project
  IN /\ pc[c] = "idle"
     /\ req[c].kind \in {"mock", "settle"}
     /\ status[p] = "live"
     /\ orm' = Insert(orm, c, [total |-> total[p], count |-> count[p]])
     /\ Goto(c, "lock")
     /\ UNCHANGED <<db, locks, req, found>>

PreloadProject(c) ==
  LET p == req[c].project
  IN /\ pc[c] = "idle"
     /\ req[c].kind = "mock"
     /\ IF status[p] = "live"
          THEN /\ orm' = Insert(orm, c, [total |-> total[p], count |-> count[p]])
               /\ Goto(c, "lock")
          ELSE /\ Goto(c, "failed")
               /\ UNCHANGED orm
     /\ UNCHANGED <<db, locks, req, found>>

\* create_project: inserts a row of its own, live from the start, which
\* nobody else sees before it commits.  (A submission refused for its form or
\* for a RERA number in use ends here, before it holds anything.)
InsertProject(c) ==
  LET p == req[c].project
  IN /\ pc[c] = "idle"
     /\ req[c].kind = "open"
     /\ status[p] = "absent"
     /\ row[p] = None
     /\ row' = [row EXCEPT ![p] = c]
     /\ orm' = Insert(orm, c, [total |-> 0, count |-> 0])
     /\ Goto(c, "find")
     /\ UNCHANGED <<db, advisory, req, found>>

\* reverse_bid: reads the bid; the reversed check is made here, unlocked.
ReadBid(c) ==
  LET k == req[c].key
  IN /\ pc[c] = "idle"
     /\ Reversing(c)
     /\ \/ k \notin DOMAIN bid /\ Goto(c, "failed")
        \/ k \in DOMAIN bid /\ bid[k].reversed /\ Goto(c, "audit")
        \/ k \in DOMAIN bid /\ ~bid[k].reversed /\ Goto(c, "lock")
     /\ UNCHANGED <<db, locks, req, orm, found>>

\* The webhook and the internal settle endpoint start with the lock itself.
AboutToLock(c) ==
  \/ pc[c] = "lock"
  \/ pc[c] = "idle" /\ req[c].kind = "settle"

\* SELECT ... FOR UPDATE.  A project already in the session keeps the
\* columns it was loaded with (Insert keeps a row that is there).
LockProject(c) ==
  LET p == Target(c)
  IN /\ AboutToLock(c)
     /\ IF status[p] = "absent"
          THEN /\ Goto(c, "failed")
               /\ UNCHANGED <<row, orm>>
          ELSE /\ row[p] = None
               /\ row' = [row EXCEPT ![p] = c]
               /\ orm' = Insert(orm, c, [total |-> total[p], count |-> count[p]])
               /\ Goto(c, IF Reversing(c) THEN "advisory" ELSE "find")
     /\ UNCHANGED <<db, advisory, req, found>>

-----------------------------------------------------------------------------
(* accept_bid under the project lock.                                      *)

Committed(k) == k \in DOMAIN intent /\ intent[k].owner = None

\* The intent already has a bid: commit and answer already_settled.
AlreadySettled(c) ==
  /\ pc[c] = "find"
  /\ req[c].key \in DOMAIN bid
  /\ EndTransaction(c)
  /\ Goto(c, "done")
  /\ UNCHANGED <<db, req>>

FindIntent(c) ==
  /\ pc[c] = "find"
  /\ req[c].key \notin DOMAIN bid
  /\ Goto(c, IF Committed(req[c].key) THEN "advisory" ELSE "insert")
  /\ UNCHANGED <<db, locks, req, orm, found>>

\* The unique index makes an insert wait for the other call's transaction.
InsertIntent(c) ==
  LET k == req[c].key
  IN /\ pc[c] = "insert"
     /\ k \notin DOMAIN intent
     /\ intent' = Insert(intent, k, [amount |-> req[c].amount,
                                     verified |-> FALSE, owner |-> c])
     /\ Goto(c, "advisory")
     /\ UNCHANGED <<status, total, count, bid, log, audit,
                    locks, req, orm, found>>

\* ... and fails with IntegrityError once the other one has committed.
IntentConflict(c) ==
  /\ pc[c] = "insert"
  /\ Committed(req[c].key)
  /\ Abort(c)

-----------------------------------------------------------------------------
(* _update_leadership_log and the commit, shared by accept and reverse.    *)

\* Variant: _update_leadership_log without its advisory lock.
TakeAdvisoryLockUnguarded(c) ==
  /\ pc[c] = "advisory"
  /\ advisory' = c
  /\ Goto(c, "leader")
  /\ UNCHANGED <<db, row, req, orm, found>>

TakeAdvisoryLock(c) ==
  /\ pc[c] = "advisory"
  /\ advisory = None
  /\ advisory' = c
  /\ Goto(c, "leader")
  /\ UNCHANGED <<db, row, req, orm, found>>

\* The query for the leader flushes the session first, so it sees the
\* call's own totals; the flush fails if another call settled the intent.
BidConflict(c) ==
  /\ pc[c] = "leader"
  /\ ~Reversing(c)
  /\ req[c].key \in DOMAIN bid
  /\ Abort(c)

\* Variant: asks only whether the call's own project took the lead.
ReadLeaderOfOwn(c) ==
  LET p == Target(c)
      leads == p = Leader(StatusSeenBy(c), TotalSeenBy(c))
  IN /\ pc[c] = "leader"
     /\ Reversing(c) \/ req[c].key \notin DOMAIN bid
     /\ found' = [found EXCEPT ![c] =
                     [leader |-> IF leads \/ NewestOpen = 0
                                   THEN p ELSE log[NewestOpen].project,
                      open |-> NewestOpen]]
     /\ Goto(c, "commit")
     /\ UNCHANGED <<db, locks, req, orm>>

ReadLeader(c) ==
  /\ pc[c] = "leader"
  /\ Reversing(c) \/ req[c].key \notin DOMAIN bid
  /\ found' = [found EXCEPT ![c] =
                  [leader |-> Leader(StatusSeenBy(c), TotalSeenBy(c)),
                   open |-> NewestOpen]]
  /\ Goto(c, "commit")
  /\ UNCHANGED <<db, locks, req, orm>>

\* The foreign key of a new leadership_log row needs a share lock on the
\* leader's row, which conflicts with another call's FOR UPDATE.
LeaderRowFree(c) ==
  Takeover(c) => row[found[c].leader] \in {None, c}

CommitSettlement(c) ==
  LET k == req[c].key
  IN /\ pc[c] = "commit"
     /\ ~Reversing(c)
     /\ LeaderRowFree(c)
     /\ status' = StatusSeenBy(c)
     /\ total' = TotalSeenBy(c)
     /\ count' = CountSeenBy(c)
     /\ bid' = Insert(bid, k, [project |-> req[c].project,
                               amount |-> intent[k].amount,
                               reversed |-> FALSE])
     /\ intent' = [intent EXCEPT ![k].verified = TRUE, ![k].owner = None]
     /\ log' = LogAfter(c)
     /\ EndTransaction(c)
     /\ Goto(c, "done")
     /\ UNCHANGED <<audit, req>>

\* Variant: the endpoint answers without its admin_actions row.
CommitReversalUnaudited(c) ==
  /\ pc[c] = "commit"
  /\ Reversing(c)
  /\ LeaderRowFree(c)
  /\ total' = TotalSeenBy(c)
  /\ count' = CountSeenBy(c)
  /\ bid' = [bid EXCEPT ![req[c].key].reversed = TRUE]
  /\ log' = LogAfter(c)
  /\ EndTransaction(c)
  /\ Goto(c, "done")
  /\ UNCHANGED <<status, intent, audit, req>>

CommitReversal(c) ==
  /\ pc[c] = "commit"
  /\ Reversing(c)
  /\ LeaderRowFree(c)
  /\ total' = TotalSeenBy(c)
  /\ count' = CountSeenBy(c)
  /\ bid' = [bid EXCEPT ![req[c].key].reversed = TRUE]
  /\ log' = LogAfter(c)
  /\ EndTransaction(c)
  /\ Goto(c, "audit")
  /\ UNCHANGED <<status, intent, audit, req>>

\* reverse_bid_endpoint: the admin_actions row is a second transaction.
RecordReversal(c) ==
  /\ pc[c] = "audit"
  /\ audit' = audit \cup {c}
  /\ Goto(c, "done")
  /\ UNCHANGED <<status, total, count, intent, bid, log, locks, req, orm, found>>

-----------------------------------------------------------------------------
(* The environment: admins, crashes and the database's deadlock detector.  *)

\* approve, reject and suspend write the status and nothing else; the
\* update waits for whoever holds the row.
Moderate(p, s) ==
  /\ status[p] # "absent"
  /\ row[p] = None
  /\ status' = [status EXCEPT ![p] = s]
  /\ UNCHANGED <<total, count, intent, bid, log, audit,
                 locks, req, pc, orm, found>>

InTransaction(c) ==
  pc[c] \in {"lock", "find", "insert", "advisory", "leader", "commit"}

\* The process or its connection dies: PostgreSQL rolls the call back.
Crash(c) ==
  /\ InTransaction(c) \/ pc[c] = "audit"
  /\ Abort(c)

\* The calls whose locks c is waiting for at its current statement.
WaitsFor(c) ==
  { d \in Calls \ {c} :
      \/ AboutToLock(c) /\ row[Target(c)] = d
      \/ /\ pc[c] = "insert" /\ req[c].key \in DOMAIN intent
         /\ intent[req[c].key].owner = d
      \/ pc[c] = "advisory" /\ advisory = d
      \/ pc[c] = "commit" /\ Takeover(c) /\ row[found[c].leader] = d }

\* A set of calls in which everyone waits for someone and is waited for.
Cyclic(S) ==
  \A c \in S : /\ WaitsFor(c) \cap S # {}
               /\ \E d \in S : c \in WaitsFor(d)

\* PostgreSQL aborts one call of a waits-for cycle.
DeadlockVictim(c) ==
  /\ \E S \in SUBSET Calls : c \in S /\ Cyclic(S)
  /\ Abort(c)

-----------------------------------------------------------------------------
Step(c) ==
  \/ PreloadProject(c) \/ InsertProject(c) \/ ReadBid(c) \/ LockProject(c)
  \/ AlreadySettled(c) \/ FindIntent(c) \/ InsertIntent(c) \/ IntentConflict(c)
  \/ TakeAdvisoryLock(c) \/ BidConflict(c) \/ ReadLeader(c)
  \/ CommitSettlement(c) \/ CommitReversal(c) \/ RecordReversal(c)

Next ==
  \/ \E c \in Calls : Step(c) \/ Crash(c) \/ DeadlockVictim(c)
  \/ \E p \in Projects, s \in Moderation : Moderate(p, s)

Spec == Init /\ [][Next]_vars

\* The event loop keeps running every call that is not waiting for a lock,
\* and the database resolves every deadlock; nobody has to crash.
FairSpec ==
  /\ Spec
  /\ \A c \in Calls : WF_vars(Step(c))
  /\ WF_vars(\E c \in Calls : DeadlockVictim(c))

-----------------------------------------------------------------------------
(* Properties.                                                             *)

Labels == {"idle", "lock", "find", "insert", "advisory", "leader", "commit",
           "audit", "done", "failed"}
IntentRow ==
  [amount : Nat \ {0}, verified : BOOLEAN, owner : Calls \cup {None}]
LogRow == [project : Projects, open : BOOLEAN]
Reading == [leader : Projects \cup {None}, open : Nat]

\* Every variable has its type.
TypeOK ==
  /\ status \in [Projects -> Status]
  /\ total \in [Projects -> Int]
  /\ count \in [Projects -> Int]
  /\ DOMAIN intent \subseteq Keys
  /\ intent \in [DOMAIN intent -> IntentRow]
  /\ DOMAIN bid \subseteq DOMAIN intent
  /\ bid \in [DOMAIN bid -> BidRow]
  /\ log \in Seq(LogRow)
  /\ audit \subseteq Calls
  /\ row \in [Projects -> Calls \cup {None}]
  /\ advisory \in Calls \cup {None}
  /\ req \in [Calls -> Request]
  /\ pc \in [Calls -> Labels]
  /\ DOMAIN orm \subseteq Calls
  /\ orm \in [DOMAIN orm -> [total : Int, count : Int]]
  /\ found \in [Calls -> Reading]

\* In every committed state the cached columns are the sums over the ledger
\* (docs/05, "Ledger integrity"; the load test's main assertion).
CacheMatchesLedger ==
  \A p \in Projects : /\ total[p] = LedgerTotal(bid, p)
                      /\ count[p] = LedgerCount(bid, p)

\* At most one leadership_log row is open: two calls that both see a new
\* leader never both open a row.
OneOpenRow == \A i, j \in OpenRows : i = j

\* Once the log has a row, its open row is for the #1 live project, whatever
\* calls commit in between (_update_leadership_log's docstring).
LogNamesLeader ==
  log # <<>> =>
    IF Live(status) = {} THEN OpenRows = {}
    ELSE /\ OpenRows # {}
         /\ log[NewestOpen].project = Leader(status, total)

\* What _update_leadership_log read is still so when its transaction writes
\* the log, because it holds the advisory lock from the reads to the commit:
\* the open row always, the leader when no admin changes a status meanwhile.
LogReadsHold ==
  \A c \in Calls :
    pc[c] = "commit" =>
      /\ found[c].open = NewestOpen
      /\ Moderation = {} =>
           found[c].leader = Leader(StatusSeenBy(c), TotalSeenBy(c))

\* History is not rewritten: a log row keeps its project and its place, and
\* once closed it stays closed (docs/03, refunds).
HistoryKept ==
  [][\A i \in DOMAIN log :
       /\ i \in DOMAIN log'
       /\ log'[i].project = log[i].project
       /\ log'[i].open => log[i].open]_vars

\* A call that answered success did what it was asked, also when another
\* call did it for it: the intent has a bid, the bid is reversed.
AnswersAreTrue ==
  \A c \in Calls :
    pc[c] = "done" =>
      /\ req[c].key \in DOMAIN bid
      /\ Reversing(c) => bid[req[c].key].reversed /\ c \in audit

HoldsRow(c) == pc[c] \in {"find", "insert", "advisory", "leader", "commit"}
Posting(c) == pc[c] \in {"advisory", "leader", "commit"}

\* Locks are held exactly while the code says so: the row of the target
\* from the SELECT ... FOR UPDATE to the end of the transaction, the advisory
\* lock from _update_leadership_log to the commit; an abort leaves neither.
LockDiscipline ==
  \A c \in Calls :
    /\ HoldsRow(c) => row[Target(c)] = c
    /\ \A p \in Projects : row[p] = c => HoldsRow(c) /\ p = Target(c)
    /\ advisory = c <=> pc[c] \in {"leader", "commit"}

\* An uncommitted intent belongs to a call that is about to settle it, and a
\* call that settles has an intent that is committed or its own: a crashed
\* call leaves no intent, and no two calls settle on one uncommitted intent.
IntentOwnership ==
  /\ \A k \in DOMAIN intent, c \in Calls :
       intent[k].owner = c => Posting(c) /\ ~Reversing(c) /\ req[c].key = k
  /\ \A c \in Calls :
       Posting(c) /\ ~Reversing(c) =>
         /\ req[c].key \in DOMAIN intent
         /\ intent[req[c].key].owner \in {None, c}
  /\ \A k \in DOMAIN bid : intent[k].owner = None

\* What a call learnt in an earlier statement is still so at its commit: a
\* reversal's bid exists, a settlement's does not.
ReadsStayTrue ==
  \A c \in Calls :
    /\ Reversing(c) /\ pc[c] \notin {"idle", "failed"} =>
         req[c].key \in DOMAIN bid
    /\ pc[c] = "lock" => req[c].kind \in {"mock", "reverse"}
    /\ pc[c] \in {"find", "insert"} => ~Reversing(c)
    /\ pc[c] = "commit" /\ ~Reversing(c) => req[c].key \notin DOMAIN bid
    /\ HoldsRow(c) => c \in DOMAIN orm

\* The inductive invariant of the control: true of every workload.
ControlInv == TypeOK /\ LockDiscipline /\ IntentOwnership /\ ReadsStayTrue

\* Every call comes to an end: no lock is kept and no cycle lasts.
EveryCallReturns == \A c \in Calls : <>(pc[c] \in {"done", "failed"})

\* The deployments in which the totals are right: no demo payments, which
\* load the project before locking it, and no two refunds of one bid at once.
SafeWorkload ==
  \A c, d \in Calls : \A r \in Workload[c], s \in Workload[d] :
    /\ r.kind # "mock"
    /\ r.kind = "reverse" /\ s.kind = "reverse" /\ r.key = s.key => c = d

\* The same of the requests that are in flight.
SafeRequests ==
  \A c, d \in Calls :
    /\ req[c].kind # "mock"
    /\ req[c].kind = "reverse" /\ req[d].kind = "reverse" /\ req[c].key = req[d].key
         => c = d

\* Whoever holds a project row has its current columns in the session, so
\* that adding to the copy adds to the row: no update is lost.
SessionsAreFresh ==
  \A c \in Calls :
    HoldsRow(c) => orm[c] = [total |-> total[Target(c)],
                             count |-> count[Target(c)]]

\* The inductive invariant of the money: sessions hold a project only under
\* its lock, a bid about to be reversed is not reversed yet, and a project
\* that is not on the board has nothing to its name.
MoneyInv ==
  /\ CacheMatchesLedger
  /\ SessionsAreFresh
  /\ \A c \in Calls :
       /\ req[c] \in Workload[c]
       /\ c \in DOMAIN orm => HoldsRow(c)
       /\ Reversing(c) /\ (HoldsRow(c) \/ pc[c] = "lock") =>
            ~bid[req[c].key].reversed
       /\ HoldsRow(c) =>
            (status[Target(c)] = "absent" <=> req[c].kind = "open")
  /\ \A p \in Projects : status[p] = "absent" =>
       \A k \in DOMAIN bid : bid[k].project # p

\* What a bid may amount to: an intent carries an amount somebody asked for.
AskedAmounts ==
  {Orders[k] : k \in DOMAIN Orders}
  \cup {r.amount : r \in UNION {Workload[c] : c \in Calls}}
AmountsAreAsked == \A k \in DOMAIN intent : intent[k].amount \in AskedAmounts

\* The money path implements Ledger: every step posts one bid with its
\* totals, reverses one bid with its totals, or changes neither.
Promise == INSTANCE Ledger WITH Amounts <- AskedAmounts
ImplementsLedger == Promise!Spec
=============================================================================
