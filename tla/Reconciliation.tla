---------------------------- MODULE Reconciliation ----------------------------
(***************************************************************************)
(* The nightly reconciliation job, run beside the calls of BidLedger: by   *)
(* cron and by an admin, at any time.  One statement compares the cached   *)
(* columns with the ledger; then the job loads the projects that differ,   *)
(* without FOR UPDATE, writes the sums of that first statement over them   *)
(* and commits.  Its UPDATEs take each row's lock until the commit.        *)
(***************************************************************************)
EXTENDS BidLedger

CONSTANT Jobs   \* runs of the job

VARIABLES
  job,     \* what each run does next
  fix,     \* the columns it is going to write, for the projects that differ
  loaded,  \* the columns its session has loaded
  held,    \* the projects it has updated and not committed
  calm     \* history: the runs under way since whose first statement no call
           \* has committed a posting, and no run that a call disturbed so a
           \* correction

jobVars == <<job, fix, loaded, held>>
reconVars == <<vars, jobVars, calm>>

Columns(p) == [total |-> total[p], count |-> count[p]]
Ledgered(table, p) == [total |-> LedgerTotal(table, p), count |-> LedgerCount(table, p)]
Present == {p \in Projects : status[p] # "absent"}
NoRows == [p \in {} |-> None]
Figures == <<bid, total, count>>

ReconInit ==
  /\ Init
  /\ job = [j \in Jobs |-> "idle"]
  /\ fix = [j \in Jobs |-> NoRows]
  /\ loaded = [j \in Jobs |-> NoRows]
  /\ held = [j \in Jobs |-> {}]
  /\ calm = {}

JobGoto(j, label) == job' = [job EXCEPT ![j] = label]

\* Variant: the sums are over all bids, reversed ones too.
RecomputeUnfiltered(j) ==
  LET all == [k \in DOMAIN bid |-> [bid[k] EXCEPT !.reversed = FALSE]]
  IN /\ job[j] = "idle"
     /\ fix' = [fix EXCEPT ![j] =
                  [p \in {q \in Present : Ledgered(all, q) # Columns(q)}
                     |-> Ledgered(all, p)]]
     /\ JobGoto(j, "load")
     /\ UNCHANGED <<loaded, held, vars>>

\* One SELECT reads the columns and the sums from one snapshot.
Recompute(j) ==
  /\ job[j] = "idle"
  /\ fix' = [fix EXCEPT ![j] =
               [p \in {q \in Present : Ledgered(bid, q) # Columns(q)}
                  |-> Ledgered(bid, p)]]
  /\ JobGoto(j, "load")
  /\ UNCHANGED <<loaded, held, vars>>

\* The projects the ORM has to update: it omits columns that do not change.
Dirty(j) == {p \in DOMAIN loaded[j] : loaded[j][p] # fix[j][p]}

\* session.get(Project): it flushes what the previous round changed first.
LoadProject(j, p) ==
  /\ job[j] = "load"
  /\ p \in DOMAIN fix[j] \ DOMAIN loaded[j]
  /\ Dirty(j) \subseteq held[j]
  /\ loaded' = [loaded EXCEPT ![j] = Insert(@, p, Columns(p))]
  /\ UNCHANGED <<job, fix, held, vars>>

\* UPDATE projects, once nobody else has the row locked.
Flush(j, p) ==
  /\ job[j] = "load"
  /\ p \in Dirty(j) \ held[j]
  /\ row[p] = None /\ \A i \in Jobs : p \notin held[i]
  /\ held' = [held EXCEPT ![j] = @ \cup {p}]
  /\ UNCHANGED <<job, fix, loaded, vars>>

\* A column after the job's UPDATE: only a changed one is written.
Written(j, p) ==
  [total |-> IF loaded[j][p].total = fix[j][p].total THEN total[p]
                                                     ELSE fix[j][p].total,
   count |-> IF loaded[j][p].count = fix[j][p].count THEN count[p]
                                                     ELSE fix[j][p].count]

\* Variant: the bid count is not corrected.
CommitReportTotalsOnly(j) ==
  /\ job[j] = "load"
  /\ DOMAIN loaded[j] = DOMAIN fix[j] /\ Dirty(j) \subseteq held[j]
  /\ total' = [p \in Projects |-> IF p \in held[j] THEN Written(j, p).total ELSE total[p]]
  /\ held' = [held EXCEPT ![j] = {}]
  /\ JobGoto(j, "done")
  /\ UNCHANGED <<status, count, intent, bid, log, audit, locks, req, pc, orm, found>>
  /\ UNCHANGED <<fix, loaded>>

\* The report row and the corrections; the leadership log is not touched.
CommitReport(j) ==
  /\ job[j] = "load"
  /\ DOMAIN loaded[j] = DOMAIN fix[j] /\ Dirty(j) \subseteq held[j]
  /\ total' = [p \in Projects |-> IF p \in held[j] THEN Written(j, p).total ELSE total[p]]
  /\ count' = [p \in Projects |-> IF p \in held[j] THEN Written(j, p).count ELSE count[p]]
  /\ held' = [held EXCEPT ![j] = {}]
  /\ JobGoto(j, "done")
  /\ UNCHANGED <<status, intent, bid, log, audit, locks, req, pc, orm, found>>
  /\ UNCHANGED <<fix, loaded>>

\* Variant: the session of a run that fails is not rolled back.
JobDiesHolding(j) ==
  /\ job[j] = "load"
  /\ JobGoto(j, "failed")
  /\ UNCHANGED <<held, fix, loaded, vars>>

\* The run dies, or is the victim of a deadlock with another run.
JobDies(j) ==
  /\ job[j] = "load"
  /\ held' = [held EXCEPT ![j] = {}]
  /\ JobGoto(j, "failed")
  /\ UNCHANGED <<fix, loaded, vars>>

JobStep(j) ==
  \/ Recompute(j) \/ CommitReport(j) \/ JobDies(j)
  \/ \E p \in Projects : LoadProject(j, p) \/ Flush(j, p)

\* A row that a job has updated is locked for calls and admins.
LockedByJobs == UNION {held[j] : j \in Jobs}
CallStep ==
  /\ Next
  /\ \A p \in LockedByJobs : row'[p] = row[p] /\ status'[p] = status[p]
  /\ UNCHANGED jobVars

\* A step that leaves the tables as they are, or corrects them from sums that
\* still hold.
Undisturbing ==
  UNCHANGED Figures \/ \E i \in calm : job[i] = "load" /\ job'[i] = "done"

Watch ==
  calm' = {j \in Jobs : /\ job'[j] = "load"
                        /\ job[j] = "idle" \/ (j \in calm /\ Undisturbing)}

ReconNext == (CallStep \/ \E j \in Jobs : JobStep(j)) /\ Watch
ReconSpec == ReconInit /\ [][ReconNext]_reconVars

-----------------------------------------------------------------------------
(* Properties.                                                             *)

\* Every variable of the job has its type; a run that has ended holds no row.
JobsOK ==
  /\ job \in [Jobs -> {"idle", "load", "done", "failed"}]
  /\ calm \subseteq {j \in Jobs : job[j] = "load"}
  /\ \A j \in Jobs :
       /\ DOMAIN fix[j] \subseteq Projects
       /\ fix[j] \in [DOMAIN fix[j] -> [total : Int, count : Int]]
       /\ DOMAIN loaded[j] \subseteq DOMAIN fix[j]
       /\ loaded[j] \in [DOMAIN loaded[j] -> [total : Int, count : Int]]
       /\ held[j] \subseteq Dirty(j)
       /\ held[j] # {} => job[j] = "load"

NothingDiffers == \A j \in Jobs : DOMAIN fix[j] = {}

\* Among calls that keep the totals right, the job never raises an alert,
\* whatever is half done while it looks, and so never writes a total.
NoFalseAlarm == SafeRequests => NothingDiffers

\* A run during which no call committed a posting leaves every project right,
\* whatever the drift was and whichever other such runs corrected the same rows
\* beside it (docs/01, "Rebuild/repair"; the exit criterion of docs/07, phase 6).
QuietRunRepairs ==
  [][\A j \in Jobs :
       job[j] = "load" /\ job'[j] = "done" /\ j \in calm
         => CacheMatchesLedger']_reconVars

\* What a run corrects is right when it is committed, also while bids come
\* in (docs/03: "auto-correct the cache").
CorrectionsAreRight ==
  [][\A j \in Jobs : \A p \in held[j] :
       job'[j] = "done" =>
         total'[p] = LedgerTotal(bid', p) /\ count'[p] = LedgerCount(bid', p)]_reconVars
=============================================================================
