------------------------- MODULE ReconciliationProofs -------------------------
(***************************************************************************)
(* Proof that the reconciliation job is harmless where totals do not       *)
(* drift: its comparison reads one committed state, in which MoneyInv says *)
(* that every project agrees with the ledger, so it finds nothing, locks   *)
(* nothing and writes nothing, and the calls run as if it were not there.  *)
(* Where totals drift it does write, and a run during which no call        *)
(* committed a posting leaves every project right, whichever other such    *)
(* runs are beside it: that needs no assumption on the workload.           *)
(***************************************************************************)
EXTENDS Reconciliation, BidLedgerProofs

\* The inductive invariant of the jobs: nothing to correct, load or
\* lock.
NothingToFix ==
  /\ DOMAIN fix = Jobs /\ NothingDiffers
  /\ \A j \in Jobs : DOMAIN loaded[j] = {}
  /\ held = [j \in Jobs |-> {}]

\* The opening state of the composition is one of BidLedger with idle jobs.
LEMMA InitHasNothingToFix == ReconInit => Init /\ NothingToFix
<1> SUFFICES ASSUME ReconInit PROVE Init /\ NothingToFix
  OBVIOUS
<1>1. \A j \in Jobs : DOMAIN fix[j] = {} /\ DOMAIN loaded[j] = {}
  BY DEF ReconInit, NoRows
<1> QED BY <1>1 DEF ReconInit, NothingToFix, NothingDiffers

\* A comparison that reads a state in which the totals are right finds no
\* project that differs.
LEMMA RecomputeFindsNothing ==
  ASSUME MoneyInv, NothingToFix, NEW j \in Jobs, Recompute(j)
  PROVE  NothingToFix'
<1> DEFINE differ == {q \in Present : Ledgered(bid, q) # Columns(q)}
           new == [p \in differ |-> Ledgered(bid, p)]
<1>1. differ = {}
  BY DEF MoneyInv, CacheMatchesLedger, Present, Ledgered, Columns
<1>2. fix' = [fix EXCEPT ![j] = new] /\ held' = held /\ loaded' = loaded
  BY DEF Recompute
<1>3. DOMAIN new = {}
  BY <1>1
<1> HIDE DEF new
<1>4. DOMAIN fix' = Jobs /\ \A i \in Jobs : DOMAIN fix'[i] = {}
  BY <1>2, <1>3 DEF NothingToFix, NothingDiffers
<1> QED BY <1>2, <1>4 DEF NothingToFix, NothingDiffers

\* Every other step of a job leaves the tables and the locks as they are.
LEMMA JobStepIsHarmless ==
  ASSUME ControlInv, MoneyInv, NothingToFix, NEW j \in Jobs, JobStep(j)
  PROVE  NothingToFix' /\ UNCHANGED vars
<1>1. ASSUME Recompute(j) PROVE NothingToFix' /\ UNCHANGED vars
  BY <1>1, RecomputeFindsNothing DEF Recompute
<1>2. ASSUME NEW p \in Projects PROVE ~LoadProject(j, p)
  BY DEF LoadProject, NothingToFix, NothingDiffers
<1>3. ASSUME NEW p \in Projects, Flush(j, p) PROVE FALSE
  BY <1>3 DEF Flush, Dirty, NothingToFix
<1>4. ASSUME CommitReport(j) PROVE NothingToFix' /\ UNCHANGED vars
  <2>1. held[j] = {} /\ held' = held
    BY <1>4 DEF CommitReport, NothingToFix
  <2>2. total' = total /\ count' = count
    BY <1>4, <2>1 DEF CommitReport, ControlInv, TypeOK
  <2> QED BY <1>4, <2>1, <2>2
          DEF CommitReport, NothingToFix, NothingDiffers, vars, db
<1>5. ASSUME JobDies(j) PROVE NothingToFix' /\ UNCHANGED vars
  <2>1. held' = held
    BY <1>5 DEF JobDies, NothingToFix
  <2> QED BY <1>5, <2>1 DEF JobDies, NothingToFix, NothingDiffers
<1> QED BY <1>1, <1>2, <1>3, <1>4, <1>5 DEF JobStep

\* A step of the composition is, for the calls, one of theirs or none.
LEMMA HarmlessStep ==
  ASSUME ControlInv, MoneyInv, NothingToFix, [ReconNext]_reconVars
  PROVE  [Next]_vars /\ NothingToFix'
<1>1. CASE CallStep
  BY <1>1 DEF CallStep, jobVars, NothingToFix, NothingDiffers
<1>2. CASE UNCHANGED reconVars
  BY <1>2 DEF reconVars, jobVars, NothingToFix, NothingDiffers
<1>3. ASSUME NEW j \in Jobs, JobStep(j) PROVE [Next]_vars /\ NothingToFix'
  BY <1>3, JobStepIsHarmless
<1> QED BY <1>1, <1>2, <1>3 DEF ReconNext

-----------------------------------------------------------------------------
(* Where totals do drift: types of the jobs.                               *)

\* What a comparison finds has the columns of a project.
LEMMA SumsTyped ==
  ASSUME ControlInv, NEW p
  PROVE  Ledgered(bid, p) \in [total : Int, count : Int]
<1>1. IsFiniteSet(DOMAIN bid) /\ bid \in [DOMAIN bid -> BidRow]
  <2>1. DOMAIN bid \subseteq Keys
    BY DEF ControlInv, TypeOK
  <2> QED BY <2>1, FS_Subset, IdsAssumption DEF ControlInv, TypeOK
<1>2. LedgerTotal(bid, p) \in Nat /\ LedgerCount(bid, p) \in Nat
  BY <1>1, CountedFinite
<1> QED BY <1>2 DEF Ledgered

\* A commit writes numbers, and nothing that the calls' control depends on.
LEMMA CommitReportKeepsControl ==
  ASSUME ControlInv, JobsOK, NEW j \in Jobs, CommitReport(j)
  PROVE  ControlInv'
<1>1. ASSUME NEW p \in held[j]
      PROVE  Written(j, p).total \in Int /\ Written(j, p).count \in Int
  <2>1. p \in DOMAIN loaded[j] /\ p \in DOMAIN fix[j] /\ p \in Projects
    BY DEF JobsOK, Dirty
  <2>2. loaded[j][p] \in [total : Int, count : Int] /\ fix[j][p] \in [total : Int, count : Int]
    BY <2>1 DEF JobsOK
  <2>3. total[p] \in Int /\ count[p] \in Int
    BY <2>1 DEF ControlInv, TypeOK
  <2> QED BY <2>2, <2>3 DEF Written
<1>2. total' \in [Projects -> Int] /\ count' \in [Projects -> Int]
  BY <1>1 DEF CommitReport, ControlInv, TypeOK
<1>3. UNCHANGED <<status, intent, bid, log, audit, row, advisory, req, pc, orm, found>>
  BY DEF CommitReport, locks
<1>4. TypeOK'
  BY <1>2, <1>3 DEF ControlInv, TypeOK
<1>5. LockDiscipline'
  BY <1>3 DEF ControlInv, LockDiscipline, HoldsRow, Target, Reversing
<1>6. IntentOwnership'
  BY <1>3 DEF ControlInv, IntentOwnership, Posting, Reversing
<1>7. ReadsStayTrue'
  BY <1>3 DEF ControlInv, ReadsStayTrue, HoldsRow, Reversing
<1> QED BY <1>4, <1>5, <1>6, <1>7 DEF ControlInv

\* JobsOK, and nothing is loaded before the comparison.
JobsInv ==
  /\ JobsOK
  /\ DOMAIN fix = Jobs /\ DOMAIN loaded = Jobs /\ DOMAIN held = Jobs
  /\ \A j \in Jobs : job[j] = "idle" => DOMAIN loaded[j] = {}

\* At the start every run is idle and holds nothing.
LEMMA InitHasJobs == ReconInit => JobsInv
<1> SUFFICES ASSUME ReconInit PROVE JobsInv
  OBVIOUS
<1>1. /\ DOMAIN NoRows = {}
      /\ NoRows \in [{} -> [total : Int, count : Int]]
  BY DEF NoRows
<1>2. /\ fix = [j \in Jobs |-> NoRows] /\ loaded = [j \in Jobs |-> NoRows]
      /\ held = [j \in Jobs |-> {}] /\ job = [j \in Jobs |-> "idle"]
      /\ calm = {}
  BY DEF ReconInit
<1> HIDE DEF NoRows
<1> QED BY <1>1, <1>2 DEF JobsInv, JobsOK

\* A run's steps keep its types.
LEMMA JobStepKeepsJobs ==
  ASSUME ControlInv, JobsInv, NEW j \in Jobs, JobStep(j), Watch
  PROVE  JobsInv'
<1> DEFINE Cols == [total : Int, count : Int]
<1>0. /\ DOMAIN fix = Jobs /\ DOMAIN loaded = Jobs /\ DOMAIN held = Jobs
      /\ job \in [Jobs -> {"idle", "load", "done", "failed"}]
      /\ calm' \subseteq {i \in Jobs : job'[i] = "load"}
      /\ \A i \in Jobs :
           /\ DOMAIN fix[i] \subseteq Projects /\ fix[i] \in [DOMAIN fix[i] -> Cols]
           /\ DOMAIN loaded[i] \subseteq DOMAIN fix[i] /\ loaded[i] \in [DOMAIN loaded[i] -> Cols]
           /\ held[i] \subseteq Dirty(i) /\ (held[i] # {} => job[i] = "load")
           /\ job[i] = "idle" => DOMAIN loaded[i] = {}
  BY DEF JobsInv, JobsOK, Watch
<1>1. CASE Recompute(j)
  <2> DEFINE new == [p \in {q \in Present : Ledgered(bid, q) # Columns(q)} |-> Ledgered(bid, p)]
  <2>1. new \in [DOMAIN new -> Cols] /\ DOMAIN new \subseteq Projects
    BY SumsTyped DEF Present
  <2>2. /\ fix' = [fix EXCEPT ![j] = new] /\ job' = [job EXCEPT ![j] = "load"]
        /\ UNCHANGED <<loaded, held>> /\ job[j] = "idle"
    BY <1>1 DEF Recompute, JobGoto
  <2>3. DOMAIN loaded[j] = {} /\ held[j] = {}
    BY <1>0, <2>2
  <2> HIDE DEF new
  <2>4. \A i \in Jobs : i # j => Dirty(i)' = Dirty(i)
    BY <1>0, <2>2 DEF Dirty
  <2>5. /\ DOMAIN fix' = Jobs /\ fix'[j] = new /\ \A i \in Jobs : i # j => fix'[i] = fix[i]
        /\ job' \in [Jobs -> {"idle", "load", "done", "failed"}]
        /\ job'[j] = "load" /\ \A i \in Jobs : i # j => job'[i] = job[i]
    BY <1>0, <2>2
  <2> QED BY <1>0, <2>1, <2>2, <2>3, <2>4, <2>5 DEF JobsInv, JobsOK
<1>2. ASSUME NEW p \in Projects, LoadProject(j, p) PROVE JobsInv'
  <2> DEFINE new == Insert(loaded[j], p, Columns(p))
  <2>1. /\ p \in DOMAIN fix[j] \ DOMAIN loaded[j] /\ loaded' = [loaded EXCEPT ![j] = new]
        /\ UNCHANGED <<job, fix, held>> /\ job[j] = "load"
    BY <1>2 DEF LoadProject
  <2>2. Columns(p) \in Cols
    BY DEF Columns, ControlInv, TypeOK
  <2>3. /\ DOMAIN new = DOMAIN loaded[j] \cup {p} /\ new \in [DOMAIN new -> Cols]
        /\ \A q \in DOMAIN loaded[j] : new[q] = loaded[j][q]
    BY <1>0, <2>2 DEF Insert
  <2> HIDE DEF new
  <2>4. /\ DOMAIN loaded' = Jobs /\ loaded'[j] = new
        /\ \A i \in Jobs : i # j => loaded'[i] = loaded[i]
    BY <1>0, <2>1
  <2>5. \A i \in Jobs : Dirty(i) \subseteq Dirty(i)'
    BY <2>1, <2>3, <2>4 DEF Dirty
  <2> QED BY <1>0, <2>1, <2>3, <2>4, <2>5 DEF JobsInv, JobsOK
<1>3. ASSUME NEW p \in Projects, Flush(j, p) PROVE JobsInv'
  <2>1. /\ p \in Dirty(j) /\ UNCHANGED <<job, fix, loaded>> /\ job[j] = "load"
        /\ DOMAIN held' = Jobs /\ held'[j] = held[j] \cup {p}
        /\ \A i \in Jobs : i # j => held'[i] = held[i]
    BY <1>0, <1>3 DEF Flush
  <2>2. \A i \in Jobs : Dirty(i)' = Dirty(i)
    BY <2>1 DEF Dirty
  <2> QED BY <1>0, <2>1, <2>2 DEF JobsInv, JobsOK
<1>4. CASE CommitReport(j) \/ JobDies(j)
  <2>1. /\ held' = [held EXCEPT ![j] = {}] /\ UNCHANGED <<fix, loaded>>
        /\ \E label \in {"done", "failed"} : job' = [job EXCEPT ![j] = label]
    BY <1>4 DEF CommitReport, JobDies, JobGoto
  <2>2. \A i \in Jobs : Dirty(i)' = Dirty(i)
    BY <2>1 DEF Dirty
  <2>3. /\ DOMAIN held' = Jobs /\ held'[j] = {} /\ \A i \in Jobs : i # j => held'[i] = held[i]
        /\ job' \in [Jobs -> {"idle", "load", "done", "failed"}]
        /\ job'[j] # "idle" /\ \A i \in Jobs : i # j => job'[i] = job[i]
    BY <1>0, <2>1
  <2> QED BY <1>0, <2>1, <2>2, <2>3 DEF JobsInv, JobsOK
<1> QED BY <1>1, <1>2, <1>3, <1>4 DEF JobStep

\* A step of the composition keeps the control of the calls and of the runs.
LEMMA NextKeepsJobs ==
  ASSUME ControlInv, JobsInv, [ReconNext]_reconVars
  PROVE  ControlInv' /\ JobsInv'
<1>1. CASE CallStep /\ Watch
  <2>1. UNCHANGED <<job, fix, loaded, held>>
    BY <1>1 DEF CallStep, jobVars
  <2>2. JobsInv'
    BY <1>1, <2>1 DEF JobsInv, JobsOK, Dirty, Watch
  <2> QED BY <1>1, <2>2, NextKeepsControl DEF CallStep
<1>2. CASE UNCHANGED reconVars
  <2>1. UNCHANGED vars /\ UNCHANGED <<job, fix, loaded, held, calm>>
    BY <1>2 DEF reconVars, jobVars
  <2>2. JobsInv'
    BY <2>1 DEF JobsInv, JobsOK, Dirty
  <2> QED BY <2>1, <2>2, NextKeepsControl
<1>3. ASSUME NEW j \in Jobs, JobStep(j), Watch PROVE ControlInv' /\ JobsInv'
  <2>1. JobsInv'
    BY <1>3, JobStepKeepsJobs
  <2>2. CASE CommitReport(j)
    BY <2>1, <2>2, CommitReportKeepsControl DEF JobsInv
  <2>3. CASE ~CommitReport(j)
    <3>1. UNCHANGED vars
      BY <1>3, <2>3 DEF JobStep, Recompute, LoadProject, Flush, JobDies
    <3> QED BY <2>1, <3>1, NextKeepsControl
  <2> QED BY <2>2, <2>3
<1> QED BY <1>1, <1>2, <1>3 DEF ReconNext

\* Whatever the totals are, a run that has ended holds no row, and the calls'
\* control is not disturbed by runs of the job.
THEOREM JobsAreTyped == ReconSpec => [](ControlInv /\ JobsOK)
<1>1. ReconInit => ControlInv /\ JobsInv
  BY InitHasJobs, InitHasControl DEF ReconInit
<1>2. JobsInv => JobsOK
  BY DEF JobsInv
<1> QED BY <1>1, <1>2, NextKeepsJobs, PTL DEF ReconSpec

-----------------------------------------------------------------------------
(* Where totals do not drift.                                              *)

\* The inductive invariant: while only requests are in flight that keep the
\* totals, there is nothing to fix.
HarmlessInv == SafeRequests => MoneyInv /\ NothingToFix

\* Every step keeps HarmlessInv and, for the calls, is one of theirs or none.
LEMMA NextIsHarmless ==
  ASSUME ControlInv, HarmlessInv, [ReconNext]_reconVars
  PROVE  HarmlessInv' /\ (SafeRequests => SafeRequests' /\ [Next]_vars)
<1>1. SafeRequests' <=> SafeRequests
  <2>1. CASE [Next]_vars
    BY <2>1, RequestsKept
  <2>2. CASE ~[Next]_vars
    <3>1. PICK j \in Jobs : JobStep(j)
      BY <2>2 DEF ReconNext, CallStep, reconVars
    <3>2. req' = req
      BY <3>1 DEF JobStep, Recompute, LoadProject, Flush, CommitReport, JobDies, vars
    <3> QED BY <3>2 DEF SafeRequests
  <2> QED BY <2>1, <2>2
<1>2. ASSUME SafeRequests PROVE MoneyInv' /\ NothingToFix' /\ [Next]_vars
  BY <1>2, HarmlessStep, NextKeepsMoney DEF HarmlessInv
<1> QED BY <1>1, <1>2 DEF HarmlessInv

\* With one refund per bid and no demo payments in flight, runs of the job at
\* any time raise no alert and leave the totals right, for every set of calls.
THEOREM ReconciliationIsHarmless ==
  ReconSpec => [](NoFalseAlarm /\ (SafeRequests => CacheMatchesLedger))
<1>1. ReconInit => HarmlessInv
  BY InitHasNothingToFix, InitHasMoney DEF HarmlessInv
<1>2. HarmlessInv => NoFalseAlarm /\ (SafeRequests => CacheMatchesLedger)
  BY DEF HarmlessInv, NothingToFix, NoFalseAlarm, MoneyInv
<1> QED BY <1>1, <1>2, NextIsHarmless, JobsAreTyped, PTL DEF ReconSpec

-----------------------------------------------------------------------------
(* A run that nobody disturbs.                                             *)

\* A project that is not on the board has nothing to its name, and nobody
\* is about to settle on one: LockProject looks for the row.
AbsentInv ==
  /\ \A p \in Projects : status[p] = "absent" =>
       /\ total[p] = 0 /\ count[p] = 0
       /\ \A k \in DOMAIN bid : bid[k].project # p
  /\ \A c \in Calls : HoldsRow(c) /\ ~Reversing(c) /\ req[c].kind # "open" =>
       status[req[c].project] # "absent"

\* A run corrects projects that are on the board.
FixesPresent == \A j \in Jobs : \A p \in DOMAIN fix[j] : status[p] # "absent"

\* A column is as run j loaded it, or another run has corrected it since.
TotalKept(j, p) == total[p] = loaded[j][p].total \/ total[p] = LedgerTotal(bid, p)
CountKept(j, p) == count[p] = loaded[j][p].count \/ count[p] = LedgerCount(bid, p)

\* What an undisturbed run found is still so; what it loaded is, or is right now.
CalmInv ==
  \A j \in calm : \A p \in Projects :
    /\ p \in DOMAIN fix[j] => fix[j][p] = Ledgered(bid, p)
    /\ p \notin DOMAIN fix[j] => Ledgered(bid, p) = Columns(p)
    /\ p \in DOMAIN loaded[j] => TotalKept(j, p) /\ CountKept(j, p)

QuietInv == ControlInv /\ JobsInv /\ AbsentInv /\ FixesPresent /\ CalmInv

\* A project without bids has a ledger of nothing.
LEMMA NothingLedgered ==
  ASSUME NEW table, NEW p, \A k \in DOMAIN table : table[k].project # p
  PROVE  Ledgered(table, p) = [total |-> 0, count |-> 0]
<1>1. Counted(table, p) = {}
  BY DEF Counted
<1>2. Paise(table, p) = {}
  BY <1>1 DEF Paise
<1> QED BY <1>1, <1>2, FS_EmptySet DEF Ledgered, LedgerTotal, LedgerCount

\* At the start the columns are the sums of the seeded bids.
LEMMA InitIsQuiet == ReconInit => QuietInv
<1> SUFFICES ASSUME ReconInit PROVE QuietInv
  OBVIOUS
<1>1. Init /\ calm = {} /\ \A j \in Jobs : DOMAIN fix[j] = {}
  BY DEF ReconInit, NoRows
<1>2. ASSUME NEW p \in Projects, status[p] = "absent"
      PROVE  /\ total[p] = 0 /\ count[p] = 0
             /\ \A k \in DOMAIN bid : bid[k].project # p
  <2>1. \A k \in DOMAIN bid : bid[k].project # p
    BY <1>1, <1>2, OpeningAssumption DEF Init
  <2>2. Ledgered(bid, p) = [total |-> 0, count |-> 0]
    BY <2>1, NothingLedgered
  <2>3. total[p] = LedgerTotal(bid, p) /\ count[p] = LedgerCount(bid, p)
    BY <1>1 DEF Init
  <2> QED BY <2>1, <2>2, <2>3 DEF Ledgered
<1>3. \A c \in Calls : ~HoldsRow(c)
  BY <1>1 DEF Init, HoldsRow
<1> QED BY <1>1, <1>2, <1>3, InitHasControl, InitHasJobs
        DEF QuietInv, AbsentInv, FixesPresent, CalmInv

\* Steps that write neither a table nor a column, of a call that ends up
\* with a project on the board or with none.
LEMMA IdlerKeepsAbsent ==
  ASSUME ControlInv, AbsentInv, NEW c \in Calls,
         UNCHANGED <<status, total, count, bid, req>>,
         \A x \in Calls \ {c} : pc'[x] = pc[x],
         HoldsRow(c)' /\ ~Reversing(c) /\ req[c].kind # "open" =>
           status[req[c].project] # "absent"
  PROVE  AbsentInv'
<1>1. \A x \in Calls \ {c} : HoldsRow(x)' <=> HoldsRow(x)
  BY DEF HoldsRow
<1>2. \A x \in Calls : Reversing(x)' <=> Reversing(x)
  BY DEF Reversing
<1> QED BY <1>1, <1>2 DEF AbsentInv

\* A settlement or an opening writes to a project that is on the board
\* afterwards, and takes none off it.
LEMMA SettlementKeepsAbsent ==
  ASSUME ControlInv, AbsentInv, NEW c \in Calls, CommitSettlement(c)
  PROVE  AbsentInv' /\ \A p \in Projects : status[p] # "absent" => status'[p] # "absent"
<1> DEFINE p == req[c].project
           new == [project |-> p, amount |-> intent[req[c].key].amount, reversed |-> FALSE]
<1>1. /\ pc[c] = "commit" /\ ~Reversing(c) /\ Target(c) = p /\ p \in Projects
      /\ req' = req /\ pc' = [pc EXCEPT ![c] = "done"]
      /\ total' = [total EXCEPT ![p] = NewTotal(c)]
      /\ count' = [count EXCEPT ![p] = NewCount(c)]
      /\ bid' = Insert(bid, req[c].key, new)
  BY DEF CommitSettlement, Target, TotalSeenBy, CountSeenBy, Goto, ControlInv,
         TypeOK, Request
<1>2. status'[p] # "absent" /\ \A q \in Projects \ {p} : status'[q] = status[q]
  <2>1. HoldsRow(c)
    BY <1>1 DEF HoldsRow
  <2>2. status' = IF req[c].kind = "open" THEN [status EXCEPT ![p] = "live"] ELSE status
    BY DEF CommitSettlement, StatusSeenBy
  <2>3. req[c].kind # "open" => status[p] # "absent"
    BY <1>1, <2>1 DEF AbsentInv
  <2>4. status \in [Projects -> Status]
    BY DEF ControlInv, TypeOK
  <2> QED BY <1>1, <2>2, <2>3, <2>4
<1>3. ASSUME NEW q \in Projects, status'[q] = "absent"
      PROVE  /\ total'[q] = 0 /\ count'[q] = 0
             /\ \A k \in DOMAIN bid' : bid'[k].project # q
  <2>1. q # p /\ status[q] = "absent"
    BY <1>2, <1>3
  <2>2. total'[q] = 0 /\ count'[q] = 0
    BY <1>1, <2>1 DEF AbsentInv, ControlInv, TypeOK
  <2>3. \A k \in DOMAIN bid' : bid'[k] = new \/ (k \in DOMAIN bid /\ bid'[k] = bid[k])
    BY <1>1 DEF Insert
  <2>4. new.project # q
    BY <2>1
  <2> HIDE DEF new
  <2> QED BY <2>1, <2>2, <2>3, <2>4 DEF AbsentInv
<1>4. ASSUME NEW x \in Calls, HoldsRow(x)', ~Reversing(x)', req'[x].kind # "open"
      PROVE  status'[req'[x].project] # "absent"
  <2>1. pc'[x] = pc[x]
    BY <1>1, <1>4 DEF HoldsRow, ControlInv, TypeOK
  <2>2. HoldsRow(x) /\ ~Reversing(x) /\ req[x].kind # "open" /\ req[x].project \in Projects
    BY <1>1, <1>4, <2>1 DEF HoldsRow, Reversing, ControlInv, TypeOK, Request
  <2>3. status[req[x].project] # "absent"
    BY <2>2 DEF AbsentInv
  <2> QED BY <1>1, <1>2, <2>2, <2>3
<1>5. \A q \in Projects : status[q] # "absent" => status'[q] # "absent"
  BY <1>2
<1> HIDE DEF p
<1> QED BY <1>3, <1>4, <1>5 DEF AbsentInv

\* A reversal writes to the project of a bid, which is on the board.
LEMMA ReversalKeepsAbsent ==
  ASSUME ControlInv, AbsentInv, NEW c \in Calls, CommitReversal(c)
  PROVE  AbsentInv'
<1> DEFINE k == req[c].key
           p == bid[k].project
<1>1. /\ pc[c] = "commit" /\ Reversing(c) /\ Target(c) = p
      /\ req' = req /\ status' = status /\ pc' = [pc EXCEPT ![c] = "audit"]
      /\ total' = [total EXCEPT ![p] = NewTotal(c)]
      /\ count' = [count EXCEPT ![p] = NewCount(c)]
      /\ bid' = [bid EXCEPT ![k].reversed = TRUE]
  BY DEF CommitReversal, Target, TotalSeenBy, CountSeenBy, Goto
<1>2. k \in DOMAIN bid /\ p \in Projects
  BY <1>1 DEF ControlInv, TypeOK, ReadsStayTrue, BidRow
<1>3. status[p] # "absent"
  BY <1>2 DEF AbsentInv
<1>4. DOMAIN bid' = DOMAIN bid /\ \A x \in DOMAIN bid : bid'[x].project = bid[x].project
  BY <1>1 DEF ControlInv, TypeOK, BidRow
<1>5. ASSUME NEW q \in Projects, status'[q] = "absent"
      PROVE  /\ total'[q] = 0 /\ count'[q] = 0
             /\ \A x \in DOMAIN bid' : bid'[x].project # q
  <2>1. q # p /\ status[q] = "absent"
    BY <1>1, <1>3, <1>5
  <2>2. total'[q] = 0 /\ count'[q] = 0
    BY <1>1, <2>1 DEF AbsentInv, ControlInv, TypeOK
  <2> QED BY <1>4, <2>1, <2>2 DEF AbsentInv
<1>6. ASSUME NEW x \in Calls, HoldsRow(x)', ~Reversing(x)', req'[x].kind # "open"
      PROVE  status'[req'[x].project] # "absent"
  <2>1. pc'[x] = pc[x]
    BY <1>1, <1>6 DEF HoldsRow, ControlInv, TypeOK
  <2>2. HoldsRow(x) /\ ~Reversing(x) /\ req[x].kind # "open"
    BY <1>1, <1>6, <2>1 DEF HoldsRow, Reversing
  <2> QED BY <1>1, <2>2 DEF AbsentInv
<1> QED BY <1>5, <1>6 DEF AbsentInv

\* No step of a call or an admin takes a project off the board, or gives one
\* that is not on it a bid or a total.
LEMMA CallsKeepAbsent ==
  ASSUME ControlInv, AbsentInv, [Next]_vars
  PROVE  AbsentInv' /\ \A p \in Projects : status[p] # "absent" => status'[p] # "absent"
<1> DEFINE Goal ==
      AbsentInv' /\ \A p \in Projects : status[p] # "absent" => status'[p] # "absent"
<1>1. ASSUME NEW c \in Calls, CommitSettlement(c) PROVE Goal
  BY <1>1, SettlementKeepsAbsent
<1>2. ASSUME NEW c \in Calls, CommitReversal(c) PROVE Goal
  BY <1>2, ReversalKeepsAbsent DEF CommitReversal
<1>3. ASSUME NEW c \in Calls, LockProject(c) PROVE Goal
  <2>1. /\ UNCHANGED <<status, total, count, bid, req>>
        /\ \A x \in Calls \ {c} : pc'[x] = pc[x]
    BY <1>3 DEF LockProject, db, Goto, ControlInv, TypeOK
  <2>2. status[Target(c)] = "absent" => ~HoldsRow(c)'
    BY <1>3 DEF LockProject, Goto, HoldsRow, ControlInv, TypeOK
  <2>3. ~Reversing(c) => Target(c) = req[c].project
    BY DEF Target
  <2> QED BY <2>1, <2>2, <2>3, IdlerKeepsAbsent
<1>4. ASSUME NEW c \in Calls,
             \/ PreloadProject(c) \/ InsertProject(c) \/ ReadBid(c)
             \/ AlreadySettled(c) \/ FindIntent(c) \/ InsertIntent(c)
             \/ TakeAdvisoryLock(c) \/ ReadLeader(c) \/ RecordReversal(c) \/ Abort(c)
      PROVE  Goal
  <2>1. /\ UNCHANGED <<status, total, count, bid, req>>
        /\ \A x \in Calls \ {c} : pc'[x] = pc[x]
    BY <1>4 DEF PreloadProject, InsertProject, ReadBid, AlreadySettled, FindIntent,
       InsertIntent, TakeAdvisoryLock, ReadLeader, RecordReversal, Abort, db, Goto,
       ControlInv, TypeOK
  <2>2. HoldsRow(c)' => HoldsRow(c) \/ req[c].kind = "open"
    BY <1>4 DEF PreloadProject, InsertProject, ReadBid, AlreadySettled, FindIntent,
       InsertIntent, TakeAdvisoryLock, ReadLeader, RecordReversal, Abort, Goto,
       HoldsRow, ControlInv, TypeOK
  <2>3. HoldsRow(c)' /\ ~Reversing(c) /\ req[c].kind # "open" =>
          status[req[c].project] # "absent"
    BY <2>2 DEF AbsentInv
  <2> QED BY <2>1, <2>3, IdlerKeepsAbsent
<1>5. ASSUME NEW p \in Projects, NEW s \in Moderation, Moderate(p, s) PROVE Goal
  <2>1. /\ UNCHANGED <<total, count, bid, req, pc>>
        /\ status' = [status EXCEPT ![p] = s] /\ status[p] # "absent" /\ s # "absent"
    BY <1>5, ModerationAssumption DEF Moderate
  <2>2. \A q \in Projects : status'[q] = "absent" <=> status[q] = "absent"
    BY <2>1 DEF ControlInv, TypeOK
  <2>3. \A x \in Calls : /\ HoldsRow(x)' <=> HoldsRow(x)
                         /\ Reversing(x)' <=> Reversing(x)
                         /\ req[x].project \in Projects
    BY <2>1 DEF HoldsRow, Reversing, ControlInv, TypeOK, Request
  <2> QED BY <2>1, <2>2, <2>3 DEF AbsentInv
<1>6. CASE UNCHANGED vars
  BY <1>6 DEF vars, db, AbsentInv, HoldsRow, Reversing
<1>7. ASSUME NEW c \in Calls, Step(c) \/ Crash(c) \/ DeadlockVictim(c) PROVE Goal
  BY <1>1, <1>2, <1>3, <1>4, <1>7
  DEF Step, IntentConflict, BidConflict, Crash, DeadlockVictim
<1>8. CASE Next
  BY <1>5, <1>7, <1>8 DEF Next
<1> QED BY <1>6, <1>8 DEF Goal

\* The corrections of a run go to projects on the board.
LEMMA CommitReportKeepsAbsent ==
  ASSUME ControlInv, JobsInv, AbsentInv, FixesPresent, NEW j \in Jobs, CommitReport(j)
  PROVE  AbsentInv'
<1>1. /\ UNCHANGED <<status, bid, req, pc>>
      /\ \A p \in Projects \ held[j] : total'[p] = total[p] /\ count'[p] = count[p]
  BY DEF CommitReport
<1>2. \A p \in held[j] : status[p] # "absent"
  BY DEF JobsInv, JobsOK, Dirty, FixesPresent
<1>3. \A x \in Calls : (HoldsRow(x)' <=> HoldsRow(x)) /\ (Reversing(x)' <=> Reversing(x))
  BY <1>1 DEF HoldsRow, Reversing
<1> QED BY <1>1, <1>2, <1>3 DEF AbsentInv

\* A run that gets done is one that commits.
LEMMA DoneCommits ==
  ASSUME QuietInv, \/ CallStep
                   \/ \E i \in Jobs : JobStep(i),
         NEW j \in Jobs, job[j] = "load", job'[j] = "done"
  PROVE  CommitReport(j)
<1>1. DOMAIN job = Jobs
  BY DEF QuietInv, JobsInv, JobsOK
<1>2. PICK i \in Jobs : JobStep(i)
  BY DEF CallStep, jobVars
<1> QED
  BY <1>1, <1>2 DEF JobStep, Recompute, LoadProject, Flush, CommitReport, JobDies, JobGoto

\* What an undisturbed run writes is right, and the projects it leaves alone are:
\* its sums still hold, and a column it omits is as it was or corrected already.
LEMMA CalmCommitCorrects ==
  ASSUME QuietInv, NEW j \in calm, j \in Jobs, CommitReport(j), NEW p \in Projects
  PROVE  total'[p] = LedgerTotal(bid, p) /\ count'[p] = LedgerCount(bid, p)
<1>1. /\ DOMAIN loaded[j] = DOMAIN fix[j] /\ held[j] = Dirty(j)
      /\ total'[p] = IF p \in held[j] THEN Written(j, p).total ELSE total[p]
      /\ count'[p] = IF p \in held[j] THEN Written(j, p).count ELSE count[p]
  BY DEF CommitReport, QuietInv, JobsInv, JobsOK
<1>2. CASE p \notin DOMAIN fix[j]
  <2>1. p \notin held[j] /\ Ledgered(bid, p) = Columns(p)
    BY <1>1, <1>2 DEF Dirty, QuietInv, CalmInv
  <2> QED BY <1>1, <2>1 DEF Ledgered, Columns
<1>3. CASE p \in DOMAIN fix[j]
  <2>1. fix[j][p] = Ledgered(bid, p) /\ TotalKept(j, p) /\ CountKept(j, p)
    BY <1>1, <1>3 DEF QuietInv, CalmInv
  <2>2. CASE p \in held[j]
    BY <1>1, <2>1, <2>2 DEF Written, Ledgered, TotalKept, CountKept
  <2>3. CASE p \notin held[j]
    <3>1. loaded[j][p] = fix[j][p]
      BY <1>1, <1>3, <2>3 DEF Dirty
    <3> QED BY <1>1, <2>1, <2>3, <3>1 DEF Ledgered, TotalKept, CountKept
  <2> QED BY <2>2, <2>3
<1> QED BY <1>2, <1>3

\* So when it commits, every project agrees with the ledger.
LEMMA CalmCommitRepairs ==
  ASSUME QuietInv, NEW j \in calm, j \in Jobs, CommitReport(j)
  PROVE  CacheMatchesLedger'
BY CalmCommitCorrects DEF CommitReport, CacheMatchesLedger

\* A column is as it was, or right, after a step that disturbs no run.
LEMMA UndisturbedColumns ==
  ASSUME QuietInv, \/ CallStep
                   \/ \E i \in Jobs : JobStep(i),
         Undisturbing, NEW p \in Projects
  PROVE  /\ bid' = bid
         /\ total'[p] = total[p] \/ total'[p] = LedgerTotal(bid, p)
         /\ count'[p] = count[p] \/ count'[p] = LedgerCount(bid, p)
<1>1. CASE UNCHANGED Figures
  BY <1>1 DEF Figures
<1>2. ASSUME NEW i \in calm, job[i] = "load", job'[i] = "done"
      PROVE  /\ bid' = bid
             /\ total'[p] = LedgerTotal(bid, p) /\ count'[p] = LedgerCount(bid, p)
  <2>1. i \in Jobs
    BY DEF QuietInv, JobsInv, JobsOK
  <2>2. CommitReport(i)
    BY <1>2, <2>1, DoneCommits
  <2> QED BY <2>1, <2>2, CalmCommitCorrects DEF CommitReport
<1> QED BY <1>1, <1>2 DEF Undisturbing

\* A run stays undisturbed only while the ledger it compared with stays as it is.
LEMMA StepKeepsCalm ==
  ASSUME QuietInv, \/ CallStep
                   \/ \E j \in Jobs : JobStep(j),
         Watch
  PROVE  CalmInv'
<1> DEFINE Sums(p) == [total |-> LedgerTotal(bid', p), count |-> LedgerCount(bid', p)]
<1> SUFFICES ASSUME NEW j \in Jobs, j \in calm', NEW p \in Projects
             PROVE  /\ p \in DOMAIN fix'[j] => fix'[j][p] = Sums(p)
                    /\ p \notin DOMAIN fix'[j] =>
                         Sums(p) = [total |-> total'[p], count |-> count'[p]]
                    /\ p \in DOMAIN loaded'[j] =>
                         /\ total'[p] \in {loaded'[j][p].total, Sums(p).total}
                         /\ count'[p] \in {loaded'[j][p].count, Sums(p).count}
  BY DEF CalmInv, Watch, Columns, Ledgered, TotalKept, CountKept
<1> HIDE DEF Sums
<1>0. job'[j] = "load" /\ (job[j] = "idle" \/ (j \in calm /\ Undisturbing))
  BY DEF Watch
<1>t. DOMAIN fix = Jobs /\ DOMAIN loaded = Jobs /\ DOMAIN job = Jobs
  BY DEF QuietInv, JobsInv, JobsOK
<1>1. CASE Recompute(j)
  <2> DEFINE differ == {q \in Present : Ledgered(bid, q) # Columns(q)}
             new == [q \in differ |-> Ledgered(bid, q)]
  <2>1. fix'[j] = new /\ loaded' = loaded /\ UNCHANGED Figures /\ DOMAIN loaded[j] = {}
    BY <1>1, <1>t DEF Recompute, Figures, vars, db, QuietInv, JobsInv
  <2>2. p \notin differ => Ledgered(bid, p) = Columns(p)
    <3>1. CASE p \in Present
      BY <3>1
    <3>2. CASE status[p] = "absent"
      <4>1. Columns(p) = [total |-> 0, count |-> 0] /\ \A k \in DOMAIN bid : bid[k].project # p
        BY <3>2 DEF QuietInv, AbsentInv, Columns
      <4> QED BY <4>1, NothingLedgered
    <3> QED BY <3>1, <3>2 DEF Present
  <2>3. DOMAIN new = differ /\ (p \in differ => new[p] = Ledgered(bid, p))
    OBVIOUS
  <2>4. Sums(p) = Ledgered(bid, p)
    BY <2>1 DEF Sums, Figures, Ledgered
  <2> HIDE DEF differ, new
  <2> QED BY <2>1, <2>2, <2>3, <2>4 DEF Figures, Columns
<1>2. CASE ~Recompute(j)
  <2>1. /\ fix'[j] = fix[j] /\ job[j] # "idle"
        /\ loaded'[j] = loaded[j] \/ \E q \in Projects : LoadProject(j, q)
    <3>1. CASE CallStep
      BY <1>0, <3>1 DEF CallStep, jobVars, QuietInv, JobsInv, JobsOK
    <3>2. ASSUME NEW i \in Jobs \ {j}, JobStep(i)
          PROVE  fix'[j] = fix[j] /\ loaded'[j] = loaded[j] /\ job'[j] = job[j]
      BY <1>t, <3>2 DEF JobStep, Recompute, LoadProject, Flush, CommitReport, JobDies, JobGoto
    <3>3. CASE JobStep(j)
      BY <1>2, <1>t, <3>3 DEF JobStep, LoadProject, Flush, CommitReport, JobDies
    <3> QED BY <1>0, <3>1, <3>2, <3>3
  <2>2. /\ j \in calm /\ bid' = bid
        /\ total'[p] = total[p] \/ total'[p] = LedgerTotal(bid, p)
        /\ count'[p] = count[p] \/ count'[p] = LedgerCount(bid, p)
    BY <1>0, <2>1, UndisturbedColumns
  <2>3. Sums(p) = Ledgered(bid, p)
    BY <2>2 DEF Sums, Ledgered
  <2>4. /\ p \in DOMAIN fix[j] => fix[j][p] = Sums(p)
        /\ p \notin DOMAIN fix[j] => Sums(p) = [total |-> total'[p], count |-> count'[p]]
    BY <2>2, <2>3 DEF QuietInv, CalmInv, Ledgered, Columns
  <2>5. p \in DOMAIN loaded[j] =>
          /\ total'[p] \in {loaded[j][p].total, Sums(p).total}
          /\ count'[p] \in {loaded[j][p].count, Sums(p).count}
    BY <2>2, <2>3 DEF QuietInv, CalmInv, TotalKept, CountKept, Ledgered
  <2>6. ASSUME NEW q \in Projects, LoadProject(j, q), p \in DOMAIN loaded'[j]
        PROVE  /\ total'[p] \in {loaded'[j][p].total, Sums(p).total}
               /\ count'[p] \in {loaded'[j][p].count, Sums(p).count}
    <3>1. loaded'[j] = Insert(loaded[j], q, Columns(q)) /\ UNCHANGED <<total, count>>
      BY <1>t, <2>6 DEF LoadProject, vars, db
    <3>2. CASE p \in DOMAIN loaded[j]
      BY <2>5, <3>1, <3>2 DEF Insert
    <3>3. CASE p \notin DOMAIN loaded[j]
      <4>1. loaded'[j][p] = Columns(p)
        BY <2>6, <3>1, <3>3 DEF Insert
      <4> QED BY <3>1, <4>1 DEF Columns
    <3> QED BY <3>2, <3>3
  <2> QED BY <2>1, <2>4, <2>5, <2>6
<1> QED BY <1>1, <1>2

\* QuietInv is inductive, whatever the calls do beside the runs.
LEMMA NextKeepsQuiet ==
  ASSUME QuietInv, [ReconNext]_reconVars
  PROVE  QuietInv'
<1>1. CASE UNCHANGED reconVars
  <2>1. UNCHANGED vars /\ UNCHANGED <<job, fix, loaded, held, calm>>
    BY <1>1 DEF reconVars, jobVars
  <2>2. UNCHANGED <<status, total, count, bid, req, pc, row>>
    BY <2>1 DEF vars, db, locks
  <2>3. ControlInv' /\ AbsentInv'
    BY <2>1, NextKeepsControl, CallsKeepAbsent DEF QuietInv
  <2>4. JobsInv'
    BY <2>1, <2>2 DEF QuietInv, JobsInv, JobsOK, Dirty
  <2>5. FixesPresent' /\ CalmInv'
    BY <2>1, <2>2
    DEF QuietInv, FixesPresent, CalmInv, TotalKept, CountKept, Ledgered, Columns
  <2> QED BY <2>3, <2>4, <2>5 DEF QuietInv
<1>2. ASSUME ReconNext PROVE QuietInv'
  <2>1. ControlInv' /\ JobsInv'
    BY <1>2, NextKeepsJobs DEF QuietInv
  <2>2. CalmInv'
    BY <1>2, StepKeepsCalm DEF ReconNext
  <2>3. CASE CallStep
    <3>1. AbsentInv' /\ \A p \in Projects : status[p] # "absent" => status'[p] # "absent"
      BY <2>3, CallsKeepAbsent DEF QuietInv, CallStep
    <3>2. FixesPresent'
      BY <2>3, <3>1 DEF CallStep, jobVars, QuietInv, FixesPresent, JobsInv, JobsOK
    <3> QED BY <2>1, <2>2, <3>1, <3>2 DEF QuietInv
  <2>4. ASSUME NEW j \in Jobs, JobStep(j) PROVE QuietInv'
    <3>1. AbsentInv' /\ status' = status
      <4>1. CASE CommitReport(j)
        BY <4>1, CommitReportKeepsAbsent DEF QuietInv, CommitReport
      <4>2. CASE ~CommitReport(j)
        <5>1. UNCHANGED vars
          BY <2>4, <4>2 DEF JobStep, Recompute, LoadProject, Flush, JobDies
        <5> QED BY <5>1, CallsKeepAbsent DEF QuietInv, vars, db
      <4> QED BY <4>1, <4>2
    <3>2. FixesPresent'
      <4>1. CASE Recompute(j)
        <5> DEFINE new == [p \in {q \in Present : Ledgered(bid, q) # Columns(q)} |-> Ledgered(bid, p)]
        <5>1. fix' = [fix EXCEPT ![j] = new]
          BY <4>1 DEF Recompute
        <5>2. \A p \in DOMAIN new : status[p] # "absent"
          BY DEF Present
        <5> HIDE DEF new
        <5>3. fix'[j] = new /\ \A i \in Jobs \ {j} : fix'[i] = fix[i]
          BY <5>1 DEF QuietInv, JobsInv
        <5> QED BY <3>1, <5>2, <5>3 DEF QuietInv, FixesPresent
      <4>2. CASE ~Recompute(j)
        <5>1. fix' = fix
          BY <2>4, <4>2 DEF JobStep, LoadProject, Flush, CommitReport, JobDies
        <5> QED BY <3>1, <5>1 DEF QuietInv, FixesPresent
      <4> QED BY <4>1, <4>2
    <3> QED BY <2>1, <2>2, <3>1, <3>2 DEF QuietInv
  <2> QED BY <1>2, <2>3, <2>4 DEF ReconNext
<1> QED BY <1>1, <1>2

\* A run during which no call committed a posting leaves every project right,
\* whatever the drift was, however it came about, and however many other such
\* runs correct the same projects at the same time.
THEOREM QuietRunsRepair == ReconSpec => QuietRunRepairs
<1> DEFINE Repairs ==
      \A j \in Jobs : job[j] = "load" /\ job'[j] = "done" /\ j \in calm => CacheMatchesLedger'
<1>1. ASSUME QuietInv, [ReconNext]_reconVars PROVE [Repairs]_reconVars
  <2> SUFFICES ASSUME ReconNext, NEW j \in Jobs, job[j] = "load", job'[j] = "done", j \in calm
               PROVE  CacheMatchesLedger'
    BY <1>1
  <2>1. CommitReport(j)
    BY <1>1, DoneCommits DEF ReconNext
  <2> QED BY <1>1, <2>1, CalmCommitRepairs
<1> QED BY <1>1, InitIsQuiet, NextKeepsQuiet, PTL DEF ReconSpec, QuietRunRepairs

-----------------------------------------------------------------------------
(* The ledger's own promise, with the job beside it.                       *)

\* In the deployments where totals do not drift the calls behave, with runs of
\* the job at any time, as BidLedger says.
THEOREM CallsRunAsBefore ==
  ASSUME SafeWorkload
  PROVE  ReconSpec => Spec
<1>1. ReconInit => Init /\ SafeRequests /\ HarmlessInv
  BY InitHasNothingToFix, InitHasMoney, InitIsSafe DEF HarmlessInv
<1> QED BY <1>1, NextIsHarmless, JobsAreTyped, PTL DEF ReconSpec, Spec

\* So the money path with the job is a history of atomic settlements and
\* reversals, too.
THEOREM LedgerKeptWithJob ==
  ASSUME SafeWorkload
  PROVE  ReconSpec => ImplementsLedger
BY CallsRunAsBefore, LedgerImplemented, PTL
=============================================================================
