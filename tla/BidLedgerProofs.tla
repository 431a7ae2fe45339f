--------------------------- MODULE BidLedgerProofs ---------------------------
(***************************************************************************)
(* Proofs about BidLedger for every set of projects, calls and requests.   *)
(* ControlInv is inductive by itself; it says who holds which lock at each *)
(* statement and that reads stay true.  On it rests MoneyInv, inductive in *)
(* the deployments of SafeWorkload: whoever holds a project's row has its  *)
(* current columns, so that adding to the copy adds to the row.            *)
(***************************************************************************)
EXTENDS BidLedger, FiniteSetTheorems, SequenceTheorems,
        WellFoundedInduction, TLAPS

\* A table after Insert: one key more, the other rows as they were.
LEMMA InsertFacts ==
  ASSUME NEW f, NEW x, NEW v
  PROVE  /\ DOMAIN Insert(f, x, v) = DOMAIN f \cup {x}
         /\ \A y \in DOMAIN f : Insert(f, x, v)[y] = f[y]
         /\ x \notin DOMAIN f => Insert(f, x, v)[x] = v
BY DEF Insert

\* Of a finite table of bids, the bids and the paisa that count for a
\* project are finite, so their cardinalities are numbers.
LEMMA CountedFinite ==
  ASSUME NEW table, IsFiniteSet(DOMAIN table),
         table \in [DOMAIN table -> BidRow], NEW p
  PROVE  /\ IsFiniteSet(Counted(table, p)) /\ LedgerCount(table, p) \in Nat
         /\ IsFiniteSet(Paise(table, p)) /\ LedgerTotal(table, p) \in Nat
<1> DEFINE S == {{k} \X (1 .. table[k].amount) : k \in Counted(table, p)}
<1>1. IsFiniteSet(Counted(table, p))
  BY FS_Subset DEF Counted
<1>2. IsFiniteSet(S)
  <2> DEFINE f == [k \in Counted(table, p) |-> {k} \X (1 .. table[k].amount)]
  <2>1. f \in Surjection(Counted(table, p), S)
    BY DEF Surjection
  <2> QED BY <1>1, <2>1, FS_Surjection
<1>3. ASSUME NEW k \in Counted(table, p)
      PROVE  IsFiniteSet({k} \X (1 .. table[k].amount))
  <2>1. table[k].amount \in Int
    BY DEF Counted, BidRow
  <2>2. IsFiniteSet({k})
    BY FS_Singleton
  <2>3. IsFiniteSet(1 .. table[k].amount)
    BY <2>1, FS_Interval
  <2> QED BY <2>2, <2>3, FS_Product
<1>4. IsFiniteSet(Paise(table, p))
  BY <1>2, <1>3, FS_UNION DEF Paise
<1> QED BY <1>1, <1>4, FS_CardinalityType DEF LedgerCount, LedgerTotal

\* The seeded totals and counts are numbers.
LEMMA OpeningSums ==
  \A p \in Projects : /\ LedgerTotal(OpeningBids, p) \in Int
                      /\ LedgerCount(OpeningBids, p) \in Int
BY CountedFinite, OpeningAssumption, IdsAssumption, FS_Subset

\* A call that locks, or is about to, does so to a project.
LEMMA TargetIsProject ==
  ASSUME ControlInv, NEW c \in Calls, HoldsRow(c) \/ AboutToLock(c)
  PROVE  Target(c) \in Projects
BY DEF ControlInv, TypeOK, ReadsStayTrue, HoldsRow, AboutToLock, Target,
       Reversing, BidRow, Request

\* Steps that touch neither bids nor requests leave every call its target.
LEMMA TargetsKept ==
  ASSUME bid' = bid, req' = req
  PROVE  /\ \A c : Target(c)' = Target(c)
         /\ \A c : Reversing(c)' <=> Reversing(c)
<1>1. \A c : Reversing(c)' <=> Reversing(c)
  BY DEF Reversing
<1>2. \A c : Target(c)' = Target(c)
  BY DEF Target, Reversing
<1> QED BY <1>1, <1>2

\* The end of a transaction releases exactly the locks of its call.
LEMMA EndReleases ==
  ASSUME ControlInv, NEW c \in Calls, EndTransaction(c),
         \A x \in Calls \ {c} : pc'[x] = pc[x],
         pc'[c] \in {"failed", "done", "audit"},
         \A x \in Calls : HoldsRow(x) => Target(x)' = Target(x)
  PROVE  /\ LockDiscipline'
         /\ row' \in [Projects -> Calls \cup {None}]
         /\ advisory' \in Calls \cup {None}
         /\ found' \in [Calls -> Reading]
         /\ orm' \in [DOMAIN orm' -> [total : Int, count : Int]]
         /\ DOMAIN orm' = DOMAIN orm \ {c}
<1>1. /\ row' \in [Projects -> Calls \cup {None}]
      /\ advisory' \in Calls \cup {None}
      /\ found' \in [Calls -> Reading]
  BY DEF ControlInv, TypeOK, EndTransaction, Reading, Nothing
<1>2. /\ orm' \in [DOMAIN orm' -> [total : Int, count : Int]]
      /\ DOMAIN orm' = DOMAIN orm \ {c}
  BY DEF ControlInv, TypeOK, EndTransaction, Restrict
<1>3. \A x \in Calls : HoldsRow(x)' <=> x # c /\ HoldsRow(x)
  BY DEF HoldsRow
<1>4. \A x \in Calls : HoldsRow(x) => Target(x) \in Projects
  BY TargetIsProject
<1>5. LockDiscipline'
  BY <1>3, <1>4, IdsAssumption
  DEF ControlInv, TypeOK, EndTransaction, LockDiscipline
<1> QED BY <1>1, <1>2, <1>5

\* A rollback gives back the locks and the uncommitted intent of its call
\* and nothing of another's.
LEMMA AbortKeepsControl ==
  ASSUME ControlInv, NEW c \in Calls, Abort(c)
  PROVE  ControlInv'
<1> DEFINE kept == {k \in DOMAIN intent : intent[k].owner # c}
<1>1. /\ \A x \in Calls \ {c} : pc'[x] = pc[x]
      /\ pc'[c] = "failed"
      /\ pc' \in [Calls -> Labels]
  BY DEF ControlInv, TypeOK, Abort, Goto, Labels
<1>2. /\ \A x \in Calls : Target(x)' = Target(x)
      /\ \A x \in Calls : Reversing(x)' <=> Reversing(x)
      /\ bid' = bid /\ req' = req
  BY TargetsKept DEF Abort
<1>3. /\ DOMAIN intent' = kept
      /\ \A k \in kept : intent'[k] = intent[k]
      /\ intent' \in [DOMAIN intent' -> IntentRow]
  BY DEF ControlInv, TypeOK, Abort, Restrict
<1>4. /\ LockDiscipline'
      /\ row' \in [Projects -> Calls \cup {None}]
      /\ advisory' \in Calls \cup {None}
      /\ found' \in [Calls -> Reading]
      /\ orm' \in [DOMAIN orm' -> [total : Int, count : Int]]
      /\ DOMAIN orm' = DOMAIN orm \ {c}
  BY <1>1, <1>2, EndReleases DEF Abort
<1>5. DOMAIN bid \subseteq kept
  BY IdsAssumption DEF ControlInv, TypeOK, IntentOwnership
<1>6. TypeOK'
  BY <1>1, <1>3, <1>4, <1>5 DEF ControlInv, TypeOK, Abort
<1>7. IntentOwnership'
  <2>1. \A x \in Calls : Posting(x)' <=> x # c /\ Posting(x)
    BY <1>1 DEF Posting
  <2> QED
    BY <1>2, <1>3, <1>5, <2>1, IdsAssumption
    DEF ControlInv, IntentOwnership
<1>8. ReadsStayTrue'
  BY <1>1, <1>2, <1>4 DEF ControlInv, TypeOK, ReadsStayTrue, HoldsRow
<1> QED BY <1>4, <1>6, <1>7, <1>8 DEF ControlInv

\* Every set of numbers that is not empty has a least element.
LEMMA LeastNatural ==
  ASSUME NEW T \in SUBSET Nat, T # {}
  PROVE  \E n \in T : \A m \in T : n <= m
<1> DEFINE R == OpToRel(<, Nat)
<1>1. IsWellFoundedOn(R, Nat)
  BY NatLessThanWellFounded
<1>2. \A m \in T, n \in T : m < n => <<m, n>> \in R
  BY DEF OpToRel
<1>3. PICK n \in T : \A m \in T : ~(<<m, n>> \in R)
  <2> HIDE DEF R
  <2> QED BY <1>1, WFMin
<1>4. \A m \in T : ~(m < n)
  <2> HIDE DEF R
  <2> QED BY <1>2, <1>3
<1> QED BY <1>4

\* Among finitely many live projects there is one ahead of all the others,
\* and Leader is that one (ORDER BY total DESC, id ASC LIMIT 1).
LEMMA LeaderIsFirst ==
  ASSUME NEW st, NEW tot \in [Projects -> Int], Live(st) # {}
  PROVE  /\ Leader(st, tot) \in Live(st)
         /\ \A q \in Live(st) \ {Leader(st, tot)} : Ahead(tot, Leader(st, tot), q)
<1> DEFINE S == Live(st)
           Above(x) == {y \in S : Ahead(tot, y, x)}
           rank == [x \in S |-> Cardinality(Above(x))]
           T == {rank[x] : x \in S}
<1>1. S \subseteq Projects /\ S \subseteq Nat /\ IsFiniteSet(S)
  BY IdsAssumption, FS_Subset DEF Live
<1>2. \A x \in S : IsFiniteSet(Above(x)) /\ Cardinality(Above(x)) \in Nat
  BY <1>1, FS_Subset, FS_CardinalityType
<1>3. PICK x \in S : \A y \in S : rank[x] <= rank[y]
  <2>1. T \subseteq Nat /\ T # {}
    BY <1>2
  <2>4. PICK n \in T : \A m \in T : n <= m
    <3> HIDE DEF T
    <3> QED BY <2>1, LeastNatural
  <2>5. PICK x \in S : rank[x] = n
    OBVIOUS
  <2>6. \A y \in S : rank[y] \in T /\ rank[y] \in Nat
    BY <1>2
  <2>7. n \in Nat /\ \A y \in S : n <= rank[y]
    <3> HIDE DEF T, rank
    <3> QED BY <2>1, <2>4, <2>6
  <2> QED BY <2>5, <2>7
<1>4. ASSUME NEW y \in S, Ahead(tot, y, x) PROVE FALSE
  <2>1. Above(y) \subseteq Above(x) /\ y \in Above(x) /\ y \notin Above(y)
    BY <1>1, <1>4 DEF Ahead
  <2>2. Cardinality(Above(y)) <= Cardinality(Above(x)) /\ Cardinality(Above(y)) # Cardinality(Above(x))
    <3> HIDE DEF Above
    <3> QED BY <1>2, <2>1, FS_Subset
  <2> QED BY <1>2, <1>3, <2>2
<1>5. \A q \in S \ {x} : Ahead(tot, x, q)
  BY <1>1, <1>4 DEF Ahead
<1>6. \E p \in S : \A q \in S \ {p} : Ahead(tot, p, q)
  BY <1>5
<1>7. Leader(st, tot) = CHOOSE p \in S : \A q \in S \ {p} : Ahead(tot, p, q)
  BY DEF Leader
<1>8. /\ Leader(st, tot) \in S
      /\ \A q \in S \ {Leader(st, tot)} : Ahead(tot, Leader(st, tot), q)
  <2> HIDE DEF S
  <2> QED BY <1>6, <1>7
<1> QED BY <1>8

\* The columns that a call in its transaction sees are numbers.
LEMMA SeenTyped ==
  ASSUME ControlInv, NEW c \in Calls, pc[c] \in {"leader", "commit"}
  PROVE  /\ StatusSeenBy(c) \in [Projects -> Status]
         /\ TotalSeenBy(c) \in [Projects -> Int]
         /\ CountSeenBy(c) \in [Projects -> Int]
         /\ Leader(StatusSeenBy(c), TotalSeenBy(c)) \in Projects \cup {None}
<1>1. HoldsRow(c) /\ Posting(c) /\ c \in DOMAIN orm /\ orm[c] \in [total : Int, count : Int]
  BY DEF ControlInv, TypeOK, ReadsStayTrue, HoldsRow, Posting
<1>2. NewTotal(c) \in Int /\ NewCount(c) \in Int
  <2>1. CASE Reversing(c)
    <3>1. bid[req[c].key] \in BidRow
      BY <2>1 DEF ControlInv, TypeOK, ReadsStayTrue
    <3> QED BY <1>1, <2>1, <3>1 DEF NewTotal, NewCount, BidRow
  <2>2. CASE ~Reversing(c)
    <3>1. intent[req[c].key] \in IntentRow
      BY <1>1, <2>2 DEF ControlInv, TypeOK, IntentOwnership
    <3> QED BY <1>1, <2>2, <3>1 DEF NewTotal, NewCount, IntentRow
  <2> QED BY <2>1, <2>2
<1>3. TotalSeenBy(c) \in [Projects -> Int] /\ CountSeenBy(c) \in [Projects -> Int]
  BY <1>2 DEF ControlInv, TypeOK, TotalSeenBy, CountSeenBy
<1>4. StatusSeenBy(c) \in [Projects -> Status]
  BY DEF ControlInv, TypeOK, StatusSeenBy, Status
<1>6. Leader(StatusSeenBy(c), TotalSeenBy(c)) \in Projects \cup {None}
  <2> DEFINE st == StatusSeenBy(c)
             tot == TotalSeenBy(c)
  <2>1. CASE Live(st) = {}
    BY <2>1 DEF Leader
  <2>2. CASE Live(st) # {}
    BY <1>3, <2>2, LeaderIsFirst DEF Live
  <2> QED BY <2>1, <2>2
<1> QED BY <1>3, <1>4, <1>6

\* mock_payment's unlocked read leaves the control as it is.
LEMMA PreloadProjectKeepsControl ==
  ASSUME ControlInv, NEW c \in Calls, PreloadProject(c)
  PROVE  ControlInv'
<1>1. UNCHANGED <<db, locks, req, found>>
  BY DEF PreloadProject, db, locks
<1>2. \A x \in Calls : Target(x)' = Target(x) /\ (Reversing(x)' <=> Reversing(x))
  BY <1>1, TargetsKept DEF db
<1>3. /\ pc[c] = "idle" /\ pc'[c] \in {"lock", "failed"} /\ req[c].kind = "mock"
      /\ \A x \in Calls \ {c} : pc'[x] = pc[x]
      /\ pc' \in [Calls -> Labels]
  BY DEF ControlInv, TypeOK, PreloadProject, Goto, Labels, Committed
<1>4. /\ DOMAIN orm \subseteq DOMAIN orm' /\ DOMAIN orm' \subseteq Calls
      /\ orm' \in [DOMAIN orm' -> [total : Int, count : Int]]
  <2>1. CASE status[req[c].project] = "live"
    BY <2>1 DEF ControlInv, TypeOK, PreloadProject, Insert, Request
  <2>2. CASE status[req[c].project] # "live"
    BY <2>2 DEF ControlInv, TypeOK, PreloadProject
  <2> QED BY <2>1, <2>2
<1>5. TypeOK'
  BY <1>1, <1>3, <1>4 DEF ControlInv, TypeOK, db, locks
<1>6. LockDiscipline'
  BY <1>1, <1>2, <1>3 DEF ControlInv, LockDiscipline, HoldsRow, db, locks
<1>7. IntentOwnership'
  BY <1>1, <1>3 DEF ControlInv, IntentOwnership, Posting, Reversing, db
<1>8. ReadsStayTrue'
  BY <1>1, <1>2, <1>3, <1>4 DEF ControlInv, ReadsStayTrue, HoldsRow, Reversing, db
<1> QED BY <1>5, <1>6, <1>7, <1>8 DEF ControlInv

\* create_project's flush leaves the caller holding its new row.
LEMMA InsertProjectKeepsControl ==
  ASSUME ControlInv, NEW c \in Calls, InsertProject(c)
  PROVE  ControlInv'
<1>1. UNCHANGED <<db, advisory, req, found>>
  BY DEF InsertProject, db, locks
<1>2. \A x \in Calls : Target(x)' = Target(x) /\ (Reversing(x)' <=> Reversing(x))
  BY <1>1, TargetsKept DEF db
<1>3. /\ pc[c] = "idle" /\ pc'[c] = "find" /\ req[c].kind = "open"
      /\ \A x \in Calls \ {c} : pc'[x] = pc[x]
      /\ pc' \in [Calls -> Labels]
  BY DEF ControlInv, TypeOK, InsertProject, Goto, Labels, Committed
<1>4. /\ DOMAIN orm' = DOMAIN orm \cup {c}
      /\ orm' \in [DOMAIN orm' -> [total : Int, count : Int]]
      /\ row[Target(c)] = None
      /\ row' = [row EXCEPT ![Target(c)] = c]
      /\ Target(c) \in Projects
  BY DEF ControlInv, TypeOK, InsertProject, Insert, Target, Reversing, Request
<1>5. TypeOK'
  BY <1>1, <1>3, <1>4 DEF ControlInv, TypeOK, db
<1>6. LockDiscipline'
  BY <1>1, <1>2, <1>3, <1>4, IdsAssumption DEF ControlInv, LockDiscipline, HoldsRow, db, TypeOK
<1>7. IntentOwnership'
  BY <1>1, <1>3 DEF ControlInv, IntentOwnership, Posting, Reversing, db
<1>8. ReadsStayTrue'
  BY <1>1, <1>2, <1>3, <1>4 DEF ControlInv, ReadsStayTrue, HoldsRow, Reversing, db
<1> QED BY <1>5, <1>6, <1>7, <1>8 DEF ControlInv

\* reverse_bid's first read leaves the control as it is.
LEMMA ReadBidKeepsControl ==
  ASSUME ControlInv, NEW c \in Calls, ReadBid(c)
  PROVE  ControlInv'
<1>1. UNCHANGED <<db, locks, req, orm, found>>
  BY DEF ReadBid, db, locks
<1>2. \A x \in Calls : Target(x)' = Target(x) /\ (Reversing(x)' <=> Reversing(x))
  BY <1>1, TargetsKept DEF db
<1>3. /\ pc[c] = "idle" /\ pc'[c] \in {"failed", "audit", "lock"}
      /\ pc'[c] = "failed" \/ req[c].key \in DOMAIN bid
      /\ \A x \in Calls \ {c} : pc'[x] = pc[x]
      /\ pc' \in [Calls -> Labels]
  BY DEF ControlInv, TypeOK, ReadBid, Goto, Labels, Committed
<1>5. TypeOK'
  BY <1>1, <1>3 DEF ControlInv, TypeOK, db, locks
<1>6. LockDiscipline'
  BY <1>1, <1>2, <1>3 DEF ControlInv, LockDiscipline, HoldsRow, db, locks
<1>7. IntentOwnership'
  BY <1>1, <1>3 DEF ControlInv, IntentOwnership, Posting, Reversing, db
<1>8. req[c].kind = "reverse" /\ bid' = bid /\ orm' = orm /\ req' = req
  BY <1>1 DEF ReadBid, Reversing, db
<1>9. ReadsStayTrue'
  BY <1>3, <1>8 DEF ControlInv, ReadsStayTrue, HoldsRow, Reversing
<1> QED BY <1>5, <1>6, <1>7, <1>9 DEF ControlInv

\* SELECT ... FOR UPDATE leaves one holder per row, the one that got it.
LEMMA LockProjectKeepsControl ==
  ASSUME ControlInv, NEW c \in Calls, LockProject(c)
  PROVE  ControlInv'
<1>1. UNCHANGED <<db, advisory, req, found>>
  BY DEF LockProject, db, locks
<1>2. \A x \in Calls : Target(x)' = Target(x) /\ (Reversing(x)' <=> Reversing(x))
  BY <1>1, TargetsKept DEF db
<1>3. /\ AboutToLock(c)
      /\ pc'[c] = "failed" \/ pc'[c] = IF Reversing(c) THEN "advisory" ELSE "find"
      /\ \A x \in Calls \ {c} : pc'[x] = pc[x]
      /\ pc' \in [Calls -> Labels]
  BY DEF ControlInv, TypeOK, LockProject, Goto, Labels, Committed
<1>4. /\ DOMAIN orm \subseteq DOMAIN orm' /\ DOMAIN orm' \subseteq Calls
      /\ orm' \in [DOMAIN orm' -> [total : Int, count : Int]]
      /\ Target(c) \in Projects
      /\ \/ pc'[c] = "failed" /\ row' = row
         \/ /\ pc'[c] # "failed" /\ c \in DOMAIN orm'
            /\ row[Target(c)] = None
            /\ row' = [row EXCEPT ![Target(c)] = c]
  <2>1. Target(c) \in Projects
    BY TargetIsProject DEF LockProject
  <2>2. CASE status[Target(c)] = "absent"
    BY <2>1, <2>2 DEF ControlInv, TypeOK, LockProject, Goto
  <2>3. CASE status[Target(c)] # "absent"
    BY <2>1, <2>3 DEF ControlInv, TypeOK, LockProject, Goto, Insert
  <2> QED BY <2>1, <2>2, <2>3
<1>5. TypeOK'
  BY <1>1, <1>3, <1>4 DEF ControlInv, TypeOK, db
<1>6. LockDiscipline'
  <2>1. ~HoldsRow(c)
    BY <1>3 DEF AboutToLock, HoldsRow
  <2>2. pc'[c] \notin {"leader", "commit"} /\ pc[c] \notin {"leader", "commit"}
    BY <1>3 DEF AboutToLock
  <2>3. CASE pc'[c] = "failed" /\ row' = row
    BY <1>1, <1>2, <1>3, <2>1, <2>2, <2>3 DEF ControlInv, LockDiscipline, HoldsRow
  <2>4. CASE /\ pc'[c] # "failed"
             /\ row[Target(c)] = None
             /\ row' = [row EXCEPT ![Target(c)] = c]
    <3>1. HoldsRow(c)'
      BY <1>3, <2>4 DEF HoldsRow
    <3>2. \A p \in Projects : row'[p] = IF p = Target(c) THEN c ELSE row[p]
      BY <2>4 DEF ControlInv, TypeOK
    <3>3. \A x \in Calls : HoldsRow(x) => Target(x) \in Projects
      BY TargetIsProject
    <3> QED
      BY <1>1, <1>2, <1>3, <1>4, <2>1, <2>2, <2>4, <3>1, <3>2, <3>3, IdsAssumption
      DEF ControlInv, LockDiscipline, HoldsRow
  <2> QED BY <1>4, <2>3, <2>4
<1>7. IntentOwnership'
  BY <1>1, <1>3 DEF ControlInv, IntentOwnership, Posting, Reversing, db, AboutToLock
<1>8. ReadsStayTrue'
  BY <1>1, <1>2, <1>3, <1>4 DEF ControlInv, ReadsStayTrue, HoldsRow, Reversing, db, AboutToLock
<1> QED BY <1>5, <1>6, <1>7, <1>8 DEF ControlInv

\* Looking for the intent leads to the insert only when there is none.
LEMMA FindIntentKeepsControl ==
  ASSUME ControlInv, NEW c \in Calls, FindIntent(c)
  PROVE  ControlInv'
<1>1. UNCHANGED <<db, locks, req, orm, found>>
  BY DEF FindIntent, db, locks
<1>2. \A x \in Calls : Target(x)' = Target(x) /\ (Reversing(x)' <=> Reversing(x))
  BY <1>1, TargetsKept DEF db
<1>3. /\ pc[c] = "find"
      /\ \/ pc'[c] = "advisory" /\ Committed(req[c].key)
         \/ pc'[c] = "insert"
      /\ \A x \in Calls \ {c} : pc'[x] = pc[x]
      /\ pc' \in [Calls -> Labels]
  BY DEF ControlInv, TypeOK, FindIntent, Goto, Labels, Committed
<1>5. TypeOK'
  BY <1>1, <1>3 DEF ControlInv, TypeOK, db, locks
<1>6. LockDiscipline'
  BY <1>1, <1>2, <1>3 DEF ControlInv, LockDiscipline, HoldsRow, db, locks
<1>7. IntentOwnership'
  BY <1>1, <1>3 DEF ControlInv, IntentOwnership, Posting, Reversing, db, Committed, ReadsStayTrue
<1>8. ReadsStayTrue'
  BY <1>1, <1>2, <1>3 DEF ControlInv, ReadsStayTrue, HoldsRow, Reversing, db
<1> QED BY <1>5, <1>6, <1>7, <1>8 DEF ControlInv

\* An inserted intent is its caller's until the commit.
LEMMA InsertIntentKeepsControl ==
  ASSUME ControlInv, NEW c \in Calls, InsertIntent(c)
  PROVE  ControlInv'
<1>1. UNCHANGED <<status, total, count, bid, log, audit, locks, req, orm, found>>
  BY DEF InsertIntent, db, locks
<1>2. \A x \in Calls : Target(x)' = Target(x) /\ (Reversing(x)' <=> Reversing(x))
  BY <1>1, TargetsKept DEF db
<1>3. /\ pc[c] = "insert" /\ pc'[c] = "advisory"
      /\ \A x \in Calls \ {c} : pc'[x] = pc[x]
      /\ pc' \in [Calls -> Labels]
  BY DEF ControlInv, TypeOK, InsertIntent, Goto, Labels, Committed
<1>4. /\ DOMAIN intent' = DOMAIN intent \cup {req[c].key}
      /\ \A k \in DOMAIN intent : intent'[k] = intent[k]
      /\ req[c].key \notin DOMAIN intent
      /\ intent'[req[c].key].owner = c
      /\ DOMAIN intent' \subseteq Keys
      /\ intent' \in [DOMAIN intent' -> IntentRow]
  BY DEF ControlInv, TypeOK, InsertIntent, Insert, IntentRow, Request
<1>5. TypeOK'
  BY <1>1, <1>3, <1>4 DEF ControlInv, TypeOK, locks
<1>6. LockDiscipline'
  BY <1>1, <1>2, <1>3 DEF ControlInv, LockDiscipline, HoldsRow, locks
<1>7. IntentOwnership'
  <2>1. ~Reversing(c) /\ req[c].key \notin DOMAIN bid
    BY <1>3, <1>4 DEF ControlInv, TypeOK, ReadsStayTrue
  <2>2. \A x \in Calls \ {c} : Posting(x)' <=> Posting(x)
    BY <1>3 DEF Posting
  <2>3. Posting(c)'
    BY <1>3 DEF Posting
  <2>4. \A x \in Calls \ {c} :
          Posting(x) /\ ~Reversing(x) => req[x].key # req[c].key
    BY <1>4 DEF ControlInv, IntentOwnership
  <2>5. \A k \in DOMAIN intent', x \in Calls :
          intent'[k].owner = x =>
            Posting(x)' /\ ~Reversing(x) /\ req[x].key = k
    BY <1>4, <2>1, <2>2, <2>3 DEF ControlInv, IntentOwnership
  <2> QED
    BY <1>1, <1>2, <1>4, <2>1, <2>2, <2>3, <2>4, <2>5
    DEF ControlInv, IntentOwnership, TypeOK
<1>8. ReadsStayTrue'
  BY <1>1, <1>2, <1>3 DEF ControlInv, ReadsStayTrue, HoldsRow, Reversing
<1> QED BY <1>5, <1>6, <1>7, <1>8 DEF ControlInv

\* The advisory lock has one holder.
LEMMA TakeAdvisoryLockKeepsControl ==
  ASSUME ControlInv, NEW c \in Calls, TakeAdvisoryLock(c)
  PROVE  ControlInv'
<1>1. UNCHANGED <<db, row, req, orm, found>>
  BY DEF TakeAdvisoryLock, db, locks
<1>2. \A x \in Calls : Target(x)' = Target(x) /\ (Reversing(x)' <=> Reversing(x))
  BY <1>1, TargetsKept DEF db
<1>3. /\ pc[c] = "advisory" /\ pc'[c] = "leader" /\ advisory = None /\ advisory' = c
      /\ \A x \in Calls \ {c} : pc'[x] = pc[x]
      /\ pc' \in [Calls -> Labels]
  BY DEF ControlInv, TypeOK, TakeAdvisoryLock, Goto, Labels, Committed
<1>5. TypeOK'
  BY <1>1, <1>3 DEF ControlInv, TypeOK, db
<1>6. LockDiscipline'
  BY <1>1, <1>2, <1>3, IdsAssumption DEF ControlInv, LockDiscipline, HoldsRow, db
<1>7. IntentOwnership'
  BY <1>1, <1>3 DEF ControlInv, IntentOwnership, Posting, Reversing, db
<1>8. ReadsStayTrue'
  BY <1>1, <1>2, <1>3 DEF ControlInv, ReadsStayTrue, HoldsRow, Reversing, db
<1> QED BY <1>5, <1>6, <1>7, <1>8 DEF ControlInv

\* The newest open row is the last open one; it is 0 when there is none.
LEMMA NewestOpenFacts ==
  ASSUME log \in Seq(LogRow)
  PROVE  /\ NewestOpen \in Nat
         /\ OpenRows = {} => NewestOpen = 0
         /\ OpenRows # {} => /\ NewestOpen \in OpenRows
                             /\ NewestOpen # 0
                             /\ \A j \in OpenRows : j <= NewestOpen
<1> DEFINE n == Len(log)
           T == {n - i : i \in OpenRows}
<1>1. OpenRows \subseteq 1 .. n /\ n \in Nat
  BY DEF OpenRows
<1>2. CASE OpenRows = {}
  BY <1>2 DEF NewestOpen
<1>3. CASE OpenRows # {}
  <2>1. \A i \in OpenRows : i \in Int /\ 1 <= i /\ i <= n /\ n - i \in Nat
    BY <1>1
  <2>2. PICK t \in T : \A u \in T : t <= u
    <3>1. T \in SUBSET Nat /\ T # {}
      BY <1>3, <2>1
    <3> HIDE DEF T
    <3> QED BY <3>1, LeastNatural
  <2>3. PICK i \in OpenRows : t = n - i
    OBVIOUS
  <2>4. \A j \in OpenRows : j <= i
    <3>1. \A j \in OpenRows : n - i <= n - j
      BY <2>2, <2>3
    <3> HIDE DEF n
    <3> QED BY <1>1, <2>1, <3>1
  <2>5. NewestOpen = CHOOSE k \in OpenRows : \A j \in OpenRows : j <= k
    BY <1>3 DEF NewestOpen
  <2>6. NewestOpen \in OpenRows /\ \A j \in OpenRows : j <= NewestOpen
    BY <2>4, <2>5
  <2> QED BY <1>1, <1>3, <2>6
<1> QED BY <1>2, <1>3

\* The reads of _update_leadership_log leave the control as it is.
LEMMA ReadLeaderKeepsControl ==
  ASSUME ControlInv, NEW c \in Calls, ReadLeader(c)
  PROVE  ControlInv'
<1>1. UNCHANGED <<db, locks, req, orm>>
  BY DEF ReadLeader, db, locks
<1>2. \A x \in Calls : Target(x)' = Target(x) /\ (Reversing(x)' <=> Reversing(x))
  BY <1>1, TargetsKept DEF db
<1>3. /\ pc[c] = "leader" /\ pc'[c] = "commit"
      /\ Reversing(c) \/ req[c].key \notin DOMAIN bid
      /\ \A x \in Calls \ {c} : pc'[x] = pc[x]
      /\ pc' \in [Calls -> Labels]
  BY DEF ControlInv, TypeOK, ReadLeader, Goto, Labels, Committed
<1>4. found' \in [Calls -> Reading]
  <2>1. NewestOpen \in Nat
    BY NewestOpenFacts DEF ControlInv, TypeOK
  <2>2. Leader(StatusSeenBy(c), TotalSeenBy(c)) \in Projects \cup {None}
    BY <1>3, SeenTyped
  <2> QED BY <2>1, <2>2 DEF ControlInv, TypeOK, ReadLeader, Reading
<1>5. TypeOK'
  BY <1>1, <1>3, <1>4 DEF ControlInv, TypeOK, db, locks
<1>6. LockDiscipline'
  BY <1>1, <1>2, <1>3 DEF ControlInv, LockDiscipline, HoldsRow, db, locks
<1>7. IntentOwnership'
  BY <1>1, <1>3 DEF ControlInv, IntentOwnership, Posting, Reversing, db
<1>8. ReadsStayTrue'
  BY <1>1, <1>2, <1>3 DEF ControlInv, ReadsStayTrue, HoldsRow, Reversing, db
<1> QED BY <1>5, <1>6, <1>7, <1>8 DEF ControlInv

\* The audit record is written outside of every lock.
LEMMA RecordReversalKeepsControl ==
  ASSUME ControlInv, NEW c \in Calls, RecordReversal(c)
  PROVE  ControlInv'
<1>1. UNCHANGED <<status, total, count, intent, bid, log, locks, req, orm, found>>
  BY DEF RecordReversal, db, locks
<1>2. \A x \in Calls : Target(x)' = Target(x) /\ (Reversing(x)' <=> Reversing(x))
  BY <1>1, TargetsKept DEF db
<1>3. /\ pc[c] = "audit" /\ pc'[c] = "done"
      /\ \A x \in Calls \ {c} : pc'[x] = pc[x]
      /\ pc' \in [Calls -> Labels]
  BY DEF ControlInv, TypeOK, RecordReversal, Goto, Labels, Committed
<1>4. audit' \subseteq Calls
  BY DEF ControlInv, TypeOK, RecordReversal
<1>5. TypeOK'
  BY <1>1, <1>3, <1>4 DEF ControlInv, TypeOK, locks
<1>6. LockDiscipline'
  BY <1>1, <1>2, <1>3 DEF ControlInv, LockDiscipline, HoldsRow, locks
<1>7. IntentOwnership'
  BY <1>1, <1>3 DEF ControlInv, IntentOwnership, Posting, Reversing
<1>8. ReadsStayTrue'
  BY <1>1, <1>2, <1>3 DEF ControlInv, ReadsStayTrue, HoldsRow, Reversing
<1> QED BY <1>5, <1>6, <1>7, <1>8 DEF ControlInv

\* The early return of accept_bid releases what the call holds.
LEMMA AlreadySettledKeepsControl ==
  ASSUME ControlInv, NEW c \in Calls, AlreadySettled(c)
  PROVE  ControlInv'
<1>1. UNCHANGED <<db, req>>
  BY DEF AlreadySettled
<1>2. \A x \in Calls : Target(x)' = Target(x) /\ (Reversing(x)' <=> Reversing(x))
  BY <1>1, TargetsKept DEF db
<1>3. /\ pc[c] = "find" /\ pc'[c] = "done"
      /\ req[c].key \in DOMAIN bid
      /\ \A x \in Calls \ {c} : pc'[x] = pc[x]
      /\ pc' \in [Calls -> Labels]
  BY DEF ControlInv, TypeOK, AlreadySettled, Goto, Labels
<1>4. /\ LockDiscipline'
      /\ row' \in [Projects -> Calls \cup {None}]
      /\ advisory' \in Calls \cup {None}
      /\ found' \in [Calls -> Reading]
      /\ orm' \in [DOMAIN orm' -> [total : Int, count : Int]]
      /\ DOMAIN orm' = DOMAIN orm \ {c}
  BY <1>2, <1>3, EndReleases DEF AlreadySettled
<1>5. TypeOK'
  BY <1>1, <1>3, <1>4 DEF ControlInv, TypeOK, db
<1>6. IntentOwnership'
  BY <1>1, <1>3 DEF ControlInv, IntentOwnership, Posting, Reversing, db
<1>7. ReadsStayTrue'
  BY <1>1, <1>2, <1>3, <1>4 DEF ControlInv, ReadsStayTrue, HoldsRow, db
<1> QED BY <1>4, <1>5, <1>6, <1>7 DEF ControlInv

\* Closing the row that was read keeps the log's length and its types.
LEMMA ClosedLogFacts ==
  ASSUME log \in Seq(LogRow), NEW c
  PROVE  /\ ClosedLog(c) \in Seq(LogRow)
         /\ Len(ClosedLog(c)) = Len(log)
         /\ \A i \in 1 .. Len(log) :
              /\ ClosedLog(c)[i].project = log[i].project
              /\ ClosedLog(c)[i].open <=>
                   log[i].open /\ ~(found[c].open # 0 /\ i = found[c].open)
<1> DEFINE n == found[c].open
<1> HIDE DEF n
<1>1. CASE n = 0
  BY <1>1 DEF ClosedLog, n
<1>2. CASE n # 0
  <2>1. ClosedLog(c) = [log EXCEPT ![n].open = FALSE]
    BY <1>2 DEF ClosedLog, n
  <2>2. ClosedLog(c) \in Seq(LogRow) /\ Len(ClosedLog(c)) = Len(log)
    <3>1. log \in [1 .. Len(log) -> LogRow] /\ Len(log) \in Nat
      OBVIOUS
    <3>2. ClosedLog(c) \in [1 .. Len(log) -> LogRow]
      BY <2>1, <3>1 DEF LogRow
    <3> QED BY <3>1, <3>2, SeqDef
  <2>3. \A i \in 1 .. Len(log) :
          /\ ClosedLog(c)[i].project = log[i].project
          /\ ClosedLog(c)[i].open <=> log[i].open /\ i # n
    BY <2>1 DEF LogRow
  <2> QED BY <1>2, <2>2, <2>3 DEF n
<1> QED BY <1>1, <1>2

\* The log a commit writes has the type of a log.
LEMMA LogTyped ==
  ASSUME ControlInv, NEW c \in Calls
  PROVE  LogAfter(c) \in Seq(LogRow)
<1>1. ClosedLog(c) \in Seq(LogRow)
  BY ClosedLogFacts DEF ControlInv, TypeOK
<1>2. found[c].leader \in Projects \cup {None}
  BY DEF ControlInv, TypeOK, Reading
<1>3. Takeover(c) => [project |-> found[c].leader, open |-> TRUE] \in LogRow
  BY <1>2 DEF Takeover, LogRow
<1> QED BY <1>1, <1>3 DEF LogAfter, ControlInv, TypeOK

\* The commit of a settlement: one bid, one verified intent, no lock left.
LEMMA CommitSettlementKeepsControl ==
  ASSUME ControlInv, NEW c \in Calls, CommitSettlement(c)
  PROVE  ControlInv'
<1> DEFINE k == req[c].key
<1>1. /\ pc[c] = "commit" /\ pc'[c] = "done"
      /\ \A x \in Calls \ {c} : pc'[x] = pc[x]
      /\ pc' \in [Calls -> Labels]
      /\ ~Reversing(c) /\ req' = req /\ audit' = audit
      /\ \A x \in Calls : Reversing(x)' <=> Reversing(x)
  BY DEF ControlInv, TypeOK, CommitSettlement, Goto, Labels, Reversing
<1>2. /\ k \in DOMAIN intent /\ k \notin DOMAIN bid /\ k \in Keys
      /\ intent[k] \in IntentRow /\ intent[k].owner \in {None, c}
      /\ req[c] \in Request
  BY <1>1 DEF ControlInv, TypeOK, IntentOwnership, ReadsStayTrue, Posting
<1>3. /\ DOMAIN bid' = DOMAIN bid \cup {k}
      /\ \A x \in DOMAIN bid : bid'[x] = bid[x]
      /\ bid' \in [DOMAIN bid' -> BidRow]
  <2>1. [project |-> req[c].project, amount |-> intent[k].amount,
         reversed |-> FALSE] \in BidRow
    BY <1>2 DEF IntentRow, Request, BidRow
  <2> QED BY <1>2, <2>1 DEF CommitSettlement, Insert, ControlInv, TypeOK
<1>4. /\ DOMAIN intent' = DOMAIN intent
      /\ \A x \in DOMAIN intent \ {k} : intent'[x] = intent[x]
      /\ intent'[k].owner = None
      /\ intent' \in [DOMAIN intent' -> IntentRow]
  BY <1>2 DEF CommitSettlement, ControlInv, TypeOK, IntentRow
<1>5. \A x \in Calls : HoldsRow(x) => Target(x)' = Target(x)
  BY <1>1, <1>3 DEF ControlInv, ReadsStayTrue, Target, HoldsRow, Reversing
<1>6. /\ LockDiscipline'
      /\ row' \in [Projects -> Calls \cup {None}]
      /\ advisory' \in Calls \cup {None}
      /\ found' \in [Calls -> Reading]
      /\ orm' \in [DOMAIN orm' -> [total : Int, count : Int]]
      /\ DOMAIN orm' = DOMAIN orm \ {c}
  BY <1>1, <1>5, EndReleases DEF CommitSettlement
<1>7. /\ status' \in [Projects -> Status]
      /\ total' \in [Projects -> Int] /\ count' \in [Projects -> Int]
  BY <1>1, SeenTyped DEF CommitSettlement
<1>8. log' \in Seq(LogRow)
  BY LogTyped DEF CommitSettlement
<1>9. TypeOK'
  BY <1>1, <1>2, <1>3, <1>4, <1>6, <1>7, <1>8 DEF ControlInv, TypeOK
<1>10. IntentOwnership'
  <2>1. \A x \in Calls : Posting(x)' <=> x # c /\ Posting(x)
    BY <1>1 DEF Posting
  <2>2. \A x \in Calls \ {c} : intent[k].owner # x
    BY <1>2, IdsAssumption
  <2>3. \A x \in DOMAIN intent', y \in Calls :
          intent'[x].owner = y => Posting(y)' /\ ~Reversing(y)' /\ req'[y].key = x
    BY <1>1, <1>2, <1>4, <2>1, IdsAssumption DEF ControlInv, IntentOwnership
  <2>4. \A y \in Calls :
          Posting(y)' /\ ~Reversing(y)' =>
            /\ req'[y].key \in DOMAIN intent'
            /\ intent'[req'[y].key].owner \in {None, y}
    BY <1>1, <1>2, <1>4, <2>1 DEF ControlInv, IntentOwnership
  <2>5. \A x \in DOMAIN bid' : intent'[x].owner = None
    BY <1>3, <1>4 DEF ControlInv, IntentOwnership, TypeOK
  <2> QED BY <2>3, <2>4, <2>5 DEF IntentOwnership
<1>11. ReadsStayTrue'
  <2>1. \A x \in Calls \ {c} : pc[x] # "commit"
    BY <1>1, IdsAssumption DEF ControlInv, LockDiscipline
  <2> QED
    BY <1>1, <1>3, <1>6, <2>1 DEF ControlInv, ReadsStayTrue, HoldsRow
<1> QED BY <1>6, <1>9, <1>10, <1>11 DEF ControlInv

\* The commit of a reversal: a reversed bid and no lock left.
LEMMA CommitReversalKeepsControl ==
  ASSUME ControlInv, NEW c \in Calls, CommitReversal(c)
  PROVE  ControlInv'
<1> DEFINE k == req[c].key
<1>1. /\ pc[c] = "commit" /\ pc'[c] = "audit"
      /\ \A x \in Calls \ {c} : pc'[x] = pc[x]
      /\ pc' \in [Calls -> Labels]
      /\ Reversing(c) /\ UNCHANGED <<status, intent, audit, req>>
      /\ \A x \in Calls : Reversing(x)' <=> Reversing(x)
  BY DEF ControlInv, TypeOK, CommitReversal, Goto, Labels, Reversing
<1>2. k \in DOMAIN bid
  BY <1>1 DEF ControlInv, ReadsStayTrue
<1>3. /\ DOMAIN bid' = DOMAIN bid
      /\ \A x \in DOMAIN bid : bid'[x].project = bid[x].project
      /\ bid' \in [DOMAIN bid' -> BidRow]
  BY <1>2 DEF CommitReversal, ControlInv, TypeOK, BidRow
<1>4. \A x \in Calls : HoldsRow(x) => Target(x)' = Target(x)
  BY <1>1, <1>3 DEF ControlInv, ReadsStayTrue, Target, HoldsRow, Reversing
<1>5. /\ LockDiscipline'
      /\ row' \in [Projects -> Calls \cup {None}]
      /\ advisory' \in Calls \cup {None}
      /\ found' \in [Calls -> Reading]
      /\ orm' \in [DOMAIN orm' -> [total : Int, count : Int]]
      /\ DOMAIN orm' = DOMAIN orm \ {c}
  BY <1>1, <1>4, EndReleases DEF CommitReversal
<1>6. total' \in [Projects -> Int] /\ count' \in [Projects -> Int]
  BY <1>1, SeenTyped DEF CommitReversal
<1>7. log' \in Seq(LogRow)
  BY LogTyped DEF CommitReversal
<1>8. TypeOK'
  BY <1>1, <1>3, <1>5, <1>6, <1>7 DEF ControlInv, TypeOK
<1>9. IntentOwnership'
  BY <1>1, <1>3 DEF ControlInv, IntentOwnership, Posting, Reversing
<1>10. ReadsStayTrue'
  BY <1>1, <1>2, <1>3, <1>5 DEF ControlInv, ReadsStayTrue, HoldsRow
<1> QED BY <1>5, <1>8, <1>9, <1>10 DEF ControlInv

\* An admin's status change leaves the control as it is.
LEMMA ModerateKeepsControl ==
  ASSUME ControlInv, NEW p \in Projects, NEW s \in Moderation, Moderate(p, s)
  PROVE  ControlInv'
<1>1. UNCHANGED <<total, count, intent, bid, log, audit, locks, req, pc, orm, found>>
  BY DEF Moderate
<1>2. TypeOK'
  BY <1>1, ModerationAssumption DEF ControlInv, TypeOK, Moderate, locks
<1>3. LockDiscipline' /\ IntentOwnership' /\ ReadsStayTrue'
  BY <1>1 DEF ControlInv, LockDiscipline, IntentOwnership, ReadsStayTrue,
              HoldsRow, Posting, Target, Reversing, locks
<1> QED BY <1>2, <1>3 DEF ControlInv

\* The seeded board satisfies the control invariant.
LEMMA InitHasControl == Init => ControlInv
<1> SUFFICES ASSUME Init PROVE ControlInv
  OBVIOUS
<1>1. TypeOK
  <2>1. req \in [Calls -> Request]
    BY WorkloadAssumption DEF Init
  <2>2. total \in [Projects -> Int] /\ count \in [Projects -> Int]
    BY OpeningSums DEF Init
  <2>3. DOMAIN intent = DOMAIN Orders /\ intent \in [DOMAIN intent -> IntentRow]
    BY OpeningAssumption DEF Init, IntentRow
  <2>4. log \in Seq(LogRow)
    BY DEF Init
  <2>5. found \in [Calls -> Reading]
    BY DEF Init, Reading, Nothing
  <2> QED
    BY <2>1, <2>2, <2>3, <2>4, <2>5, OpeningAssumption DEF Init, TypeOK, Labels
<1>2. LockDiscipline
  BY IdsAssumption DEF Init, LockDiscipline, HoldsRow
<1>3. IntentOwnership
  BY OpeningAssumption, IdsAssumption DEF Init, IntentOwnership, Posting
<1>4. ReadsStayTrue
  BY DEF Init, ReadsStayTrue, HoldsRow
<1> QED BY <1>1, <1>2, <1>3, <1>4 DEF ControlInv

\* The control invariant is inductive.
LEMMA NextKeepsControl ==
  ASSUME ControlInv, [Next]_vars
  PROVE  ControlInv'
<1>1. ASSUME NEW c \in Calls, Step(c) PROVE ControlInv'
  BY <1>1, PreloadProjectKeepsControl, InsertProjectKeepsControl,
     ReadBidKeepsControl, LockProjectKeepsControl, AlreadySettledKeepsControl,
     FindIntentKeepsControl, InsertIntentKeepsControl,
     TakeAdvisoryLockKeepsControl, ReadLeaderKeepsControl,
     CommitSettlementKeepsControl, CommitReversalKeepsControl,
     RecordReversalKeepsControl, AbortKeepsControl
  DEF Step, IntentConflict, BidConflict
<1>2. ASSUME NEW c \in Calls, Crash(c) \/ DeadlockVictim(c) PROVE ControlInv'
  BY <1>2, AbortKeepsControl DEF Crash, DeadlockVictim
<1>3. CASE UNCHANGED vars
  BY <1>3 DEF vars, db, locks, ControlInv, TypeOK, LockDiscipline,
     IntentOwnership, ReadsStayTrue, HoldsRow, Posting, Target, Reversing
<1> QED BY <1>1, <1>2, <1>3, ModerateKeepsControl DEF Next

\* The control of every call, whatever the workload and the interleaving:
\* types, the holders of locks and of uncommitted intents, and reads that
\* stay true until the commit.
THEOREM ControlCorrect == Spec => []ControlInv
BY NextKeepsControl, InitHasControl, PTL DEF Spec

-----------------------------------------------------------------------------
(* Sums over the ledger.                                                   *)

\* One bid more among the counted ones adds its amount and one to the count.
LEMMA OneMore ==
  ASSUME NEW t, NEW u, NEW p, NEW k, NEW a \in Nat,
         IsFiniteSet(Counted(t, p)), IsFiniteSet(Paise(t, p)),
         k \notin Counted(t, p),
         Counted(u, p) = Counted(t, p) \cup {k},
         \A x \in Counted(t, p) : u[x].amount = t[x].amount,
         u[k].amount = a
  PROVE  /\ LedgerTotal(u, p) = LedgerTotal(t, p) + a
         /\ LedgerCount(u, p) = LedgerCount(t, p) + 1
<1> DEFINE new == {k} \X (1 .. a)
<1>1. LedgerCount(u, p) = LedgerCount(t, p) + 1
  BY FS_AddElement DEF LedgerCount
<1>2. Paise(u, p) = Paise(t, p) \cup new
  BY DEF Paise
<1>3. Paise(t, p) \cap new = {}
  BY DEF Paise
<1>4. IsFiniteSet(new) /\ Cardinality(new) = a
  <2>1. IsFiniteSet({k}) /\ Cardinality({k}) = 1
    BY FS_Singleton
  <2>2. IsFiniteSet(1 .. a) /\ Cardinality(1 .. a) = a
    BY FS_Interval
  <2>3. /\ IsFiniteSet(new)
        /\ Cardinality(new) = Cardinality({k}) * Cardinality(1 .. a)
    BY <2>1, <2>2, FS_Product
  <2> QED BY <2>1, <2>2, <2>3
<1>5. Cardinality(Paise(t, p) \cup new) = Cardinality(Paise(t, p)) + a
  <2> HIDE DEF new
  <2>1. Cardinality(Paise(t, p) \cup new) =
          Cardinality(Paise(t, p)) + Cardinality(new) - Cardinality(Paise(t, p) \cap new)
    BY <1>4, FS_Union
  <2>2. Cardinality(Paise(t, p) \cap new) = 0
    BY <1>3, FS_EmptySet
  <2>3. Cardinality(Paise(t, p)) \in Nat
    BY FS_CardinalityType
  <2> QED BY <1>4, <2>1, <2>2, <2>3
<1> QED BY <1>1, <1>2, <1>5 DEF LedgerTotal

\* Tables that count the same bids with the same amounts have the same sums.
LEMMA SameSums ==
  ASSUME NEW t, NEW u, NEW p,
         Counted(u, p) = Counted(t, p),
         \A x \in Counted(t, p) : u[x].amount = t[x].amount
  PROVE  LedgerTotal(u, p) = LedgerTotal(t, p) /\ LedgerCount(u, p) = LedgerCount(t, p)
<1>1. Paise(u, p) = Paise(t, p)
  BY DEF Paise
<1> QED BY <1>1 DEF LedgerTotal, LedgerCount

\* A new bid adds its amount and one to its project and to no other.
LEMMA SettlingAdds ==
  ASSUME NEW t, IsFiniteSet(DOMAIN t), t \in [DOMAIN t -> BidRow],
         NEW k, k \notin DOMAIN t, NEW r \in BidRow, ~r.reversed, NEW p
  PROVE  /\ LedgerTotal(Insert(t, k, r), p) =
              LedgerTotal(t, p) + (IF p = r.project THEN r.amount ELSE 0)
         /\ LedgerCount(Insert(t, k, r), p) =
              LedgerCount(t, p) + (IF p = r.project THEN 1 ELSE 0)
<1> DEFINE u == Insert(t, k, r)
<1>1. DOMAIN u = DOMAIN t \cup {k} /\ u[k] = r /\ \A x \in DOMAIN t : u[x] = t[x]
  BY InsertFacts
<1>2. /\ IsFiniteSet(Counted(t, p)) /\ IsFiniteSet(Paise(t, p))
      /\ LedgerTotal(t, p) \in Nat /\ LedgerCount(t, p) \in Nat
  BY CountedFinite
<1>3. \A x \in Counted(t, p) : u[x].amount = t[x].amount
  BY <1>1 DEF Counted
<1>4. k \notin Counted(t, p) /\ r.amount \in Nat
  BY DEF Counted, BidRow
<1> HIDE DEF u
<1>5. CASE p = r.project
  <2>1. Counted(u, p) = Counted(t, p) \cup {k}
    BY <1>1, <1>5 DEF Counted
  <2>2. /\ LedgerTotal(u, p) = LedgerTotal(t, p) + r.amount
        /\ LedgerCount(u, p) = LedgerCount(t, p) + 1
    BY <1>1, <1>2, <1>3, <1>4, <2>1, OneMore
  <2> QED BY <1>5, <2>2 DEF u
<1>6. CASE p # r.project
  <2>1. Counted(u, p) = Counted(t, p)
    BY <1>1, <1>6 DEF Counted
  <2> QED BY <1>2, <1>3, <1>6, <2>1, SameSums DEF u
<1> QED BY <1>5, <1>6

\* Reversing a bid takes its amount and one from its project and no other.
LEMMA ReversingSubtracts ==
  ASSUME NEW t, IsFiniteSet(DOMAIN t), t \in [DOMAIN t -> BidRow],
         NEW k \in DOMAIN t, ~t[k].reversed, NEW p
  PROVE  LET u == [t EXCEPT ![k].reversed = TRUE]
         IN  /\ LedgerTotal(u, p) =
                  LedgerTotal(t, p) - (IF p = t[k].project THEN t[k].amount ELSE 0)
             /\ LedgerCount(u, p) =
                  LedgerCount(t, p) - (IF p = t[k].project THEN 1 ELSE 0)
<1> DEFINE u == [t EXCEPT ![k].reversed = TRUE]
<1>1. /\ DOMAIN u = DOMAIN t /\ u \in [DOMAIN u -> BidRow]
      /\ \A x \in DOMAIN t : /\ u[x].project = t[x].project
                             /\ u[x].amount = t[x].amount
                             /\ u[x].reversed <=> t[x].reversed \/ x = k
  BY DEF BidRow
<1> HIDE DEF u
<1>2. /\ IsFiniteSet(Counted(u, p)) /\ IsFiniteSet(Paise(u, p))
      /\ LedgerTotal(u, p) \in Nat /\ LedgerCount(u, p) \in Nat
  BY <1>1, CountedFinite
<1>3. \A x \in Counted(u, p) : u[x].amount = t[x].amount
  BY <1>1 DEF Counted
<1>4. k \notin Counted(u, p) /\ t[k].amount \in Nat
  BY <1>1 DEF Counted, BidRow
<1>5. CASE p = t[k].project
  <2>1. Counted(t, p) = Counted(u, p) \cup {k}
    BY <1>1, <1>5 DEF Counted
  <2>2. /\ LedgerTotal(t, p) = LedgerTotal(u, p) + t[k].amount
        /\ LedgerCount(t, p) = LedgerCount(u, p) + 1
    BY <1>1, <1>2, <1>3, <1>4, <2>1, OneMore
  <2> QED BY <1>2, <1>4, <1>5, <2>2 DEF u
<1>6. CASE p # t[k].project
  <2>1. Counted(t, p) = Counted(u, p)
    BY <1>1, <1>6 DEF Counted
  <2>2. \A x \in Counted(t, p) : u[x].amount = t[x].amount
    BY <1>3, <2>1
  <2>3. /\ LedgerTotal(u, p) = LedgerTotal(t, p)
        /\ LedgerCount(u, p) = LedgerCount(t, p)
    BY <2>1, <2>2, SameSums
  <2> QED BY <1>2, <1>6, <2>3 DEF u
<1> QED BY <1>5, <1>6 DEF u

-----------------------------------------------------------------------------
(* The totals.                                                             *)

\* A step of c that moves no money keeps MoneyInv if what c holds afterwards
\* is fresh.
LEMMA QuietKeepsMoney ==
  ASSUME ControlInv, MoneyInv, NEW c \in Calls,
         UNCHANGED <<status, total, count, bid, req>>,
         \A x \in Calls \ {c} : pc'[x] = pc[x],
         \A x \in Calls \ {c} : /\ x \in DOMAIN orm' <=> x \in DOMAIN orm
                                /\ x \in DOMAIN orm => orm'[x] = orm[x],
         c \in DOMAIN orm' => HoldsRow(c)',
         HoldsRow(c)' =>
           /\ orm'[c] = [total |-> total[Target(c)], count |-> count[Target(c)]]
           /\ status[Target(c)] = "absent" <=> req[c].kind = "open",
         Reversing(c) /\ (HoldsRow(c)' \/ pc'[c] = "lock") =>
           ~bid[req[c].key].reversed
  PROVE  MoneyInv'
<1>1. \A x \in Calls : Target(x)' = Target(x) /\ (Reversing(x)' <=> Reversing(x))
  BY TargetsKept
<1>2. \A x \in Calls \ {c} : HoldsRow(x)' <=> HoldsRow(x)
  BY DEF HoldsRow
<1>3. CacheMatchesLedger'
  BY DEF MoneyInv, CacheMatchesLedger
<1>4. SessionsAreFresh'
  BY <1>1, <1>2 DEF ControlInv, ReadsStayTrue, MoneyInv, SessionsAreFresh
<1>5. \A x \in Calls :
        /\ req'[x] \in Workload[x]
        /\ x \in DOMAIN orm' => HoldsRow(x)'
        /\ Reversing(x)' /\ (HoldsRow(x)' \/ pc'[x] = "lock") =>
             ~bid'[req'[x].key].reversed
        /\ HoldsRow(x)' =>
             (status'[Target(x)'] = "absent" <=> req'[x].kind = "open")
  BY <1>1, <1>2 DEF MoneyInv
<1>6. \A p \in Projects : status'[p] = "absent" =>
        \A k \in DOMAIN bid' : bid'[k].project # p
  BY DEF MoneyInv
<1> QED BY <1>3, <1>4, <1>5, <1>6 DEF MoneyInv

\* A project that is not on the board has no bids: it starts from zero.
LEMMA InsertProjectKeepsMoney ==
  ASSUME ControlInv, MoneyInv, NEW c \in Calls, InsertProject(c)
  PROVE  MoneyInv'
<1> DEFINE p == req[c].project
<1>1. /\ UNCHANGED <<status, total, count, bid, req>>
      /\ \A x \in Calls \ {c} : pc'[x] = pc[x]
      /\ pc[c] = "idle" /\ pc'[c] = "find"
      /\ ~Reversing(c) /\ Target(c) = p /\ p \in Projects
      /\ status[p] = "absent" /\ req[c].kind = "open"
  BY DEF ControlInv, TypeOK, InsertProject, db, Goto, Reversing, Target, Request
<1>2. /\ c \notin DOMAIN orm
      /\ DOMAIN orm' = DOMAIN orm \cup {c}
      /\ \A x \in DOMAIN orm : orm'[x] = orm[x]
      /\ orm'[c] = [total |-> 0, count |-> 0]
  <2>1. c \notin DOMAIN orm
    BY <1>1 DEF MoneyInv, HoldsRow
  <2>2. orm' = Insert(orm, c, [total |-> 0, count |-> 0])
    BY DEF InsertProject
  <2> QED BY <2>1, <2>2 DEF Insert
<1>3. total[p] = 0 /\ count[p] = 0
  <2>1. Counted(bid, p) = {}
    BY <1>1 DEF MoneyInv, Counted
  <2>2. Paise(bid, p) = {}
    BY <2>1 DEF Paise
  <2> QED BY <1>1, <2>1, <2>2, FS_EmptySet
          DEF MoneyInv, CacheMatchesLedger, LedgerTotal, LedgerCount
<1>4. \A x \in Calls \ {c} : /\ x \in DOMAIN orm' <=> x \in DOMAIN orm
                             /\ x \in DOMAIN orm => orm'[x] = orm[x]
  BY <1>2
<1>5. HoldsRow(c)'
  BY <1>1 DEF HoldsRow
<1> QED BY <1>1, <1>2, <1>3, <1>4, <1>5, QuietKeepsMoney

\* With the lock comes a fresh copy, for nothing was preloaded.
LEMMA LockProjectKeepsMoney ==
  ASSUME ControlInv, MoneyInv, SafeRequests, NEW c \in Calls, LockProject(c)
  PROVE  MoneyInv'
<1>1. /\ UNCHANGED <<status, total, count, bid, req>>
      /\ \A x \in Calls \ {c} : pc'[x] = pc[x]
      /\ AboutToLock(c) /\ ~HoldsRow(c) /\ Target(c) \in Projects
  BY TargetIsProject
  DEF ControlInv, TypeOK, LockProject, db, Goto, AboutToLock, HoldsRow
<1>2. c \notin DOMAIN orm
  BY <1>1 DEF MoneyInv
<1>3. CASE status[Target(c)] = "absent"
  <2>1. orm' = orm /\ pc'[c] = "failed"
    BY <1>3 DEF LockProject, Goto, ControlInv, TypeOK
  <2>2. ~HoldsRow(c)'
    BY <2>1 DEF HoldsRow
  <2> QED BY <1>1, <1>2, <2>1, <2>2, QuietKeepsMoney
<1>4. CASE status[Target(c)] # "absent"
  <2>1. /\ DOMAIN orm' = DOMAIN orm \cup {c}
        /\ \A x \in DOMAIN orm : orm'[x] = orm[x]
        /\ orm'[c] = [total |-> total[Target(c)], count |-> count[Target(c)]]
    <3>1. orm' = Insert(orm, c, [total |-> total[Target(c)],
                                 count |-> count[Target(c)]])
      BY <1>4 DEF LockProject
    <3> QED BY <1>2, <3>1 DEF Insert
  <2>2. pc'[c] = IF Reversing(c) THEN "advisory" ELSE "find"
    BY <1>4 DEF LockProject, Goto, ControlInv, TypeOK
  <2>3. HoldsRow(c)'
    BY <2>2 DEF HoldsRow
  <2>4. req[c].kind # "open"
    BY <1>1 DEF AboutToLock, ControlInv, ReadsStayTrue
  <2>5. Reversing(c) => ~bid[req[c].key].reversed
    BY <1>1 DEF MoneyInv, AboutToLock, Reversing
  <2> QED BY <1>1, <1>2, <1>4, <2>1, <2>3, <2>4, <2>5, QuietKeepsMoney
<1> QED BY <1>3, <1>4

\* Statements between the lock and the commit: c keeps what it holds.
LEMMA HolderKeepsMoney ==
  ASSUME ControlInv, MoneyInv, NEW c \in Calls, HoldsRow(c), HoldsRow(c)',
         UNCHANGED <<status, total, count, bid, req, orm>>,
         \A x \in Calls \ {c} : pc'[x] = pc[x]
  PROVE  MoneyInv'
<1>1. /\ orm[c] = [total |-> total[Target(c)], count |-> count[Target(c)]]
      /\ status[Target(c)] = "absent" <=> req[c].kind = "open"
      /\ Reversing(c) => ~bid[req[c].key].reversed
  BY DEF MoneyInv, SessionsAreFresh
<1> QED BY <1>1, QuietKeepsMoney

\* The end of a transaction that posts nothing, and steps outside of one.
LEMMA IdlerKeepsMoney ==
  ASSUME ControlInv, MoneyInv, NEW c \in Calls, ~HoldsRow(c)',
         UNCHANGED <<status, total, count, bid, req>>,
         \A x \in Calls \ {c} : pc'[x] = pc[x],
         orm' = Restrict(orm, DOMAIN orm \ {c}),
         Reversing(c) /\ pc'[c] = "lock" => ~bid[req[c].key].reversed
  PROVE  MoneyInv'
<1>1. /\ DOMAIN orm' = DOMAIN orm \ {c}
      /\ \A x \in DOMAIN orm \ {c} : orm'[x] = orm[x]
  BY DEF Restrict
<1> QED BY <1>1, QuietKeepsMoney

\* A settlement's commit is Ledger's Settle: bid and totals move together.
LEMMA CommitSettlementKeepsMoney ==
  ASSUME ControlInv, MoneyInv, NEW c \in Calls, CommitSettlement(c)
  PROVE  /\ MoneyInv'
         /\ Promise!Settle(req[c].key, req[c].project, intent[req[c].key].amount)
<1> DEFINE k == req[c].key
           p == req[c].project
           a == intent[k].amount
           r == [project |-> p, amount |-> a, reversed |-> FALSE]
<1>1. /\ pc[c] = "commit" /\ ~Reversing(c) /\ HoldsRow(c) /\ Target(c) = p
      /\ pc'[c] = "done" /\ ~HoldsRow(c)' /\ req' = req
      /\ \A x \in Calls \ {c} : pc'[x] = pc[x]
  BY DEF ControlInv, TypeOK, CommitSettlement, Goto, HoldsRow, Target
<1>2. /\ k \in DOMAIN intent /\ k \notin DOMAIN bid /\ p \in Projects
      /\ a \in Nat \ {0} /\ r \in BidRow
  BY <1>1 DEF ControlInv, TypeOK, IntentOwnership, ReadsStayTrue, Posting,
              IntentRow, Request, BidRow
<1>3. /\ total' = [total EXCEPT ![p] = @ + a]
      /\ count' = [count EXCEPT ![p] = @ + 1]
  <2>1. orm[c].total = total[p] /\ orm[c].count = count[p]
    <3>1. orm[c] = [total |-> total[Target(c)], count |-> count[Target(c)]]
      BY <1>1 DEF MoneyInv, SessionsAreFresh
    <3> QED BY <1>1, <3>1
  <2>2. NewTotal(c) = total[p] + a /\ NewCount(c) = count[p] + 1
    BY <1>1, <2>1 DEF NewTotal, NewCount
  <2>3. total' = [total EXCEPT ![p] = NewTotal(c)]
        /\ count' = [count EXCEPT ![p] = NewCount(c)]
    BY <1>1 DEF CommitSettlement, TotalSeenBy, CountSeenBy
  <2> QED BY <2>2, <2>3
<1>4. bid' = Insert(bid, k, r)
  BY DEF CommitSettlement
<1>5. /\ DOMAIN bid' = DOMAIN bid \cup {k} /\ bid'[k] = r
      /\ \A x \in DOMAIN bid : bid'[x] = bid[x]
  <2> HIDE DEF r
  <2> QED BY <1>2, <1>4 DEF Insert
<1>6. \A x \in Calls \ {c} :
        /\ HoldsRow(x)' <=> HoldsRow(x)
        /\ HoldsRow(x) => Target(x)' = Target(x) /\ Target(x) # p
                          /\ Target(x) \in Projects
        /\ Reversing(x)' <=> Reversing(x)
  <2>1. \A x \in Calls \ {c} : HoldsRow(x)' <=> HoldsRow(x)
    BY <1>1 DEF HoldsRow
  <2>2. \A x \in Calls \ {c} : HoldsRow(x) => Target(x)' = Target(x)
    BY <1>1, <1>5 DEF ControlInv, ReadsStayTrue, HoldsRow, Target, Reversing
  <2>3. \A x \in Calls \ {c} : HoldsRow(x) => Target(x) # p
    BY <1>1 DEF ControlInv, LockDiscipline
  <2> QED BY <1>1, <2>1, <2>2, <2>3, TargetIsProject DEF Reversing
<1>7. /\ DOMAIN orm' = DOMAIN orm \ {c}
      /\ \A x \in DOMAIN orm \ {c} : orm'[x] = orm[x]
  BY DEF CommitSettlement, EndTransaction, Restrict
<1>8. /\ status'[p] # "absent"
      /\ \A q \in Projects \ {p} : status'[q] = status[q]
  BY <1>1, <1>2 DEF ControlInv, TypeOK, CommitSettlement, StatusSeenBy, MoneyInv
<1>9. CacheMatchesLedger'
  <2>1. IsFiniteSet(DOMAIN bid) /\ bid \in [DOMAIN bid -> BidRow]
    BY IdsAssumption, FS_Subset DEF ControlInv, TypeOK
  <2> HIDE DEF r
  <2>2. ASSUME NEW q \in Projects
        PROVE  /\ LedgerTotal(bid', q) =
                    LedgerTotal(bid, q) + (IF q = r.project THEN r.amount ELSE 0)
               /\ LedgerCount(bid', q) =
                    LedgerCount(bid, q) + (IF q = r.project THEN 1 ELSE 0)
    <3>1. ~r.reversed
      BY DEF r
    <3> QED BY <1>2, <1>4, <2>1, <3>1, SettlingAdds
  <2>3. r.project = p /\ r.amount = a
    BY DEF r
  <2> QED BY <1>2, <1>3, <2>2, <2>3
      DEF MoneyInv, CacheMatchesLedger, ControlInv, TypeOK
<1>10. SessionsAreFresh'
  BY <1>1, <1>2, <1>3, <1>6, <1>7
  DEF ControlInv, TypeOK, ReadsStayTrue, MoneyInv, SessionsAreFresh
<1>11. \A x \in Calls :
        /\ req'[x] \in Workload[x]
        /\ x \in DOMAIN orm' => HoldsRow(x)'
        /\ Reversing(x)' /\ (HoldsRow(x)' \/ pc'[x] = "lock") =>
             ~bid'[req'[x].key].reversed
        /\ HoldsRow(x)' =>
             (status'[Target(x)'] = "absent" <=> req'[x].kind = "open")
  BY <1>1, <1>5, <1>6, <1>7, <1>8
  DEF MoneyInv, ControlInv, ReadsStayTrue, HoldsRow
<1>12. \A q \in Projects : status'[q] = "absent" =>
        \A x \in DOMAIN bid' : bid'[x].project # q
  BY <1>2, <1>5, <1>8 DEF MoneyInv
<1>13. Promise!Settle(k, p, a)
  <2>1. Promise!Insert(bid, k, r) = Insert(bid, k, r)
    BY DEF Promise!Insert, Insert
  <2> QED BY <1>2, <1>3, <1>4, <2>1 DEF Promise!Settle
<1> QED BY <1>9, <1>10, <1>11, <1>12, <1>13 DEF MoneyInv

\* A reversal's commit is Ledger's Reverse: the bid was not reversed since
\* the check, for nobody else reverses it.
LEMMA CommitReversalKeepsMoney ==
  ASSUME ControlInv, MoneyInv, SafeRequests, NEW c \in Calls, CommitReversal(c)
  PROVE  MoneyInv' /\ Promise!Reverse(req[c].key)
<1> DEFINE k == req[c].key
           p == bid[k].project
           a == bid[k].amount
<1>1. /\ pc[c] = "commit" /\ Reversing(c) /\ HoldsRow(c) /\ Target(c) = p
      /\ pc'[c] = "audit" /\ ~HoldsRow(c)' /\ UNCHANGED <<status, req>>
      /\ \A x \in Calls \ {c} : pc'[x] = pc[x]
  BY DEF ControlInv, TypeOK, CommitReversal, Goto, HoldsRow, Target
<1>2. /\ k \in DOMAIN bid /\ ~bid[k].reversed
      /\ bid[k] \in BidRow /\ p \in Projects /\ a \in Nat \ {0}
  BY <1>1 DEF ControlInv, TypeOK, ReadsStayTrue, BidRow, MoneyInv
<1>3. /\ total' = [total EXCEPT ![p] = @ - a]
      /\ count' = [count EXCEPT ![p] = @ - 1]
  <2>1. orm[c].total = total[p] /\ orm[c].count = count[p]
    <3>1. orm[c] = [total |-> total[Target(c)], count |-> count[Target(c)]]
      BY <1>1 DEF MoneyInv, SessionsAreFresh
    <3> QED BY <1>1, <3>1
  <2>2. NewTotal(c) = total[p] - a /\ NewCount(c) = count[p] + (-1)
    BY <1>1, <2>1 DEF NewTotal, NewCount
  <2>3. NewCount(c) = count[p] - 1
    BY <1>2, <2>2 DEF ControlInv, TypeOK
  <2>4. total' = [total EXCEPT ![p] = NewTotal(c)]
        /\ count' = [count EXCEPT ![p] = NewCount(c)]
    BY <1>1 DEF CommitReversal, TotalSeenBy, CountSeenBy
  <2> QED BY <2>2, <2>3, <2>4
<1>4. bid' = [bid EXCEPT ![k].reversed = TRUE]
  BY DEF CommitReversal
<1>5. /\ DOMAIN bid' = DOMAIN bid
      /\ \A x \in DOMAIN bid : bid'[x].project = bid[x].project
      /\ \A x \in DOMAIN bid \ {k} : bid'[x] = bid[x]
  BY <1>2, <1>4 DEF BidRow, ControlInv, TypeOK
<1>6. \A x \in Calls \ {c} :
        /\ HoldsRow(x)' <=> HoldsRow(x)
        /\ HoldsRow(x) => Target(x)' = Target(x) /\ Target(x) # p
                          /\ Target(x) \in Projects
        /\ Reversing(x)' <=> Reversing(x)
  <2>1. \A x \in Calls \ {c} : HoldsRow(x)' <=> HoldsRow(x)
    BY <1>1 DEF HoldsRow
  <2>2. \A x \in Calls \ {c} : HoldsRow(x) => Target(x)' = Target(x)
    BY <1>1, <1>5 DEF ControlInv, ReadsStayTrue, HoldsRow, Target, Reversing
  <2>3. \A x \in Calls \ {c} : HoldsRow(x) => Target(x) # p
    BY <1>1 DEF ControlInv, LockDiscipline
  <2> QED BY <1>1, <2>1, <2>2, <2>3, TargetIsProject DEF Reversing
<1>7. /\ DOMAIN orm' = DOMAIN orm \ {c}
      /\ \A x \in DOMAIN orm \ {c} : orm'[x] = orm[x]
  BY DEF CommitReversal, EndTransaction, Restrict
<1>8. \A x \in Calls \ {c} : Reversing(x) => req[x].key # k
  BY <1>1 DEF SafeRequests, MoneyInv, Reversing
<1>9. CacheMatchesLedger'
  <2>1. IsFiniteSet(DOMAIN bid) /\ bid \in [DOMAIN bid -> BidRow]
    BY IdsAssumption, FS_Subset DEF ControlInv, TypeOK
  <2>2. ASSUME NEW q \in Projects
        PROVE  /\ LedgerTotal(bid', q) = LedgerTotal(bid, q) - (IF q = p THEN a ELSE 0)
               /\ LedgerCount(bid', q) = LedgerCount(bid, q) - (IF q = p THEN 1 ELSE 0)
    BY <1>2, <1>4, <2>1, ReversingSubtracts
  <2> QED BY <1>2, <1>3, <2>2
      DEF MoneyInv, CacheMatchesLedger, ControlInv, TypeOK
<1>10. SessionsAreFresh'
  BY <1>1, <1>2, <1>3, <1>6, <1>7
  DEF ControlInv, TypeOK, ReadsStayTrue, MoneyInv, SessionsAreFresh
<1>11. \A x \in Calls :
        /\ req'[x] \in Workload[x]
        /\ x \in DOMAIN orm' => HoldsRow(x)'
        /\ Reversing(x)' /\ (HoldsRow(x)' \/ pc'[x] = "lock") =>
             ~bid'[req'[x].key].reversed
        /\ HoldsRow(x)' =>
             (status'[Target(x)'] = "absent" <=> req'[x].kind = "open")
  BY <1>1, <1>5, <1>6, <1>7, <1>8
  DEF MoneyInv, ControlInv, ReadsStayTrue, HoldsRow
<1>12. \A q \in Projects : status'[q] = "absent" =>
        \A x \in DOMAIN bid' : bid'[x].project # q
  BY <1>1, <1>5 DEF MoneyInv
<1>13. Promise!Reverse(k)
  BY <1>2, <1>3, <1>4 DEF Promise!Reverse
<1> QED BY <1>9, <1>10, <1>11, <1>12, <1>13 DEF MoneyInv

\* An admin's status change moves no money and meets no row that is held.
LEMMA ModerateKeepsMoney ==
  ASSUME ControlInv, MoneyInv, NEW p \in Projects, NEW s \in Moderation,
         Moderate(p, s)
  PROVE  MoneyInv'
<1>1. /\ UNCHANGED <<total, count, bid, req, pc, orm, row>>
      /\ status[p] # "absent" /\ status'[p] # "absent" /\ row[p] = None
      /\ \A q \in Projects \ {p} : status'[q] = status[q]
  BY ModerationAssumption DEF Moderate, ControlInv, TypeOK, locks
<1>2. \A x \in Calls : /\ Target(x)' = Target(x)
                       /\ Reversing(x)' <=> Reversing(x)
                       /\ HoldsRow(x)' <=> HoldsRow(x)
  BY <1>1, TargetsKept DEF HoldsRow
<1>3. \A x \in Calls : HoldsRow(x) => Target(x) \in Projects \ {p}
  BY <1>1, TargetIsProject, IdsAssumption DEF ControlInv, LockDiscipline
<1>4. CacheMatchesLedger'
  BY <1>1 DEF MoneyInv, CacheMatchesLedger
<1>5. SessionsAreFresh'
  BY <1>1, <1>2 DEF MoneyInv, SessionsAreFresh
<1> QED BY <1>1, <1>2, <1>3, <1>4, <1>5 DEF MoneyInv

\* The seeded totals are the sums of the seeded bids.
LEMMA InitHasMoney == Init => MoneyInv
<1> SUFFICES ASSUME Init PROVE MoneyInv
  OBVIOUS
<1>1. \A c \in Calls : ~HoldsRow(c) /\ pc[c] # "lock"
  BY DEF Init, HoldsRow
<1>2. CacheMatchesLedger
  BY DEF Init, CacheMatchesLedger
<1>3. SessionsAreFresh
  BY <1>1 DEF SessionsAreFresh
<1>4. \A c \in Calls : req[c] \in Workload[c] /\ c \notin DOMAIN orm
  BY DEF Init
<1>5. \A p \in Projects : status[p] = "absent" =>
        \A k \in DOMAIN bid : bid[k].project # p
  BY OpeningAssumption DEF Init
<1> QED BY <1>1, <1>2, <1>3, <1>4, <1>5 DEF MoneyInv

\* A rollback moves no money.
LEMMA AbortKeepsMoney ==
  ASSUME ControlInv, MoneyInv, NEW c \in Calls, Abort(c)
  PROVE  MoneyInv'
<1>1. /\ pc'[c] = "failed" /\ ~HoldsRow(c)'
      /\ \A x \in Calls \ {c} : pc'[x] = pc[x]
  BY DEF Abort, Goto, ControlInv, TypeOK, HoldsRow
<1> QED BY <1>1, IdlerKeepsMoney DEF Abort, EndTransaction

\* Every statement of a call keeps the money invariant.
LEMMA StepKeepsMoney ==
  ASSUME ControlInv, MoneyInv, SafeRequests, NEW c \in Calls, Step(c)
  PROVE  MoneyInv'
<1>1. ASSUME PreloadProject(c) PROVE FALSE
  BY <1>1 DEF PreloadProject, SafeRequests, MoneyInv
<1>2. ASSUME ReadBid(c) PROVE MoneyInv'
  <2>1. /\ UNCHANGED <<status, total, count, bid, req, orm>>
        /\ pc[c] = "idle" /\ pc'[c] \in {"failed", "audit", "lock"}
        /\ pc'[c] = "lock" => ~bid[req[c].key].reversed
        /\ \A x \in Calls \ {c} : pc'[x] = pc[x]
    BY <1>2 DEF ReadBid, db, Goto, ControlInv, TypeOK
  <2>2. ~HoldsRow(c)' /\ c \notin DOMAIN orm
    BY <2>1 DEF HoldsRow, MoneyInv
  <2> QED BY <2>1, <2>2, QuietKeepsMoney
<1>3. ASSUME RecordReversal(c) PROVE MoneyInv'
  <2>1. /\ UNCHANGED <<status, total, count, bid, req, orm>>
        /\ pc[c] = "audit" /\ pc'[c] = "done"
        /\ \A x \in Calls \ {c} : pc'[x] = pc[x]
    BY <1>3 DEF RecordReversal, Goto, ControlInv, TypeOK
  <2>2. ~HoldsRow(c)' /\ c \notin DOMAIN orm
    BY <2>1 DEF HoldsRow, MoneyInv
  <2> QED BY <2>1, <2>2, QuietKeepsMoney
<1>4. ASSUME AlreadySettled(c) PROVE MoneyInv'
  <2>1. /\ pc'[c] = "done" /\ ~HoldsRow(c)'
        /\ \A x \in Calls \ {c} : pc'[x] = pc[x]
    BY <1>4 DEF AlreadySettled, Goto, ControlInv, TypeOK, HoldsRow
  <2> QED BY <1>4, <2>1, IdlerKeepsMoney DEF AlreadySettled, EndTransaction, db
<1>5. ASSUME FindIntent(c) \/ InsertIntent(c) \/ TakeAdvisoryLock(c) \/ ReadLeader(c)
      PROVE  MoneyInv'
  <2>1. /\ UNCHANGED <<status, total, count, bid, req, orm>>
        /\ pc[c] \in {"find", "insert", "advisory", "leader"}
        /\ pc'[c] \in {"advisory", "insert", "leader", "commit"}
        /\ \A x \in Calls \ {c} : pc'[x] = pc[x]
    BY <1>5 DEF FindIntent, InsertIntent, TakeAdvisoryLock, ReadLeader, db,
                Goto, ControlInv, TypeOK
  <2>2. HoldsRow(c) /\ HoldsRow(c)'
    BY <2>1 DEF HoldsRow
  <2> QED BY <2>1, <2>2, HolderKeepsMoney
<1> QED
  BY <1>1, <1>2, <1>3, <1>4, <1>5, InsertProjectKeepsMoney,
     LockProjectKeepsMoney, CommitSettlementKeepsMoney,
     CommitReversalKeepsMoney, AbortKeepsMoney
  DEF Step, IntentConflict, BidConflict

\* The money invariant is inductive under the control invariant.
LEMMA NextKeepsMoney ==
  ASSUME SafeRequests, ControlInv, MoneyInv, [Next]_vars
  PROVE  MoneyInv'
<1>1. ASSUME NEW c \in Calls, Crash(c) \/ DeadlockVictim(c) PROVE MoneyInv'
  BY <1>1, AbortKeepsMoney DEF Crash, DeadlockVictim
<1>2. CASE UNCHANGED vars
  <2>1. UNCHANGED <<status, total, count, bid, req, pc, orm>>
    BY <1>2 DEF vars, db
  <2>2. \A x \in Calls : /\ Target(x)' = Target(x)
                         /\ Reversing(x)' <=> Reversing(x)
                         /\ HoldsRow(x)' <=> HoldsRow(x)
    BY <2>1, TargetsKept DEF HoldsRow
  <2> QED BY <2>1, <2>2 DEF MoneyInv, CacheMatchesLedger, SessionsAreFresh
<1> QED BY <1>1, <1>2, StepKeepsMoney, ModerateKeepsMoney DEF Next

\* A call carries one request from beginning to end.
LEMMA RequestsKept ==
  ASSUME [Next]_vars
  PROVE  req' = req /\ (SafeRequests' <=> SafeRequests)
<1>1. ASSUME NEW c \in Calls, Step(c) \/ Crash(c) \/ DeadlockVictim(c) PROVE req' = req
  BY <1>1 DEF Step, PreloadProject, InsertProject, ReadBid, LockProject,
     AlreadySettled, FindIntent, InsertIntent, IntentConflict, TakeAdvisoryLock,
     BidConflict, ReadLeader, CommitSettlement, CommitReversal, RecordReversal,
     Crash, DeadlockVictim, Abort
<1>2. req' = req
  BY <1>1 DEF Next, Moderate, vars
<1> QED BY <1>2 DEF SafeRequests

\* Without demo payments and with one refund per bid among the requests in
\* flight, the cached totals and counts are the ledger's in every state.
THEOREM TotalsHold == Spec => [](SafeRequests => MoneyInv /\ CacheMatchesLedger)
<1>1. MoneyInv => CacheMatchesLedger
  BY DEF MoneyInv
<1>2. ASSUME ControlInv, SafeRequests => MoneyInv, [Next]_vars
      PROVE  (SafeRequests => MoneyInv)'
  BY <1>2, NextKeepsMoney, RequestsKept
<1> QED BY <1>1, <1>2, ControlCorrect, InitHasMoney, PTL DEF Spec

\* Requests are of the workload from the start.
LEMMA InitIsSafe ==
  ASSUME SafeWorkload
  PROVE  Init => SafeRequests
BY DEF Init, SafeWorkload, SafeRequests

\* The same of deployments that only ever carry such requests.
THEOREM CacheIsRight ==
  ASSUME SafeWorkload
  PROVE  Spec => [](SafeRequests /\ MoneyInv /\ CacheMatchesLedger)
BY InitIsSafe, RequestsKept, TotalsHold, PTL DEF Spec

-----------------------------------------------------------------------------
(* The answers.                                                            *)

\* A call goes on only by a statement of its own.
LEMMA OthersKeepPlace ==
  ASSUME ControlInv, [Next]_vars, NEW c \in Calls, pc'[c] # pc[c]
  PROVE  Step(c) \/ Crash(c) \/ DeadlockVictim(c)
<1>1. ASSUME NEW d \in Calls \ {c}, Step(d) \/ Crash(d) \/ DeadlockVictim(d)
      PROVE  pc'[c] = pc[c]
  BY <1>1 DEF Step, PreloadProject, InsertProject, ReadBid, LockProject,
     AlreadySettled, FindIntent, InsertIntent, IntentConflict, TakeAdvisoryLock,
     BidConflict, ReadLeader, CommitSettlement, CommitReversal, RecordReversal,
     Crash, DeadlockVictim, Abort, Goto, ControlInv, TypeOK
<1>2. ASSUME NEW p \in Projects, NEW s \in Moderation, Moderate(p, s)
      PROVE  pc' = pc
  BY <1>2 DEF Moderate
<1> QED BY <1>1, <1>2 DEF Next, vars

\* A call that is done stays so.
LEMMA DoneStays ==
  ASSUME ControlInv, [Next]_vars, NEW c \in Calls, pc[c] = "done"
  PROVE  pc'[c] = "done"
<1>1. ~(Step(c) \/ Crash(c) \/ DeadlockVictim(c))
  <2>1. ~Step(c)
    BY DEF Step, PreloadProject, InsertProject, ReadBid, LockProject, AboutToLock,
       AlreadySettled, FindIntent, InsertIntent, IntentConflict, TakeAdvisoryLock,
       BidConflict, ReadLeader, CommitSettlement, CommitReversal, RecordReversal
  <2>2. ~Crash(c)
    BY DEF Crash, InTransaction
  <2>3. WaitsFor(c) = {}
    BY DEF WaitsFor, AboutToLock
  <2>4. ~DeadlockVictim(c)
    BY <2>3 DEF DeadlockVictim, Cyclic
  <2> QED BY <2>1, <2>2, <2>4
<1> QED BY <1>1, OthersKeepPlace

\* A bid stays, and once reversed stays reversed; so do audit rows.
LEMMA TablesGrow ==
  ASSUME ControlInv, [Next]_vars
  PROVE  /\ req' = req /\ audit \subseteq audit'
         /\ \A k \in DOMAIN bid : /\ k \in DOMAIN bid'
                                  /\ bid[k].reversed => bid'[k].reversed
<1> DEFINE Grow == /\ req' = req /\ audit \subseteq audit'
                   /\ \A k \in DOMAIN bid : /\ k \in DOMAIN bid'
                                            /\ bid[k].reversed => bid'[k].reversed
<1>1. ASSUME NEW c \in Calls, CommitSettlement(c) PROVE Grow
  <2>1. PICK r : UNCHANGED <<audit, req>> /\ bid' = Insert(bid, req[c].key, r)
    BY <1>1 DEF CommitSettlement
  <2>2. /\ DOMAIN bid' = DOMAIN bid \cup {req[c].key}
        /\ \A k \in DOMAIN bid : bid'[k] = bid[k]
    BY <2>1 DEF Insert
  <2> QED BY <2>1, <2>2
<1>2. ASSUME NEW c \in Calls, CommitReversal(c) PROVE Grow
  BY <1>2 DEF CommitReversal, ControlInv, TypeOK, BidRow
<1>3. ASSUME NEW c \in Calls, RecordReversal(c) PROVE Grow
  BY <1>3 DEF RecordReversal
<1>4. ASSUME NEW c \in Calls, Step(c) \/ Crash(c) \/ DeadlockVictim(c),
             ~CommitSettlement(c), ~CommitReversal(c), ~RecordReversal(c)
      PROVE  UNCHANGED <<req, bid, audit>>
  BY <1>4 DEF Step, PreloadProject, InsertProject, ReadBid, LockProject,
     AlreadySettled, FindIntent, InsertIntent, IntentConflict, TakeAdvisoryLock,
     BidConflict, ReadLeader, Crash, DeadlockVictim, Abort, db
<1>5. ASSUME NEW p \in Projects, NEW s \in Moderation, Moderate(p, s)
      PROVE  UNCHANGED <<req, bid, audit>>
  BY <1>5 DEF Moderate
<1>6. CASE UNCHANGED vars
  BY <1>6 DEF vars, db
<1> QED BY <1>1, <1>2, <1>3, <1>4, <1>5, <1>6 DEF Next

\* Who is about to write the audit row has reversed the bid, or found it so.
AnswerInv ==
  /\ AnswersAreTrue
  /\ \A c \in Calls : pc[c] = "audit" =>
       Reversing(c) /\ req[c].key \in DOMAIN bid /\ bid[req[c].key].reversed

\* A call answers success, or goes to its audit row, only when the bid is there.
LEMMA NextKeepsAnswers ==
  ASSUME ControlInv, AnswerInv, [Next]_vars
  PROVE  AnswerInv'
<1>1. \A c \in Calls : Reversing(c)' <=> Reversing(c)
  BY TablesGrow DEF Reversing
<1>2. ASSUME NEW c \in Calls, pc'[c] = pc[c]
      PROVE  /\ pc'[c] = "done" =>
                  /\ req'[c].key \in DOMAIN bid'
                  /\ Reversing(c)' => bid'[req'[c].key].reversed /\ c \in audit'
             /\ pc'[c] = "audit" =>
                  Reversing(c)' /\ req'[c].key \in DOMAIN bid' /\ bid'[req'[c].key].reversed
  BY <1>1, <1>2, TablesGrow DEF AnswerInv, AnswersAreTrue
<1>3. ASSUME NEW c \in Calls, pc'[c] # pc[c]
      PROVE  /\ pc'[c] = "done" =>
                  /\ req'[c].key \in DOMAIN bid'
                  /\ Reversing(c)' => bid'[req'[c].key].reversed /\ c \in audit'
             /\ pc'[c] = "audit" =>
                  Reversing(c)' /\ req'[c].key \in DOMAIN bid' /\ bid'[req'[c].key].reversed
  <2>1. CASE AlreadySettled(c)
    <3>1. pc[c] = "find" /\ pc'[c] = "done" /\ req[c].key \in DOMAIN bid /\ ~Reversing(c)
      BY <2>1 DEF AlreadySettled, Goto, ControlInv, TypeOK, ReadsStayTrue
    <3> QED BY <1>1, <3>1, TablesGrow
  <2>2. CASE CommitSettlement(c)
    <3>1. PICK r : pc'[c] = "done" /\ ~Reversing(c) /\ bid' = Insert(bid, req[c].key, r)
      BY <2>2 DEF CommitSettlement, Goto, ControlInv, TypeOK
    <3>2. DOMAIN bid' = DOMAIN bid \cup {req[c].key}
      BY <3>1 DEF Insert
    <3> QED BY <1>1, <3>1, <3>2, TablesGrow
  <2>3. CASE CommitReversal(c)
    <3>1. pc[c] = "commit" /\ pc'[c] = "audit" /\ Reversing(c)
      BY <2>3 DEF CommitReversal, Goto, ControlInv, TypeOK
    <3>2. req[c].key \in DOMAIN bid
      BY <3>1 DEF ControlInv, ReadsStayTrue
    <3>3. bid'[req[c].key].reversed
      BY <2>3, <3>2 DEF CommitReversal, ControlInv, TypeOK, BidRow
    <3> QED BY <1>1, <3>1, <3>2, <3>3, TablesGrow
  <2>4. CASE RecordReversal(c)
    <3>1. pc[c] = "audit" /\ pc'[c] = "done" /\ c \in audit'
      BY <2>4 DEF RecordReversal, Goto, ControlInv, TypeOK
    <3> QED BY <1>1, <3>1, TablesGrow DEF AnswerInv
  <2>5. CASE ReadBid(c)
    <3>1. Reversing(c) /\ UNCHANGED <<bid, req>> /\ pc'[c] # "done"
      BY <2>5 DEF ReadBid, Goto, ControlInv, TypeOK, db
    <3>2. pc'[c] = "audit" => req[c].key \in DOMAIN bid /\ bid[req[c].key].reversed
      BY <2>5 DEF ReadBid, Goto, ControlInv, TypeOK
    <3> QED BY <1>1, <3>1, <3>2, TablesGrow
  <2>6. CASE ~(\/ AlreadySettled(c) \/ CommitSettlement(c) \/ CommitReversal(c)
               \/ RecordReversal(c) \/ ReadBid(c))
    <3>1. Step(c) \/ Crash(c) \/ DeadlockVictim(c)
      BY <1>3, OthersKeepPlace
    <3>2. pc'[c] \notin {"done", "audit"}
      BY <2>6, <3>1 DEF Step, PreloadProject, InsertProject, LockProject, FindIntent,
         InsertIntent, IntentConflict, TakeAdvisoryLock, BidConflict, ReadLeader,
         Crash, DeadlockVictim, Abort, Goto, ControlInv, TypeOK
    <3> QED BY <3>2
  <2> QED BY <2>1, <2>2, <2>3, <2>4, <2>5, <2>6
<1> QED BY <1>2, <1>3 DEF AnswerInv, AnswersAreTrue

\* Whoever answers success has done what was asked, or another call has, and
\* a refund is written down; whatever the requests and however often calls
\* crash or are cancelled.
THEOREM AnswersHold == Spec => []AnswersAreTrue
<1>1. Init => AnswerInv
  BY DEF Init, AnswerInv, AnswersAreTrue
<1>2. AnswerInv => AnswersAreTrue
  BY DEF AnswerInv
<1> QED BY <1>1, <1>2, NextKeepsAnswers, ControlCorrect, PTL DEF Spec

-----------------------------------------------------------------------------
(* Who waits for whom.                                                     *)

\* The call is about to add a row to the log, and another call has the row of
\* the leader that the new row's foreign key names.
WaitsForLeader(c) == pc[c] = "commit" /\ Takeover(c) /\ row[found[c].leader] \notin {c, None}

\* Wherever calls wait in a cycle, one of them waits for the leader's row: the
\* locks on projects, intents and the log alone are taken in an order.
CyclesMeetTheLog ==
  \A S \in SUBSET Calls :
    Cyclic(S) /\ S # {} => \E c \in S : WaitsForLeader(c)

\* A call that others wait for has locked its project.
LEMMA WaitedForHolds ==
  ASSUME ControlInv, NEW d \in Calls, NEW c \in WaitsFor(d)
  PROVE  HoldsRow(c)
<1>1. c \in Calls \ {d}
  BY DEF WaitsFor
<1>2. ASSUME AboutToLock(d), row[Target(d)] = c PROVE HoldsRow(c)
  BY <1>1, <1>2, TargetIsProject DEF ControlInv, LockDiscipline
<1>3. ASSUME req[d].key \in DOMAIN intent, intent[req[d].key].owner = c PROVE HoldsRow(c)
  BY <1>1, <1>3 DEF ControlInv, IntentOwnership, Posting, HoldsRow
<1>4. ASSUME advisory = c PROVE HoldsRow(c)
  BY <1>1, <1>4 DEF ControlInv, LockDiscipline, HoldsRow
<1>5. ASSUME Takeover(d), row[found[d].leader] = c PROVE HoldsRow(c)
  <2>1. found[d].leader \in Projects
    BY <1>5 DEF Takeover, ControlInv, TypeOK, Reading
  <2> QED BY <1>1, <1>5, <2>1 DEF ControlInv, LockDiscipline
<1> QED BY <1>2, <1>3, <1>4, <1>5 DEF WaitsFor

\* In every deployment the foreign key of leadership_log is what closes a cycle
\* of waits: without it no call would be the victim of a deadlock.
THEOREM OnlyTheLogDeadlocks == Spec => []CyclesMeetTheLog
<1>1. ASSUME ControlInv PROVE CyclesMeetTheLog
  <2> SUFFICES ASSUME NEW S \in SUBSET Calls, Cyclic(S), NEW x \in S,
                      \A c \in S : ~WaitsForLeader(c)
               PROVE  FALSE
    BY DEF CyclesMeetTheLog
  <2>1. \A c \in S : HoldsRow(c) /\ c \in Calls /\ c # None
    BY <1>1, WaitedForHolds, IdsAssumption DEF Cyclic
  <2>2. ASSUME NEW c \in S, NEW d \in S, d \in WaitsFor(c)
        PROVE  \/ pc[c] = "insert" /\ Posting(d)
               \/ pc[c] = "advisory" /\ pc[d] \in {"leader", "commit"}
    <3>1. ~AboutToLock(c)
      BY <2>1 DEF HoldsRow, AboutToLock
    <3>2. ~(pc[c] = "commit" /\ Takeover(c) /\ row[found[c].leader] = d)
      BY <2>1, <2>2 DEF WaitsForLeader, WaitsFor
    <3>3. intent[req[c].key].owner = d /\ req[c].key \in DOMAIN intent => Posting(d)
      BY <1>1, <2>1 DEF ControlInv, IntentOwnership
    <3>4. advisory = d => pc[d] \in {"leader", "commit"}
      BY <1>1, <2>1 DEF ControlInv, LockDiscipline
    <3> QED BY <2>2, <3>1, <3>2, <3>3, <3>4 DEF WaitsFor
  <2>3. \A c \in S : \E d \in S : d \in WaitsFor(c)
    BY DEF Cyclic
  <2>4. PICK y \in S : Posting(y)
    BY <2>2, <2>3 DEF Posting
  <2>5. PICK z \in S : pc[z] \in {"leader", "commit"}
    BY <2>2, <2>3, <2>4 DEF Posting
  <2> QED BY <2>2, <2>3, <2>5
<1> QED BY <1>1, ControlCorrect, PTL

-----------------------------------------------------------------------------
(* BidLedger implements Ledger: what a client can learn of the bids and    *)
(* the cached totals is a history of atomic settlements and reversals, in  *)
(* the deployments SafeWorkload describes.                                 *)

\* Ledger's operators on tables are the ones BidLedger uses.
LEMMA SameTables ==
  ASSUME NEW t, NEW p
  PROVE  /\ Promise!LedgerTotal(t, p) = LedgerTotal(t, p)
         /\ Promise!LedgerCount(t, p) = LedgerCount(t, p)
BY DEF Promise!LedgerTotal, LedgerTotal, Promise!LedgerCount, LedgerCount,
       Promise!Paise, Paise, Promise!Counted, Counted,
       Promise!Cardinality, Cardinality

\* The committed intents' amounts are asked ones.
LEMMA InitAsked == Init => AmountsAreAsked
BY DEF Init, AmountsAreAsked, AskedAmounts

\* The opening state of BidLedger is one of Ledger.
LEMMA InitRefines == Init => Promise!Init
BY SameTables DEF Init, Promise!Init

\* An inserted intent carries the amount of its call; other steps change no
\* amount.
LEMMA AskedAmountsOnly ==
  ASSUME ControlInv, MoneyInv, AmountsAreAsked, [Next]_vars
  PROVE  AmountsAreAsked'
<1>1. ASSUME NEW c \in Calls, Abort(c) PROVE AmountsAreAsked'
  <2>1. \A k \in DOMAIN intent' : k \in DOMAIN intent /\ intent'[k] = intent[k]
    BY <1>1 DEF Abort, Restrict
  <2> QED BY <2>1 DEF AmountsAreAsked
<1>2. ASSUME NEW c \in Calls, InsertIntent(c) PROVE AmountsAreAsked'
  <2> DEFINE k == req[c].key
             new == [amount |-> req[c].amount, verified |-> FALSE, owner |-> c]
  <2>1. intent' = Insert(intent, k, new) /\ k \notin DOMAIN intent
    BY <1>2 DEF InsertIntent
  <2>2. /\ DOMAIN intent' = DOMAIN intent \cup {k}
        /\ \A x \in DOMAIN intent : intent'[x] = intent[x]
        /\ intent'[k].amount = req[c].amount
    BY <2>1 DEF Insert
  <2>3. req[c].amount \in AskedAmounts
    BY DEF MoneyInv, AskedAmounts
  <2> QED BY <2>2, <2>3 DEF AmountsAreAsked
<1>3. ASSUME NEW c \in Calls, CommitSettlement(c) PROVE AmountsAreAsked'
  <2>1. /\ intent' = [intent EXCEPT ![req[c].key].verified = TRUE,
                                    ![req[c].key].owner = None]
        /\ intent \in [DOMAIN intent -> IntentRow]
    BY <1>3 DEF CommitSettlement, ControlInv, TypeOK
  <2>2. \A x \in DOMAIN intent' : x \in DOMAIN intent /\ intent'[x].amount = intent[x].amount
    BY <2>1 DEF IntentRow
  <2> QED BY <2>2 DEF AmountsAreAsked
<1>4. ASSUME UNCHANGED intent PROVE AmountsAreAsked'
  BY <1>4 DEF AmountsAreAsked
<1>5. ASSUME NEW c \in Calls, Step(c) PROVE AmountsAreAsked'
  BY <1>1, <1>2, <1>3, <1>4, <1>5
  DEF Step, PreloadProject, InsertProject, ReadBid, LockProject, AlreadySettled,
      FindIntent, IntentConflict, TakeAdvisoryLock, BidConflict, ReadLeader,
      CommitReversal, RecordReversal, db
<1> QED
  BY <1>1, <1>4, <1>5 DEF Next, Crash, DeadlockVictim, Moderate, vars, db

\* Every step is a step of Ledger or leaves its variables alone.
LEMMA StepRefines ==
  ASSUME SafeRequests, ControlInv, MoneyInv, AmountsAreAsked, [Next]_vars
  PROVE  [Promise!Next]_Promise!ledgerVars
<1>1. ASSUME NEW c \in Calls, CommitSettlement(c) PROVE Promise!Next
  <2> DEFINE k == req[c].key
             a == intent[k].amount
  <2>1. Promise!Settle(k, req[c].project, a)
    BY <1>1, CommitSettlementKeepsMoney
  <2>2. k \in Keys /\ req[c].project \in Projects
    BY DEF ControlInv, TypeOK, Request
  <2>3. k \in DOMAIN intent
    BY <1>1 DEF CommitSettlement, ControlInv, IntentOwnership, Posting
  <2>4. a \in AskedAmounts
    BY <2>3 DEF AmountsAreAsked
  <2> QED BY <2>1, <2>2, <2>4 DEF Promise!Next
<1>2. ASSUME NEW c \in Calls, CommitReversal(c) PROVE Promise!Next
  <2>1. Promise!Reverse(req[c].key)
    BY <1>2, CommitReversalKeepsMoney
  <2>2. req[c].key \in Keys
    BY DEF ControlInv, TypeOK, Request
  <2> QED BY <2>1, <2>2 DEF Promise!Next
<1>3. ASSUME NEW c \in Calls, Step(c)
      PROVE Promise!Next \/ UNCHANGED <<bid, total, count>>
  BY <1>1, <1>2, <1>3
  DEF Step, PreloadProject, InsertProject, ReadBid, LockProject, AlreadySettled,
      FindIntent, InsertIntent, IntentConflict, TakeAdvisoryLock, BidConflict,
      ReadLeader, RecordReversal, Abort, db
<1>4. Promise!Next \/ UNCHANGED <<bid, total, count>>
  BY <1>3 DEF Next, Crash, DeadlockVictim, Abort, Moderate, vars, db
<1> QED BY <1>4 DEF Promise!ledgerVars

\* With one refund per bid and no demo payments, the ledger that concurrent
\* calls, crashes and aborted transactions leave is the ledger of atomic
\* settlements and reversals.
THEOREM LedgerImplemented ==
  ASSUME SafeWorkload
  PROVE  Spec => ImplementsLedger
<1>1. Spec => []AmountsAreAsked
  <2>1. ASSUME ControlInv, MoneyInv, AmountsAreAsked, [Next]_vars
        PROVE  AmountsAreAsked'
    BY <2>1, AskedAmountsOnly
  <2> QED BY <2>1, InitAsked, ControlCorrect, CacheIsRight, PTL DEF Spec
<1>2. ASSUME SafeRequests, ControlInv, MoneyInv, AmountsAreAsked, [Next]_vars
      PROVE  [Promise!Next]_Promise!ledgerVars
  BY <1>2, StepRefines
<1> QED BY <1>1, <1>2, InitRefines, ControlCorrect, CacheIsRight, PTL
        DEF Spec, ImplementsLedger, Promise!Spec
=============================================================================
