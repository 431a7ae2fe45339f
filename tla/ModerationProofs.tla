--------------------------- MODULE ModerationProofs ---------------------------
(***************************************************************************)
(* Proofs about the back office, for any number of listings, claims,       *)
(* disputes, deletion requests, codes and calls at once: what keeps a RERA *)
(* number to one listing, when a logged decision is still the status, that *)
(* an erased account stays erased, whose session a code opens and how      *)
(* often, and where a developer's badge comes from.                        *)
(***************************************************************************)
EXTENDS Moderation, FiniteSetTheorems, TLAPS

\* Calls are about rows there are, rows have their columns, and a submission
\* under way is of a project nobody has committed.
Rows ==
  /\ DOMAIN work = Staff
  /\ DOMAIN projects \subseteq Projects /\ DOMAIN verdict = DOMAIN projects
  /\ \A p \in DOMAIN projects : projects[p] \in [status : Statuses, owner : Users \cup {Nobody}]
  /\ DOMAIN claims \subseteq Claims /\ \A k \in DOMAIN claims : claims[k] \in ClaimStatuses
  /\ \A s \in Staff :
       /\ Doing(s, "submit") => work[s].project \in Projects
       /\ Doing(s, "decide") => work[s].project \in DOMAIN projects /\ work[s].status \in Statuses
       /\ work[s].step \in {"owner", "approve", "reject"} => work[s].claim \in Claims

\* The opening tables have their rows.
LEMMA InitHasRows == Init => Rows
BY DEF Init, Rows, Idle, Doing

\* No step takes a row out of the tables or writes one of another form.
LEMMA NextKeepsRows == Rows /\ [Next]_vars => Rows'
<1> SUFFICES ASSUME Rows, [Next]_vars PROVE Rows'
  OBVIOUS
<1> USE DEF Rows, Doing, Busy, ClaimStatuses
<1>1. CASE (AccountsNext /\ UNCHANGED office) \/ UNCHANGED vars
  BY <1>1 DEF office, vars
<1>2. ASSUME NEW s \in Staff, NEW p \in Projects, InsertProject(s, p) PROVE Rows'
  BY <1>2 DEF InsertProject
<1>3. ASSUME NEW s \in Staff, NEW p, NEW status \in Statuses, NEW ds, LoadProject(s, p, status, ds)
      PROVE  Rows'
  BY <1>3 DEF LoadProject
<1>4. ASSUME NEW s \in Staff, CommitProject(s) PROVE Rows'
  BY <1>4 DEF CommitProject, Done, Idle, Insert, Statuses
<1>5. ASSUME NEW s \in Staff, Decide(s) PROVE Rows'
  BY <1>5 DEF Decide, Done, Idle
<1>6. ASSUME NEW s \in Staff, DecideFails(s) \/ RejectClaim(s) \/ FulfillRequest(s) \/ CallDies(s)
      PROVE  Rows'
  BY <1>6 DEF DecideFails, RejectClaim, SetClaim, FulfillRequest, CallDies, Done, Idle
<1>7. ASSUME NEW s \in Staff, ApproveClaim(s) PROVE Rows'
  BY <1>7, ModerationAssumption DEF ApproveClaim, SetClaim, Done, Idle
<1>8. ASSUME NEW s \in Staff, NEW k \in Claims, NEW step \in {"owner", "reject"}, LoadClaim(s, k, step)
      PROVE  Rows'
  BY <1>8 DEF LoadClaim
<1>9. ASSUME NEW s \in Staff, LoadOwner(s) \/ (\E r \in Requests : LoadRequest(s, r)) PROVE Rows'
  BY <1>9 DEF LoadOwner, LoadRequest
<1>10. ASSUME NEW s \in Staff, NEW d \in Disputes, ResolveDispute(s, d) PROVE Rows'
  BY <1>10 DEF ResolveDispute
<1>11. CASE \/ \E d \in Disputes : FileDispute(d)
            \/ \E k \in Claims : FileClaim(k)
            \/ \E r \in Requests : FileRequest(r)
  BY <1>11 DEF FileDispute, FileClaim, FileRequest, Insert
<1> QED
  BY <1>1, <1>2, <1>3, <1>4, <1>5, <1>6, <1>7, <1>8, <1>9, <1>10, <1>11
  DEF Next, StaffStep, ApproveProject, RejectProject, SuspendProject, ResolveSuspending, Statuses

-----------------------------------------------------------------------------
(* One listing per RERA number.                                             *)

\* Two submissions under way never are of one number, nor is one of them of a
\* number that is taken: the second INSERT waits for the first transaction.
OneNumberInv ==
  /\ OneListingPerNumber
  /\ \A s, t \in Staff :
       Doing(s, "submit") /\ Doing(t, "submit") /\ NumberOf[work[s].project] = NumberOf[work[t].project]
         => s = t
  /\ \A s \in Staff : Doing(s, "submit") => work[s].project \notin DOMAIN projects

\* Steps that list nothing: statuses stay or become "rejected", and calls that
\* were not submitting do not start to.
LEMMA NothingListed ==
  ASSUME Rows, OneNumberInv, DOMAIN projects' = DOMAIN projects,
         \A p \in DOMAIN projects : projects'[p].status \in {projects[p].status, "rejected"},
         \A s \in Staff : Doing(s, "submit")' => work'[s] = work[s]
  PROVE  OneNumberInv'
BY DEF Rows, OneNumberInv, OneListingPerNumber, Listed, NumberTaken, Doing

\* At the start nothing is listed.
LEMMA InitHasOneNumber == Init => OneNumberInv
BY DEF Init, OneNumberInv, OneListingPerNumber, Listed, NumberTaken, Doing, Idle

\* Every step, insertions and second approvals included, keeps OneNumberInv.
LEMMA NextKeepsOneNumber == Rows /\ OneNumberInv /\ [Next]_vars => OneNumberInv'
<1> SUFFICES ASSUME Rows, OneNumberInv, [Next]_vars PROVE OneNumberInv'
  OBVIOUS
<1> USE DEF Doing, Busy
<1>1. CASE (AccountsNext /\ UNCHANGED office) \/ UNCHANGED vars
  BY <1>1, NothingListed DEF office, vars
<1>2. ASSUME NEW s \in Staff, NEW p \in Projects, InsertProject(s, p) PROVE OneNumberInv'
  BY <1>2 DEF InsertProject, Rows, OneNumberInv, OneListingPerNumber, Listed, NumberTaken, NumberWaits
<1>3. ASSUME NEW s \in Staff, NEW p, NEW status \in Statuses, NEW ds, LoadProject(s, p, status, ds)
      PROVE  OneNumberInv'
  BY <1>3, NothingListed DEF LoadProject, Rows
<1>4. ASSUME NEW s \in Staff, CommitProject(s) PROVE OneNumberInv'
  BY <1>4 DEF CommitProject, Done, Idle, Insert, Rows, OneNumberInv, OneListingPerNumber, Listed, NumberTaken
<1>5. ASSUME NEW s \in Staff, Decide(s) PROVE OneNumberInv'
  BY <1>5 DEF Decide, EntersIndex, Changed, Done, Idle, Rows, OneNumberInv, OneListingPerNumber,
              Listed, NumberTaken, NumberWaits
<1>6. ASSUME NEW s \in Staff, DecideFails(s) \/ RejectClaim(s) \/ FulfillRequest(s) \/ CallDies(s)
      PROVE  OneNumberInv'
  BY <1>6, NothingListed DEF DecideFails, RejectClaim, SetClaim, FulfillRequest, CallDies, Done, Idle, Rows
<1>7. ASSUME NEW s \in Staff, ApproveClaim(s) PROVE OneNumberInv'
  BY <1>7, NothingListed DEF ApproveClaim, SetClaim, Done, Idle, Rows
<1>8. ASSUME NEW s \in Staff, NEW k \in Claims, NEW step \in {"owner", "reject"}, LoadClaim(s, k, step)
      PROVE  OneNumberInv'
  BY <1>8, NothingListed DEF LoadClaim, Rows
<1>9. ASSUME NEW s \in Staff, LoadOwner(s) \/ (\E r \in Requests : LoadRequest(s, r)) PROVE OneNumberInv'
  BY <1>9, NothingListed DEF LoadOwner, LoadRequest, Rows
<1>10. ASSUME NEW s \in Staff, NEW d \in Disputes, ResolveDispute(s, d) PROVE OneNumberInv'
  BY <1>10, NothingListed DEF ResolveDispute
<1>11. CASE \/ \E d \in Disputes : FileDispute(d)
            \/ \E k \in Claims : FileClaim(k)
            \/ \E r \in Requests : FileRequest(r)
  BY <1>11, NothingListed DEF FileDispute, FileClaim, FileRequest
<1> QED
  BY <1>1, <1>2, <1>3, <1>4, <1>5, <1>6, <1>7, <1>8, <1>9, <1>10, <1>11
  DEF Next, StaffStep, ApproveProject, RejectProject, SuspendProject, ResolveSuspending, Statuses

\* However many listings are submitted, rejected and approved again at once, a
\* RERA number has one listing that is not rejected.
THEOREM NumbersStayUnique == Spec => []OneListingPerNumber
<1>1. Rows /\ OneNumberInv => OneListingPerNumber
  BY DEF OneNumberInv
<1> QED BY <1>1, InitHasRows, InitHasOneNumber, NextKeepsRows, NextKeepsOneNumber, PTL DEF Spec

-----------------------------------------------------------------------------
(* Logged decisions.                                                        *)

\* Two calls that decide on one project know of each other, and one that has
\* met no other still has the status right: its UPDATE leaves out the column
\* only if the column has the value already.
DecisionInv ==
  /\ DecisionsStand
  /\ \A s, t \in Staff :
       s # t /\ Doing(s, "decide") /\ Doing(t, "decide") /\ work[s].project = work[t].project
         => s \in crossed
  /\ \A s \in Staff :
       Doing(s, "decide") /\ s \notin crossed => projects[work[s].project].status = work[s].was

\* Steps that decide nothing: no status and no verdict changes, and a call that
\* is deciding after the step was before, and has met whom it had met.
LEMMA NothingDecided ==
  ASSUME Rows, DecisionInv, DOMAIN projects' = DOMAIN projects, verdict' = verdict,
         \A p \in DOMAIN projects : projects'[p].status = projects[p].status,
         \A s \in Staff : Doing(s, "decide")' => work'[s] = work[s] /\ (s \in crossed' <=> s \in crossed)
  PROVE  DecisionInv'
BY DEF Rows, DecisionInv, DecisionsStand, Doing

\* Before any decision there is none to be lost.
LEMMA InitHasDecisions == Init => DecisionInv
BY DEF Init, DecisionInv, DecisionsStand, Doing, Idle

\* Every step keeps DecisionInv.
LEMMA NextKeepsDecisions == Rows /\ DecisionInv /\ [Next]_vars => DecisionInv'
<1> SUFFICES ASSUME Rows, DecisionInv, [Next]_vars PROVE DecisionInv'
  OBVIOUS
<1> USE DEF Doing, Busy
<1>1. CASE (AccountsNext /\ UNCHANGED office) \/ UNCHANGED vars
  BY <1>1, NothingDecided DEF office, vars
<1>2. ASSUME NEW s \in Staff, NEW p \in Projects, InsertProject(s, p) PROVE DecisionInv'
  BY <1>2, NothingDecided DEF InsertProject, Rows
<1>3. ASSUME NEW s \in Staff, NEW p, NEW status \in Statuses, NEW ds, LoadProject(s, p, status, ds)
      PROVE  DecisionInv'
  BY <1>3 DEF LoadProject, Deciding, Rows, DecisionInv, DecisionsStand
<1>4. ASSUME NEW s \in Staff, CommitProject(s) PROVE DecisionInv'
  BY <1>4 DEF CommitProject, Done, Idle, Insert, Rows, DecisionInv, DecisionsStand
<1>5. ASSUME NEW s \in Staff, Decide(s) PROVE DecisionInv'
  BY <1>5 DEF Decide, Changed, Done, Idle, Rows, DecisionInv, DecisionsStand
<1>6. ASSUME NEW s \in Staff, DecideFails(s) \/ RejectClaim(s) \/ FulfillRequest(s) \/ CallDies(s)
      PROVE  DecisionInv'
  BY <1>6, NothingDecided DEF DecideFails, RejectClaim, SetClaim, FulfillRequest, CallDies, Done, Idle, Rows
<1>7. ASSUME NEW s \in Staff, ApproveClaim(s) PROVE DecisionInv'
  BY <1>7, NothingDecided DEF ApproveClaim, SetClaim, Done, Idle, Rows
<1>8. ASSUME NEW s \in Staff, NEW k \in Claims, NEW step \in {"owner", "reject"}, LoadClaim(s, k, step)
      PROVE  DecisionInv'
  BY <1>8, NothingDecided DEF LoadClaim, Rows
<1>9. ASSUME NEW s \in Staff, LoadOwner(s) \/ (\E r \in Requests : LoadRequest(s, r)) PROVE DecisionInv'
  BY <1>9, NothingDecided DEF LoadOwner, LoadRequest, Rows
<1>10. ASSUME NEW s \in Staff, NEW d \in Disputes, ResolveDispute(s, d) PROVE DecisionInv'
  BY <1>10, NothingDecided DEF ResolveDispute
<1>11. CASE \/ \E d \in Disputes : FileDispute(d)
            \/ \E k \in Claims : FileClaim(k)
            \/ \E r \in Requests : FileRequest(r)
  BY <1>11, NothingDecided DEF FileDispute, FileClaim, FileRequest
<1> QED
  BY <1>1, <1>2, <1>3, <1>4, <1>5, <1>6, <1>7, <1>8, <1>9, <1>10, <1>11
  DEF Next, StaffStep, ApproveProject, RejectProject, SuspendProject, ResolveSuspending, Statuses

\* Whatever admins decide at once on whatever projects, a logged decision that
\* met no other on its project is the project's status until the next one.
THEOREM DecisionsAreKept == Spec => []DecisionsStand
<1>1. Rows /\ DecisionInv => DecisionsStand
  BY DEF DecisionInv
<1> QED BY <1>1, InitHasRows, InitHasDecisions, NextKeepsRows, NextKeepsDecisions, PTL DEF Spec

-----------------------------------------------------------------------------
(* Types, and erased accounts.                                              *)

\* AccountsOK, with what the verifications hold in memory: a reading of the
\* attempts from below the limit, an account.
AccountsInv ==
  /\ AccountsOK
  /\ DOMAIN verify = Verifiers
  /\ \A v \in Verifiers :
       /\ verify[v].step = "count" => verify[v].seen \in 0 .. MaxAttempts - 1
       /\ verify[v].step = "open" => verify[v].user \in Users

\* The opening accounts and codes have their types.
LEMMA InitHasAccounts == AccountsInit => AccountsInv
BY DEF AccountsInit, AccountsInv, AccountsOK, Code, Working, Idle, Account, NewAccount

\* A statement of a verification keeps the types of accounts and codes.
LEMMA VerifyStepKeepsAccounts ==
  ASSUME AccountsInv, NEW v \in Verifiers, VerifyStep(v)
  PROVE  AccountsInv'
<1> USE AccountsAssumption DEF AccountsInv, AccountsOK, Code, Working, CodeOf, ContactOf, Idle, End
<1>1. ASSUME NEW c \in Codes, NEW right \in BOOLEAN, Load(v, c, right) PROVE AccountsInv'
  BY <1>1 DEF Load, Begin, Usable
<1>2. CASE CountGuess(v)
  BY <1>2 DEF CountGuess
<1>3. CASE FindAccount(v)
  <2>1. ASSUME Holders(ContactOf(v)) # {}
        PROVE  (CHOOSE u \in Holders(ContactOf(v)) : TRUE) \in Users
    BY <2>1 DEF Holders
  <2> QED BY <1>3, <2>1 DEF FindAccount
<1>4. ASSUME NEW u \in Users, InsertAccount(v, u) PROVE AccountsInv'
  BY <1>4 DEF InsertAccount
<1>5. CASE InsertFails(v) \/ Die(v)
  BY <1>5 DEF InsertFails, Die
<1>6. CASE OpenSession(v)
  <2>1. DOMAIN users' \subseteq Users /\ \A u \in DOMAIN users' : users'[u] \in Account
    BY <1>6 DEF OpenSession, Saved, Insert, Account, NewAccount
  <2> QED BY <1>6, <2>1 DEF OpenSession
<1> QED BY <1>1, <1>2, <1>3, <1>4, <1>5, <1>6 DEF VerifyStep

\* So does every step of Accounts.
LEMMA AccountsNextKeepsAccounts == AccountsInv /\ AccountsNext => AccountsInv'
<1> SUFFICES ASSUME AccountsInv, AccountsNext PROVE AccountsInv'
  OBVIOUS
<1>1. ASSUME NEW c \in Codes, NEW x \in Contacts, RequestOtp(c, x) PROVE AccountsInv'
  BY <1>1, AccountsAssumption DEF RequestOtp, Insert, AccountsInv, AccountsOK, Code, Working, CodeOf
<1>2. ASSUME NEW c \in Codes, Expire(c) PROVE AccountsInv'
  BY <1>2 DEF Expire, AccountsInv, AccountsOK, Code, Working, CodeOf
<1> QED BY <1>1, <1>2, VerifyStepKeepsAccounts DEF AccountsNext

\* Of the office, approving a claim and fulfilling a request write accounts.
LEMMA OfficeKeepsAccounts ==
  ASSUME AccountsInv, Rows, [Next]_vars, ~(AccountsNext /\ UNCHANGED office)
  PROVE  AccountsInv'
<1>1. ASSUME UNCHANGED accounts PROVE AccountsInv'
  BY <1>1 DEF accounts, AccountsInv, AccountsOK, Code, Working, CodeOf
<1>2. ASSUME NEW s \in Staff, ApproveClaim(s) \/ FulfillRequest(s) PROVE AccountsInv'
  BY <1>2 DEF ApproveClaim, SetClaim, FulfillRequest, AccountsInv, AccountsOK, Code, Account, Working, CodeOf
<1>3. ASSUME NEW s \in Staff, RejectClaim(s) PROVE AccountsInv'
  BY <1>1, <1>3 DEF RejectClaim, SetClaim, accounts
<1>4. ASSUME NEW s \in Staff, StaffStep(s) PROVE AccountsInv'
  BY <1>1, <1>2, <1>3, <1>4
  DEF StaffStep, InsertProject, ApproveProject, RejectProject, SuspendProject, ResolveSuspending,
      LoadProject, ResolveDispute, LoadClaim, LoadRequest, CommitProject, Decide, DecideFails,
      LoadOwner, CallDies
<1> QED BY <1>1, <1>4 DEF Next, FileDispute, FileClaim, FileRequest, vars

\* Requests are of accounts there are, and a call that erases has one.
RequestRows ==
  /\ DOMAIN disputes \subseteq Disputes /\ \A d \in DOMAIN disputes : disputes[d] \in DisputeStatuses
  /\ DOMAIN requests \subseteq Requests /\ \A r \in DOMAIN requests : requests[r] \in RequestStatuses
  /\ \A r \in DOMAIN requests : Subject[r] \in DOMAIN users
  /\ \A s \in Staff : Doing(s, "erase") => work[s].request \in DOMAIN requests

\* What a step must leave alone for an erased account to stay as it is.
KeepsAccounts ==
  /\ DOMAIN users \subseteq DOMAIN users'
  /\ \A u \in DOMAIN users : users'[u].erased = users[u].erased /\ users'[u].contact = users[u].contact

\* Logins and claims write other columns.
LEMMA LoginsAndClaimsKeep ==
  ASSUME AccountsInv, AccountsNext \/ \E s \in Staff : ApproveClaim(s)
  PROVE  KeepsAccounts
<1>1. \A u \in DOMAIN users : users[u] \in Account
  BY DEF AccountsInv, AccountsOK
<1>2. ASSUME NEW v \in Verifiers, OpenSession(v) PROVE KeepsAccounts
  BY <1>1, <1>2 DEF OpenSession, Saved, Insert, KeepsAccounts, Account
<1>3. ASSUME NEW s \in Staff, ApproveClaim(s) PROVE KeepsAccounts
  BY <1>1, <1>3 DEF ApproveClaim, KeepsAccounts, Account
<1>4. ASSUME users' = users PROVE KeepsAccounts
  BY <1>4 DEF KeepsAccounts
<1> QED
  BY <1>2, <1>3, <1>4 DEF AccountsNext, RequestOtp, Expire, VerifyStep, Load, CountGuess,
     FindAccount, InsertAccount, InsertFails, Die

\* At the start nobody has been erased.
LEMMA InitHasRequests == Init => RequestRows /\ ErasureIsFinal
BY DEF Init, RequestRows, ErasureIsFinal, Doing, Idle

\* No step gives an erased account its contact back.
LEMMA NextKeepsErasure ==
  AccountsInv /\ Rows /\ RequestRows /\ ErasureIsFinal /\ [Next]_vars => (RequestRows /\ ErasureIsFinal)'
<1> SUFFICES ASSUME AccountsInv, Rows, RequestRows, ErasureIsFinal, [Next]_vars
             PROVE  (RequestRows /\ ErasureIsFinal)'
  OBVIOUS
<1> USE DEF RequestRows, ErasureIsFinal, Doing, Busy, DisputeStatuses, RequestStatuses
\* Accounts keep what matters, no request is fulfilled, and no call starts.
<1>quiet. ASSUME KeepsAccounts, disputes' = disputes, requests' = requests,
             \A s \in Staff : Doing(s, "erase")' => work'[s] = work[s]
      PROVE  (RequestRows /\ ErasureIsFinal)'
  BY <1>quiet DEF KeepsAccounts
<1>same. users' = users => KeepsAccounts
  BY DEF KeepsAccounts
<1>1. CASE AccountsNext /\ UNCHANGED office
  BY <1>1, <1>quiet, LoginsAndClaimsKeep DEF office
<1>2. CASE UNCHANGED vars
  BY <1>2, <1>quiet, <1>same DEF vars, office, accounts
<1>3. ASSUME NEW s \in Staff, NEW p \in Projects, InsertProject(s, p)
      PROVE  (RequestRows /\ ErasureIsFinal)'
  BY <1>3, <1>quiet, <1>same DEF InsertProject, Rows, accounts
<1>4. ASSUME NEW s \in Staff, NEW p, NEW status, NEW ds, LoadProject(s, p, status, ds)
      PROVE  (RequestRows /\ ErasureIsFinal)'
  BY <1>4, <1>quiet, <1>same DEF LoadProject, Rows, accounts
<1>5. ASSUME NEW s \in Staff, CommitProject(s) \/ DecideFails(s) \/ RejectClaim(s) \/ CallDies(s)
      PROVE  (RequestRows /\ ErasureIsFinal)'
  BY <1>5, <1>quiet, <1>same DEF CommitProject, DecideFails, RejectClaim, SetClaim, CallDies, Done, Idle,
                           Rows, accounts
<1>6. ASSUME NEW s \in Staff, Decide(s) PROVE (RequestRows /\ ErasureIsFinal)'
  BY <1>6 DEF Decide, Resolved, Done, Idle, Rows, accounts
<1>7. ASSUME NEW s \in Staff, ApproveClaim(s) PROVE (RequestRows /\ ErasureIsFinal)'
  BY <1>7, <1>quiet, LoginsAndClaimsKeep DEF ApproveClaim, SetClaim, Done, Idle, Rows
<1>8. ASSUME NEW s \in Staff, NEW k \in Claims, NEW step \in {"owner", "reject"}, LoadClaim(s, k, step)
      PROVE  (RequestRows /\ ErasureIsFinal)'
  BY <1>8, <1>quiet, <1>same DEF LoadClaim, Rows, accounts
<1>9. ASSUME NEW s \in Staff, LoadOwner(s) \/ (\E r \in Requests : LoadRequest(s, r))
      PROVE  (RequestRows /\ ErasureIsFinal)'
  BY <1>9 DEF LoadOwner, LoadRequest, Rows, accounts
<1>10. ASSUME NEW s \in Staff, FulfillRequest(s) PROVE (RequestRows /\ ErasureIsFinal)'
  BY <1>10 DEF FulfillRequest, Done, Idle, Rows, AccountsInv, AccountsOK, Code, Account
<1>11. ASSUME NEW s \in Staff, NEW d \in Disputes, ResolveDispute(s, d)
       PROVE  (RequestRows /\ ErasureIsFinal)'
  BY <1>11 DEF ResolveDispute, Resolved, accounts
<1>12. CASE \E d \in Disputes : FileDispute(d)
  BY <1>12 DEF FileDispute, Insert, accounts
<1>13. CASE \E k \in Claims : FileClaim(k)
  BY <1>13, <1>quiet, <1>same DEF FileClaim, accounts
<1>14. CASE \E r \in Requests : FileRequest(r)
  BY <1>14 DEF FileRequest, Insert, accounts
<1> QED
  BY <1>1, <1>2, <1>3, <1>4, <1>5, <1>6, <1>7, <1>8, <1>9, <1>10, <1>11, <1>12, <1>13, <1>14
  DEF Next, StaffStep, ApproveProject, RejectProject, SuspendProject, ResolveSuspending

\* The tables have rows of their types, calls are about rows there are, and no
\* code counts more wrong guesses than it allows.
THEOREM TypesHold == Spec => []TypeOK
<1>1. Init => AccountsInv
  BY InitHasAccounts DEF Init
<1>2. AccountsInv /\ Rows /\ [Next]_vars => AccountsInv'
  BY AccountsNextKeepsAccounts, OfficeKeepsAccounts
<1>3. AccountsInv /\ Rows /\ RequestRows => TypeOK
  BY DEF AccountsInv, Rows, RequestRows, TypeOK
<1> QED
  BY <1>1, <1>2, <1>3, InitHasRows, InitHasRequests, NextKeepsRows, NextKeepsErasure, PTL DEF Spec

\* Nothing that logins, claims or the office have under way gives an account
\* its contact back once its deletion was fulfilled.
THEOREM ErasureHolds == Spec => []ErasureIsFinal
<1>1. Init => AccountsInv
  BY InitHasAccounts DEF Init
<1>2. AccountsInv /\ Rows /\ [Next]_vars => AccountsInv'
  BY AccountsNextKeepsAccounts, OfficeKeepsAccounts
<1> QED
  BY <1>1, <1>2, InitHasRows, InitHasRequests, NextKeepsRows, NextKeepsErasure, PTL DEF Spec

-----------------------------------------------------------------------------
(* Contacts, codes and the sessions they open.                              *)

\* The office leaves verifications alone, takes contacts away only from the
\* accounts it erases, and no role from anybody.
LEMMA OfficeSteps ==
  ASSUME AccountsInv, [Next]_vars, ~(AccountsNext /\ UNCHANGED office)
  PROVE  /\ UNCHANGED <<codes, verify, shared, guessed, opened>>
         /\ DOMAIN users' = DOMAIN users
         /\ \A u \in DOMAIN users :
              /\ users'[u].contact \in {users[u].contact, NoContact}
              /\ users'[u].contact = users[u].contact \/ users'[u].erased
              /\ users[u].erased => users'[u].erased
<1> DEFINE Goal == /\ UNCHANGED <<codes, verify, shared, guessed, opened>>
                   /\ DOMAIN users' = DOMAIN users
                   /\ \A u \in DOMAIN users :
                        /\ users'[u].contact \in {users[u].contact, NoContact}
                        /\ users'[u].contact = users[u].contact \/ users'[u].erased
                        /\ users[u].erased => users'[u].erased
<1>0. \A u \in DOMAIN users : users[u] \in Account
  BY DEF AccountsInv, AccountsOK
<1>1. ASSUME UNCHANGED accounts PROVE Goal
  BY <1>1 DEF accounts
<1>2. ASSUME NEW s \in Staff, ApproveClaim(s) PROVE Goal
  BY <1>0, <1>2 DEF ApproveClaim, SetClaim, Account
<1>3. ASSUME NEW s \in Staff, FulfillRequest(s) PROVE Goal
  BY <1>0, <1>3 DEF FulfillRequest, Account
<1>4. ASSUME NEW s \in Staff, RejectClaim(s) PROVE UNCHANGED accounts
  BY <1>4 DEF RejectClaim, SetClaim, accounts
<1>5. ASSUME NEW s \in Staff, StaffStep(s) PROVE Goal
  <2> HIDE DEF Goal
  <2> QED BY <1>1, <1>2, <1>3, <1>4, <1>5
    DEF StaffStep, InsertProject, ApproveProject, RejectProject, SuspendProject, ResolveSuspending,
        LoadProject, ResolveDispute, LoadClaim, LoadRequest, CommitProject, Decide, DecideFails,
        LoadOwner, CallDies
<1> HIDE DEF Goal
<1>6. Goal
  BY <1>1, <1>5 DEF Next, FileDispute, FileClaim, FileRequest, vars
<1> QED BY <1>6 DEF Goal

\* No two rows, committed or inserted, have one contact; an inserted row's id
\* is nobody else's, and an account that was found is still there.
ContactsInv ==
  /\ \A u, w \in DOMAIN users :
       users[u].contact = users[w].contact /\ users[u].contact \in Contacts => u = w
  /\ \A v, w \in Inserting : ContactOf(v) = ContactOf(w) \/ verify[v].user = verify[w].user => v = w
  /\ \A v \in Inserting : Holders(ContactOf(v)) = {} /\ verify[v].user \notin DOMAIN users
  /\ \A v \in Verifiers :
       verify[v].step = "open" /\ ~verify[v].new => verify[v].user \in DOMAIN users
  /\ \A v \in Verifiers : Working(v) => ContactOf(v) \in Contacts

\* The seeded accounts have contacts of their own.
LEMMA InitHasContacts == Init => ContactsInv
BY DEF Init, AccountsInit, ContactsInv, Inserting, Idle, Working, IsInjective, NewAccount

\* Every step keeps ContactsInv, insertions that are not committed included.
LEMMA NextKeepsContacts == AccountsInv /\ ContactsInv /\ [Next]_vars => ContactsInv'
<1> SUFFICES ASSUME AccountsInv, ContactsInv, [Next]_vars PROVE ContactsInv'
  OBVIOUS
<1>0. /\ DOMAIN verify = Verifiers
      /\ \A c \in DOMAIN codes : codes[c].contact \in Contacts
      /\ \A v \in Verifiers : Working(v) => CodeOf(v) \in DOMAIN codes
      /\ \A u \in DOMAIN users : users[u] \in Account
  BY DEF AccountsInv, AccountsOK, Code
<1> USE DEF ContactsInv, Inserting, Working, CodeOf, ContactOf, Holders
<1>1. CASE ~(AccountsNext /\ UNCHANGED office)
  BY <1>0, <1>1, OfficeSteps, AccountsAssumption
<1>2. ASSUME NEW c \in Codes, NEW x \in Contacts, RequestOtp(c, x) PROVE ContactsInv'
  <2>1. /\ \A k \in DOMAIN codes : k \in DOMAIN codes' /\ codes'[k] = codes[k]
        /\ UNCHANGED <<users, verify>>
    BY <1>2 DEF RequestOtp, Insert
  <2> QED BY <1>0, <2>1
<1>3. ASSUME NEW c \in Codes, Expire(c) PROVE ContactsInv'
  <2>1. /\ \A k \in DOMAIN codes : k \in DOMAIN codes' /\ codes'[k].contact = codes[k].contact
        /\ UNCHANGED <<users, verify>>
    BY <1>3 DEF Expire, AccountsInv, AccountsOK, Code
  <2> QED BY <1>0, <2>1
<1>4. ASSUME NEW v \in Verifiers, NEW c \in Codes, NEW right \in BOOLEAN, Load(v, c, right)
      PROVE  ContactsInv'
  BY <1>0, <1>4 DEF Load, Begin
<1>5. ASSUME NEW v \in Verifiers, CountGuess(v) PROVE ContactsInv'
  <2>1. /\ \A k \in DOMAIN codes : k \in DOMAIN codes' /\ codes'[k].contact = codes[k].contact
        /\ users' = users /\ verify' = [verify EXCEPT ![v] = Idle]
    BY <1>5 DEF CountGuess, End, AccountsInv, AccountsOK, Code
  <2> QED BY <1>0, <2>1 DEF Idle
<1>6. ASSUME NEW v \in Verifiers, FindAccount(v) PROVE ContactsInv'
  <2>1. Holders(ContactOf(v)) # {}
          => (CHOOSE u \in Holders(ContactOf(v)) : TRUE) \in DOMAIN users
    OBVIOUS
  <2> QED BY <1>0, <1>6, <2>1 DEF FindAccount
<1>7. ASSUME NEW v \in Verifiers, NEW u \in Users, InsertAccount(v, u) PROVE ContactsInv'
  BY <1>0, <1>7 DEF InsertAccount, InsertWaits
<1>8. ASSUME NEW v \in Verifiers, InsertFails(v) \/ Die(v) PROVE ContactsInv'
  BY <1>0, <1>8 DEF InsertFails, Die, End, Idle
<1>9. ASSUME NEW v \in Verifiers, OpenSession(v) PROVE ContactsInv'
  <2>1. /\ \A k \in DOMAIN codes : k \in DOMAIN codes' /\ codes'[k].contact = codes[k].contact
        /\ verify[v].step = "open" /\ verify' = [verify EXCEPT ![v] = Idle]
        /\ users' = Saved(v)
    BY <1>9 DEF OpenSession, End, AccountsInv, AccountsOK, Code
  <2>2. CASE verify[v].new
    <3>1. /\ DOMAIN users' = DOMAIN users \cup {verify[v].user} /\ verify[v].user \notin DOMAIN users
          /\ users'[verify[v].user].contact = ContactOf(v)
          /\ \A u \in DOMAIN users : users'[u].contact = users[u].contact
      BY <2>1, <2>2 DEF Saved, Insert, NewAccount
    <3> QED BY <1>0, <2>1, <2>2, <3>1 DEF Idle
  <2>3. CASE ~verify[v].new
    <3>1. /\ DOMAIN users' = DOMAIN users
          /\ \A u \in DOMAIN users : users'[u].contact = users[u].contact
      BY <1>0, <2>1, <2>3 DEF Saved, Account
    <3> QED BY <1>0, <2>1, <2>3, <3>1 DEF Idle
  <2> QED BY <2>2, <2>3
<1> QED BY <1>1, <1>2, <1>3, <1>4, <1>5, <1>6, <1>7, <1>8, <1>9 DEF AccountsNext, VerifyStep

\* No two accounts have one contact, nor are two inserted for one.
THEOREM ContactsStayUnique == Spec => []ContactsAreUnique
<1>1. Init => AccountsInv
  BY InitHasAccounts DEF Init
<1>2. AccountsInv /\ Rows /\ [Next]_vars => AccountsInv'
  BY AccountsNextKeepsAccounts, OfficeKeepsAccounts
<1>3. ContactsInv => ContactsAreUnique
  <2> SUFFICES ASSUME ContactsInv, NEW x \in Contacts PROVE Cardinality(Holders(x)) <= 1
    BY DEF ContactsInv, ContactsAreUnique
  <2>1. CASE Holders(x) = {}
    BY <2>1, FS_EmptySet
  <2>2. CASE Holders(x) # {}
    <3>1. PICK u \in Holders(x) : TRUE
      BY <2>2
    <3>2. Holders(x) = {u}
      BY <3>1 DEF ContactsInv, Holders
    <3>3. Cardinality({u}) = 1
      BY FS_Singleton
    <3> QED BY <3>2, <3>3
  <2> QED BY <2>1, <2>2
<1> QED
  BY <1>1, <1>2, <1>3, InitHasRows, InitHasContacts, NextKeepsRows, NextKeepsContacts, PTL DEF Spec

\* A session's account is the one of its code's contact, or was erased since,
\* and so is the account that a verification has found.
SessionsInv ==
  /\ SessionsFitTheCode
  /\ DOMAIN opened = Codes
  /\ \A c \in Codes : opened[c] # {} => c \in DOMAIN codes
  /\ \A c \in Codes : \A o \in opened[c] : o.user \in DOMAIN users

\* At the start no verification has found an account.
LEMMA InitHasSessions == Init => SessionsInv
<1> SUFFICES ASSUME Init PROVE SessionsInv
  OBVIOUS
<1>1. \A v \in Verifiers : verify[v].step # "open"
  BY DEF Init, AccountsInit, Idle
<1>2. DOMAIN opened = Codes /\ \A c \in Codes : opened[c] = {}
  BY DEF Init, AccountsInit
<1> QED BY <1>1, <1>2 DEF SessionsInv, SessionsFitTheCode

\* Every step keeps SessionsInv.
LEMMA NextKeepsSessions ==
  AccountsInv /\ ContactsInv /\ SessionsInv /\ [Next]_vars => SessionsInv'
<1> SUFFICES ASSUME AccountsInv, ContactsInv, SessionsInv, [Next]_vars PROVE SessionsInv'
  OBVIOUS
<1>0. /\ DOMAIN verify = Verifiers /\ DOMAIN codes \subseteq Codes
      /\ \A v \in Verifiers : Working(v) => CodeOf(v) \in DOMAIN codes
      /\ \A u \in DOMAIN users : users[u] \in Account
      /\ \A v \in Verifiers :
           verify[v].step = "open" /\ ~verify[v].new => verify[v].user \in DOMAIN users
      /\ \A v \in Verifiers :
           verify[v].step = "open" /\ verify[v].new => verify[v].user \notin DOMAIN users
  BY DEF AccountsInv, AccountsOK, ContactsInv, Inserting
<1> USE DEF SessionsInv, SessionsFitTheCode, Working, CodeOf, ContactOf
<1>1. CASE ~(AccountsNext /\ UNCHANGED office)
  BY <1>0, <1>1, OfficeSteps
<1>2. ASSUME NEW c \in Codes, NEW x \in Contacts, RequestOtp(c, x) PROVE SessionsInv'
  <2>1. /\ \A k \in DOMAIN codes : k \in DOMAIN codes' /\ codes'[k] = codes[k]
        /\ UNCHANGED <<users, verify, opened>>
    BY <1>2 DEF RequestOtp, Insert
  <2> QED BY <1>0, <2>1
<1>3. ASSUME NEW c \in Codes, Expire(c) PROVE SessionsInv'
  <2>1. /\ \A k \in DOMAIN codes : k \in DOMAIN codes' /\ codes'[k].contact = codes[k].contact
        /\ UNCHANGED <<users, verify, opened>>
    BY <1>3 DEF Expire, AccountsInv, AccountsOK, Code
  <2> QED BY <1>0, <2>1
<1>4. ASSUME NEW v \in Verifiers, NEW c \in Codes, NEW right \in BOOLEAN, Load(v, c, right)
      PROVE  SessionsInv'
  BY <1>0, <1>4 DEF Load, Begin
<1>5. ASSUME NEW v \in Verifiers, CountGuess(v) PROVE SessionsInv'
  <2>1. /\ \A k \in DOMAIN codes : k \in DOMAIN codes' /\ codes'[k].contact = codes[k].contact
        /\ UNCHANGED <<users, opened>> /\ verify' = [verify EXCEPT ![v] = Idle]
    BY <1>5 DEF CountGuess, End, AccountsInv, AccountsOK, Code
  <2> QED BY <1>0, <2>1 DEF Idle
<1>6. ASSUME NEW v \in Verifiers, FindAccount(v) PROVE SessionsInv'
  <2>1. Holders(ContactOf(v)) # {}
          => users[CHOOSE u \in Holders(ContactOf(v)) : TRUE].contact = ContactOf(v)
    BY DEF Holders
  <2> QED BY <1>0, <1>6, <2>1 DEF FindAccount
<1>7. ASSUME NEW v \in Verifiers, NEW u \in Users, InsertAccount(v, u) PROVE SessionsInv'
  BY <1>0, <1>7 DEF InsertAccount
<1>8. ASSUME NEW v \in Verifiers, InsertFails(v) \/ Die(v) PROVE SessionsInv'
  BY <1>0, <1>8 DEF InsertFails, Die, End, Idle
<1>9. ASSUME NEW v \in Verifiers, OpenSession(v) PROVE SessionsInv'
  <2>1. /\ \A k \in DOMAIN codes : k \in DOMAIN codes' /\ codes'[k].contact = codes[k].contact
        /\ verify[v].step = "open" /\ verify' = [verify EXCEPT ![v] = Idle]
        /\ users' = Saved(v)
        /\ DOMAIN opened' = Codes
        /\ \A c \in Codes \ {CodeOf(v)} : opened'[c] = opened[c]
        /\ \A o \in opened'[CodeOf(v)] : o \in opened[CodeOf(v)] \/ o.user = verify[v].user
    BY <1>0, <1>9 DEF OpenSession, End, AccountsInv, AccountsOK, Code
  <2>2. /\ \A u \in DOMAIN users : /\ u \in DOMAIN users'
                                   /\ users'[u].contact = users[u].contact
                                   /\ users'[u].erased = users[u].erased
        /\ verify[v].user \in DOMAIN users'
        /\ \/ users'[verify[v].user].contact = ContactOf(v)
           \/ users'[verify[v].user].erased
    <3>1. CASE verify[v].new
      BY <1>0, <2>1, <3>1 DEF Saved, Insert, NewAccount
    <3>2. CASE ~verify[v].new
      BY <1>0, <2>1, <3>2 DEF Saved, Account
    <3> QED BY <3>1, <3>2
  <2> QED BY <1>0, <2>1, <2>2 DEF Idle
<1> QED BY <1>1, <1>2, <1>3, <1>4, <1>5, <1>6, <1>7, <1>8, <1>9 DEF AccountsNext, VerifyStep

\* A code opens sessions of the account of its own contact, or of one that was
\* erased after it was found.
THEOREM SessionsAreTheirOwners == Spec => []SessionsFitTheCode
<1>1. Init => AccountsInv
  BY InitHasAccounts DEF Init
<1>2. AccountsInv /\ Rows /\ [Next]_vars => AccountsInv'
  BY AccountsNextKeepsAccounts, OfficeKeepsAccounts
<1>3. SessionsInv => SessionsFitTheCode
  BY DEF SessionsInv
<1> QED
  BY <1>1, <1>2, <1>3, InitHasRows, InitHasContacts, InitHasSessions, NextKeepsRows,
     NextKeepsContacts, NextKeepsSessions, PTL DEF Spec

\* Verifications of one code know of each other; one that met no other works on
\* a code that is not consumed, has read the attempts it has, and is the only
\* one to have opened a session with it alone.
CodesInv ==
  /\ DOMAIN opened = Codes /\ DOMAIN guessed = Codes
  /\ \A v, w \in Verifiers :
       v # w /\ Working(v) /\ Working(w) /\ CodeOf(v) = CodeOf(w) => v \in shared
  /\ \A v \in Verifiers : Working(v) /\ v \notin shared => ~codes[CodeOf(v)].consumed
  /\ \A c \in Codes : opened[c] # {} => c \in DOMAIN codes /\ codes[c].consumed
  /\ \A c \in Codes : \A o, q \in opened[c] : o.alone /\ q.alone => o = q
  /\ \A c \in Codes : guessed[c] \in Nat
  /\ \A c \in Codes : guessed[c] > 0 => c \in DOMAIN codes /\ guessed[c] <= codes[c].attempts
  /\ \A v \in Verifiers : verify[v].step = "count" => guessed[CodeOf(v)] <= verify[v].seen

\* At the start no code is in use.
LEMMA InitHasCodes == Init => CodesInv
BY DEF Init, AccountsInit, CodesInv, Idle, Working

\* Every step keeps CodesInv.
LEMMA NextKeepsCodes == AccountsInv /\ CodesInv /\ [Next]_vars => CodesInv'
<1> SUFFICES ASSUME AccountsInv, CodesInv, [Next]_vars PROVE CodesInv'
  OBVIOUS
<1>0. /\ DOMAIN verify = Verifiers /\ DOMAIN codes \subseteq Codes
      /\ \A v \in Verifiers : Working(v) => CodeOf(v) \in DOMAIN codes
      /\ \A c \in DOMAIN codes : codes[c] \in Code /\ codes[c].attempts \in Nat
      /\ \A v \in Verifiers : verify[v].step = "count" => verify[v].seen \in Nat
  BY AccountsAssumption DEF AccountsInv, AccountsOK, Code
<1> USE DEF CodesInv, Working, CodeOf
<1>1. CASE ~(AccountsNext /\ UNCHANGED office)
  BY <1>0, <1>1, OfficeSteps
<1>2. ASSUME NEW c \in Codes, NEW x \in Contacts, RequestOtp(c, x) PROVE CodesInv'
  <2>1. /\ \A k \in DOMAIN codes : k \in DOMAIN codes' /\ codes'[k] = codes[k]
        /\ UNCHANGED <<verify, shared, guessed, opened>>
    BY <1>2 DEF RequestOtp, Insert
  <2> QED BY <1>0, <2>1
<1>3. ASSUME NEW c \in Codes, Expire(c) PROVE CodesInv'
  <2>1. /\ \A k \in DOMAIN codes : /\ k \in DOMAIN codes'
                                   /\ codes'[k].consumed = codes[k].consumed
                                   /\ codes'[k].attempts = codes[k].attempts
        /\ UNCHANGED <<verify, shared, guessed, opened>>
    BY <1>0, <1>3 DEF Expire, Code
  <2> QED BY <1>0, <2>1
<1>4. ASSUME NEW v \in Verifiers, NEW c \in Codes, NEW right \in BOOLEAN, Load(v, c, right)
      PROVE  CodesInv'
  <2>1. /\ verify[v].step = "idle" /\ c \in DOMAIN codes /\ ~codes[c].consumed
        /\ UNCHANGED <<codes, guessed, opened>>
        /\ \A w \in Verifiers \ {v} : verify'[w] = verify[w]
        /\ verify'[v].step \in {"use", "count"} /\ verify'[v].code = c
        /\ verify'[v].seen = codes[c].attempts
        /\ shared \subseteq shared'
        /\ \A w \in Verifiers \ {v} :
             verify[w].step # "idle" /\ verify[w].code = c => w \in shared' /\ v \in shared'
    BY <1>0, <1>4 DEF Load, Begin, Usable
  <2> QED BY <1>0, <2>1
<1>5. ASSUME NEW v \in Verifiers, CountGuess(v) PROVE CodesInv'
  <2>1. PICK c : c = CodeOf(v) /\ c \in DOMAIN codes
    BY <1>0, <1>5 DEF CountGuess
  <2>2. /\ verify[v].step = "count" /\ verify' = [verify EXCEPT ![v] = Idle]
        /\ shared' = shared \ {v} /\ opened' = opened
        /\ codes' = [codes EXCEPT ![c].attempts = verify[v].seen + 1]
        /\ guessed' = [guessed EXCEPT ![c] = @ + IF v \in shared THEN 0 ELSE 1]
    BY <1>5, <2>1 DEF CountGuess, End
  <2>3. /\ DOMAIN codes' = DOMAIN codes /\ codes'[c].attempts = verify[v].seen + 1
        /\ \A k \in DOMAIN codes : codes'[k].consumed = codes[k].consumed
        /\ \A k \in DOMAIN codes \ {c} : codes'[k] = codes[k]
    BY <1>0, <2>1, <2>2 DEF Code
  <2>4. /\ c \in Codes /\ guessed[c] \in Nat /\ guessed[c] <= verify[v].seen
        /\ verify[v].seen \in Nat
        /\ DOMAIN guessed' = Codes /\ \A k \in Codes \ {c} : guessed'[k] = guessed[k]
        /\ guessed'[c] = guessed[c] + IF v \in shared THEN 0 ELSE 1
    BY <1>0, <2>1, <2>2
  <2>5. \A w \in Verifiers \ {v} : verify[w].step = "count" /\ CodeOf(w) = c => v \in shared
    BY <2>1, <2>2
  <2>6. \A k \in Codes : guessed'[k] \in Nat
    BY <2>4
  <2>7. \A k \in Codes : guessed'[k] > 0 => k \in DOMAIN codes' /\ guessed'[k] <= codes'[k].attempts
    BY <2>1, <2>3, <2>4
  <2>8. \A w \in Verifiers : verify'[w].step = "count" => guessed'[CodeOf(w)'] <= verify'[w].seen
    BY <1>0, <2>2, <2>4, <2>5 DEF Idle
  <2> QED BY <1>0, <2>1, <2>2, <2>3, <2>4, <2>6, <2>7, <2>8 DEF Idle
<1>6. ASSUME NEW v \in Verifiers, FindAccount(v) \/ \E u \in Users : InsertAccount(v, u)
      PROVE  CodesInv'
  <2>1. /\ verify[v].step \in {"use", "insert"} /\ verify'[v].step \in {"insert", "open"}
        /\ verify'[v].code = verify[v].code
        /\ \A w \in Verifiers \ {v} : verify'[w] = verify[w]
        /\ UNCHANGED <<codes, shared, guessed, opened>>
    BY <1>0, <1>6 DEF FindAccount, InsertAccount
  <2> QED BY <1>0, <2>1
<1>7. ASSUME NEW v \in Verifiers, InsertFails(v) \/ Die(v) PROVE CodesInv'
  BY <1>0, <1>7 DEF InsertFails, Die, End, Idle
<1>8. ASSUME NEW v \in Verifiers, OpenSession(v) PROVE CodesInv'
  <2>1. PICK c : c = CodeOf(v) /\ c \in DOMAIN codes
    BY <1>0, <1>8 DEF OpenSession
  <2> DEFINE o == [user |-> verify[v].user, call |-> v, alone |-> v \notin shared]
  <2>2. /\ verify[v].step = "open" /\ verify' = [verify EXCEPT ![v] = Idle]
        /\ shared' = shared \ {v} /\ guessed' = guessed
        /\ codes' = [codes EXCEPT ![c].consumed = TRUE]
        /\ opened' = [opened EXCEPT ![c] = @ \cup {o}]
    BY <1>8, <2>1 DEF OpenSession, End
  <2>3. o.alone <=> v \notin shared
    OBVIOUS
  <2> HIDE DEF o
  <2>4. /\ DOMAIN codes' = DOMAIN codes /\ codes'[c].consumed
        /\ \A k \in DOMAIN codes : codes'[k].attempts = codes[k].attempts
        /\ \A k \in DOMAIN codes \ {c} : codes'[k] = codes[k]
    BY <1>0, <2>1, <2>2 DEF Code
  <2>5. /\ c \in Codes /\ DOMAIN opened' = Codes /\ opened'[c] = opened[c] \cup {o}
        /\ \A k \in Codes \ {c} : opened'[k] = opened[k]
    BY <1>0, <2>1, <2>2
  <2>6. v \notin shared => opened[c] = {}
    BY <2>1, <2>2, <2>5
  <2>7. \A k \in Codes : \A p, q \in opened'[k] : p.alone /\ q.alone => p = q
    BY <2>3, <2>5, <2>6
  <2>8. \A w \in Verifiers : Working(w)' /\ w \notin shared' => ~codes'[CodeOf(w)'].consumed
    BY <1>0, <2>1, <2>2, <2>4 DEF Idle
  <2> QED BY <1>0, <2>1, <2>2, <2>4, <2>5, <2>7, <2>8 DEF Idle
<1> QED BY <1>1, <1>2, <1>3, <1>4, <1>5, <1>6, <1>7, <1>8 DEF AccountsNext, VerifyStep

\* Of the verifications that met no other of their code, one opens a session;
\* and each of their wrong guesses is counted for good.
THEOREM CodesAreSpentOnce == Spec => []OneCodeOneSession
<1>1. Init => AccountsInv
  BY InitHasAccounts DEF Init
<1>2. AccountsInv /\ Rows /\ [Next]_vars => AccountsInv'
  BY AccountsNextKeepsAccounts, OfficeKeepsAccounts
<1>3. CodesInv => OneCodeOneSession
  <2> SUFFICES ASSUME CodesInv, NEW c \in Codes
               PROVE  Cardinality({o \in opened[c] : o.alone}) <= 1
    BY DEF CodesInv, OneCodeOneSession
  <2> DEFINE S == {o \in opened[c] : o.alone}
  <2>1. CASE S = {}
    BY <2>1, FS_EmptySet
  <2>2. CASE S # {}
    <3>1. PICK o \in S : TRUE
      BY <2>2
    <3>2. S = {o}
      BY <3>1 DEF CodesInv
    <3>3. Cardinality({o}) = 1
      BY FS_Singleton
    <3> QED BY <3>2, <3>3
  <2> QED BY <2>1, <2>2
<1> QED
  BY <1>1, <1>2, <1>3, InitHasRows, InitHasCodes, NextKeepsRows, NextKeepsCodes, PTL DEF Spec

\* The count of a code never falls behind the wrong guesses that met no other.
THEOREM GuessesAreCounted == Spec => []LoneGuessesCount
<1>1. Init => AccountsInv
  BY InitHasAccounts DEF Init
<1>2. AccountsInv /\ Rows /\ [Next]_vars => AccountsInv'
  BY AccountsNextKeepsAccounts, OfficeKeepsAccounts
<1>3. CodesInv => LoneGuessesCount
  BY DEF CodesInv, LoneGuessesCount
<1> QED
  BY <1>1, <1>2, <1>3, InitHasRows, InitHasCodes, NextKeepsRows, NextKeepsCodes, PTL DEF Spec

-----------------------------------------------------------------------------
(* Badges.                                                                  *)

\* Who is shown as developer of p has been given the role, by a claim that is
\* approved or was decided again.
Earned(p) ==
  projects[p].owner # Nobody =>
    /\ projects[p].owner \in DOMAIN users /\ users[projects[p].owner].role = "developer"
    /\ \E k \in DOMAIN claims :
         /\ ClaimedProject[k] = p /\ Claimant[k] = projects[p].owner
         /\ claims[k] = "approved" \/ k \in again

\* Claims are of projects and accounts there are, and no claim becomes pending
\* that a call found decided.
BadgesInv ==
  /\ \A p \in DOMAIN projects : Earned(p)
  /\ \A k \in DOMAIN claims : ClaimedProject[k] \in DOMAIN projects /\ Claimant[k] \in DOMAIN users
  /\ \A s \in Staff : work[s].step \in {"owner", "approve", "reject"} =>
       /\ work[s].claim \in DOMAIN claims
       /\ work[s].was # "pending" => claims[work[s].claim] # "pending"

\* No account loses its role.
LEMMA RolesStay ==
  ASSUME AccountsInv, [Next]_vars
  PROVE  \A u \in DOMAIN users :
           u \in DOMAIN users' /\ (users[u].role = "developer" => users'[u].role = "developer")
<1> DEFINE Goal == \A u \in DOMAIN users :
           u \in DOMAIN users' /\ (users[u].role = "developer" => users'[u].role = "developer")
<1>1. \A u \in DOMAIN users : users[u] \in Account
  BY DEF AccountsInv, AccountsOK
<1>2. ASSUME NEW v \in Verifiers, OpenSession(v) PROVE Goal
  BY <1>1, <1>2 DEF OpenSession, Saved, Insert, Account
<1>3. ASSUME NEW s \in Staff, ApproveClaim(s) \/ FulfillRequest(s) PROVE Goal
  BY <1>1, <1>3 DEF ApproveClaim, FulfillRequest, Account
<1>4. ASSUME users' = users PROVE Goal
  BY <1>4
<1>5. ASSUME AccountsNext, ~ \E v \in Verifiers : OpenSession(v) PROVE users' = users
  BY <1>5 DEF AccountsNext, RequestOtp, Expire, VerifyStep, Load, CountGuess, FindAccount,
     InsertAccount, InsertFails, Die
<1>6. ASSUME NEW s \in Staff, StaffStep(s), ~ApproveClaim(s), ~FulfillRequest(s)
      PROVE  users' = users
  BY <1>6 DEF StaffStep, InsertProject, ApproveProject, RejectProject, SuspendProject,
     ResolveSuspending, LoadProject, ResolveDispute, LoadClaim, LoadRequest, CommitProject, Decide,
     DecideFails, LoadOwner, RejectClaim, SetClaim, CallDies, accounts
<1> HIDE DEF Goal
<1>7. Goal
  BY <1>2, <1>3, <1>4, <1>5, <1>6 DEF Next, FileDispute, FileClaim, FileRequest, vars, accounts
<1> QED BY <1>7 DEF Goal

\* Steps that give nobody a badge, decide no claim and start no call on one.
LEMMA NoBadge ==
  ASSUME AccountsInv, Rows, BadgesInv, [Next]_vars, claims' = claims, again' = again,
         DOMAIN projects \subseteq DOMAIN projects',
         \A p \in DOMAIN projects : projects'[p].owner = projects[p].owner,
         \A p \in DOMAIN projects' \ DOMAIN projects : projects'[p].owner = Nobody,
         \A s \in Staff : work'[s].step \in {"owner", "approve", "reject"} =>
           /\ work[s].step \in {"owner", "approve", "reject"}
           /\ work'[s].claim = work[s].claim /\ work'[s].was = work[s].was
  PROVE  BadgesInv'
<1>1. \A p \in DOMAIN projects' : Earned(p)'
  BY RolesStay DEF BadgesInv, Earned
<1>2. \A k \in DOMAIN claims' : ClaimedProject[k] \in DOMAIN projects' /\ Claimant[k] \in DOMAIN users'
  BY RolesStay DEF BadgesInv
<1>3. \A s \in Staff : work'[s].step \in {"owner", "approve", "reject"} =>
        /\ work'[s].claim \in DOMAIN claims'
        /\ work'[s].was # "pending" => claims'[work'[s].claim] # "pending"
  BY DEF BadgesInv
<1> QED BY <1>1, <1>2, <1>3 DEF BadgesInv

\* At the start nothing is listed or claimed.
LEMMA InitHasBadges == Init => BadgesInv
BY DEF Init, BadgesInv, Idle

\* Every step keeps BadgesInv.
LEMMA NextKeepsBadges ==
  AccountsInv /\ Rows /\ BadgesInv /\ [Next]_vars => BadgesInv'
<1> SUFFICES ASSUME AccountsInv, Rows, BadgesInv, [Next]_vars PROVE BadgesInv'
  OBVIOUS
<1>0. /\ DOMAIN work = Staff
      /\ \A p \in DOMAIN projects : projects[p] \in [status : Statuses, owner : Users \cup {Nobody}]
      /\ \A k \in DOMAIN claims : claims[k] \in ClaimStatuses
  BY DEF Rows
<1> USE DEF Doing, Busy
<1>1. CASE (AccountsNext /\ UNCHANGED office) \/ UNCHANGED vars
  BY <1>1, NoBadge DEF office, vars
<1>2. ASSUME NEW s \in Staff, NEW p \in Projects, InsertProject(s, p) PROVE BadgesInv'
  BY <1>0, <1>2, NoBadge DEF InsertProject
<1>3. ASSUME NEW s \in Staff, NEW p, NEW status, NEW ds, LoadProject(s, p, status, ds)
      PROVE  BadgesInv'
  BY <1>0, <1>3, NoBadge DEF LoadProject
<1>4. ASSUME NEW s \in Staff, CommitProject(s) PROVE BadgesInv'
  BY <1>0, <1>4, NoBadge DEF CommitProject, Done, Idle, Insert
<1>5. ASSUME NEW s \in Staff, Decide(s) PROVE BadgesInv'
  BY <1>0, <1>5, NoBadge DEF Decide, Done, Idle
<1>6. ASSUME NEW s \in Staff, DecideFails(s) \/ FulfillRequest(s) \/ CallDies(s) PROVE BadgesInv'
  BY <1>0, <1>6, NoBadge DEF DecideFails, FulfillRequest, CallDies, Done, Idle
<1>7. ASSUME NEW s \in Staff, NEW status \in {"approved", "rejected"}, SetClaim(s, status),
             work[s].step \in {"approve", "reject"}
      PROVE  /\ DOMAIN claims' = DOMAIN claims /\ again \subseteq again'
             /\ \A k \in DOMAIN claims : claims[k] # "pending" => claims'[k] # "pending"
             /\ \A k \in DOMAIN claims : claims[k] = "approved" => claims'[k] = "approved" \/ k \in again'
             /\ status = "approved" =>
                  claims'[work[s].claim] = "approved" \/ work[s].claim \in again'
             /\ work[s].claim \in DOMAIN claims
             /\ \A t \in Staff : t # s => work'[t] = work[t]
             /\ work'[s].step = "idle"
  BY <1>0, <1>7 DEF SetClaim, Done, Idle, BadgesInv
<1>8. ASSUME NEW s \in Staff, RejectClaim(s) PROVE BadgesInv'
  <2>1. UNCHANGED <<users, projects>> /\ SetClaim(s, "rejected") /\ work[s].step = "reject"
    BY <1>8 DEF RejectClaim
  <2>2. \A p \in DOMAIN projects' : Earned(p)'
    BY <1>7, <2>1 DEF BadgesInv, Earned
  <2> QED BY <1>7, <2>1, <2>2 DEF BadgesInv
<1>9. ASSUME NEW s \in Staff, ApproveClaim(s) PROVE BadgesInv'
  <2>1. PICK k, p, u : k = work[s].claim /\ p = ClaimedProject[k] /\ u = Claimant[k]
    OBVIOUS
  <2>2. /\ SetClaim(s, "approved") /\ work[s].step = "approve"
        /\ projects' = IF work[s].owner = u THEN projects ELSE [projects EXCEPT ![p].owner = u]
        /\ users' = [users EXCEPT ![u].role = "developer"]
    BY <1>9, <2>1 DEF ApproveClaim
  <2>3. k \in DOMAIN claims /\ p \in DOMAIN projects /\ u \in DOMAIN users
    BY <1>7, <2>1, <2>2 DEF BadgesInv
  <2>4. /\ DOMAIN projects' = DOMAIN projects
        /\ \A q \in DOMAIN projects : \/ projects'[q].owner = projects[q].owner
                                      \/ q = p /\ projects'[q].owner = u
    <3>1. CASE projects' = projects
      BY <3>1
    <3>2. CASE projects' = [projects EXCEPT ![p].owner = u]
      <4>1. PICK r : r = [projects[p] EXCEPT !.owner = u]
        OBVIOUS
      <4>2. r.owner = u
        BY <1>0, <2>3, <4>1
      <4>3. projects' = [projects EXCEPT ![p] = r]
        BY <3>2, <4>1
      <4> QED BY <2>3, <4>2, <4>3
    <3> QED BY <2>2, <3>1, <3>2
  <2>5. DOMAIN users' = DOMAIN users /\ users'[u].role = "developer"
    <3>1. users[u] \in Account
      BY <2>3 DEF AccountsInv, AccountsOK
    <3> QED BY <2>2, <2>3, <3>1 DEF Account
  <2>6. \A q \in DOMAIN projects : projects'[q].owner = projects[q].owner => Earned(q)'
    BY <1>7, <2>2, RolesStay DEF BadgesInv, Earned
  <2>7. projects'[p].owner = u => Earned(p)'
    BY <1>7, <2>1, <2>2, <2>3, <2>5 DEF Earned
  <2>8. \A q \in DOMAIN projects' : Earned(q)'
    BY <2>4, <2>6, <2>7
  <2> QED BY <1>7, <2>2, <2>4, <2>5, <2>8 DEF BadgesInv
<1>10. ASSUME NEW s \in Staff, NEW k \in Claims, NEW step \in {"owner", "reject"}, LoadClaim(s, k, step)
       PROVE  BadgesInv'
  <2>1. /\ k \in DOMAIN claims /\ UNCHANGED <<users, projects, claims, again>>
        /\ work'[s].claim = k /\ work'[s].was = claims[k]
        /\ \A t \in Staff : t # s => work'[t] = work[t]
    BY <1>0, <1>10 DEF LoadClaim, accounts
  <2> QED BY <2>1 DEF BadgesInv, Earned
<1>11. ASSUME NEW s \in Staff, LoadOwner(s) PROVE BadgesInv'
  <2>1. /\ UNCHANGED <<projects, claims, again>> /\ work[s].step = "owner"
        /\ work'[s].claim = work[s].claim /\ work'[s].was = work[s].was
        /\ \A t \in Staff : t # s => work'[t] = work[t]
    BY <1>0, <1>11 DEF LoadOwner
  <2> QED BY <2>1, NoBadge
<1>12. ASSUME NEW s \in Staff, NEW r \in Requests, LoadRequest(s, r) PROVE BadgesInv'
  BY <1>0, <1>12, NoBadge DEF LoadRequest
<1>13. ASSUME NEW s \in Staff, NEW d \in Disputes, ResolveDispute(s, d) PROVE BadgesInv'
  BY <1>13, NoBadge DEF ResolveDispute
<1>14. CASE \/ \E d \in Disputes : FileDispute(d)
            \/ \E r \in Requests : FileRequest(r)
  BY <1>14, NoBadge DEF FileDispute, FileRequest
<1>15. ASSUME NEW k \in Claims, FileClaim(k) PROVE BadgesInv'
  <2>1. /\ ClaimedProject[k] \in DOMAIN projects /\ Claimant[k] \in DOMAIN users
        /\ DOMAIN claims' = DOMAIN claims \cup {k}
        /\ \A j \in DOMAIN claims : claims'[j] = claims[j]
        /\ UNCHANGED <<users, projects, work, again>>
    BY <1>15 DEF FileClaim, Insert, accounts
  <2> QED BY <2>1 DEF BadgesInv, Earned
<1> QED
  BY <1>1, <1>2, <1>3, <1>4, <1>5, <1>6, <1>8, <1>9, <1>10, <1>11, <1>12, <1>13, <1>14, <1>15
  DEF Next, StaffStep, ApproveProject, RejectProject, SuspendProject, ResolveSuspending

\* Whoever is shown as the developer of a listing had a claim to it approved,
\* and has the role, however calls on its claims overlapped.
THEOREM BadgesStayEarned == Spec => []BadgesAreEarned
<1>1. Init => AccountsInv
  BY InitHasAccounts DEF Init
<1>2. AccountsInv /\ Rows /\ [Next]_vars => AccountsInv'
  BY AccountsNextKeepsAccounts, OfficeKeepsAccounts
<1>3. BadgesInv => BadgesAreEarned
  BY DEF BadgesInv, Earned, BadgesAreEarned
<1> QED
  BY <1>1, <1>2, <1>3, InitHasRows, InitHasBadges, NextKeepsRows, NextKeepsBadges, PTL DEF Spec
=============================================================================
