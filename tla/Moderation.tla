------------------------------- MODULE Moderation -------------------------------
(***************************************************************************)
(* Moderation: the back office, beside the accounts it works on.  Projects *)
(* are submitted, rejected, suspended and approved again; ownership claims *)
(* and disputes are decided, and accounts erased on request.  Admins work  *)
(* at the same time, each call a transaction that loads its rows and       *)
(* writes at its commit the columns whose new value differs from the one   *)
(* it loaded.  The UPDATEs and the COMMIT are one call and one step here.  *)
(*                                                                         *)
(* Totals, the board's cache and the leadership log are BidLedger's and    *)
(* LeaderboardFeed's; the RERA check mark, which nothing decides on, and   *)
(* the pages of pending rows are left out.                                 *)
(***************************************************************************)
EXTENDS Accounts

CONSTANTS
  Projects, NumberOf,   \* listings and the RERA number of each
  Claims, ClaimedProject, Claimant,
  Disputes, DisputedProject,
  Requests, Subject,    \* deletion requests and whose they are
  Staff,                \* requests that may run at the same time, admins' and users'
  Nobody                \* claimed_by IS NULL

ASSUME ModerationAssumption ==
  /\ \A k \in Claims : ClaimedProject[k] \in Projects /\ Claimant[k] \in Users
  /\ \A d \in Disputes : DisputedProject[d] \in Projects
  /\ \A r \in Requests : Subject[r] \in Users
  /\ Nobody \notin Users

VARIABLES
  projects, claims, disputes, requests,   \* the committed rows, by id
  work,     \* the call each of Staff is in
  crossed,  \* history: decisions that met another on the same project
  verdict,  \* history: the last decision on each project that was logged
  again     \* history: claims decided when they were not pending any more

office == <<projects, claims, disputes, requests, work, crossed, verdict, again>>
vars == <<accounts, office>>

\* The statuses the handlers give a project here, and those the tables allow the rest.
Statuses == {"live", "rejected", "suspended"}
ClaimStatuses == {"pending", "approved", "rejected"}
DisputeStatuses == {"pending", "resolved", "rejected"}
RequestStatuses == {"pending", "fulfilled"}

Busy(s) == work[s].step # "idle"
Doing(s, step) == work[s].step = step
Done(s) ==
  /\ work' = [work EXCEPT ![s] = Idle]
  /\ crossed' = crossed \ {s}

Init ==
  /\ AccountsInit
  /\ projects = <<>> /\ claims = <<>> /\ disputes = <<>> /\ requests = <<>>
  /\ work = [s \in Staff |-> Idle]
  /\ crossed = {}
  /\ verdict = <<>>
  /\ again = {}

-----------------------------------------------------------------------------
(* ux_projects_rera_number: UNIQUE (rera_number) WHERE status <> 'rejected'. *)

Listed(p) == p \in DOMAIN projects /\ projects[p].status # "rejected"
NumberTaken(p) == \E q \in Projects \ {p} : NumberOf[q] = NumberOf[p] /\ Listed(q)
\* An uncommitted row of the number: whoever writes another waits for it.
NumberWaits(p) == \E s \in Staff : Doing(s, "submit") /\ NumberOf[work[s].project] = NumberOf[p]

InsertProject(s, p) ==
  /\ ~Busy(s)
  /\ p \notin DOMAIN projects
  /\ ~NumberWaits(p)
  /\ ~NumberTaken(p)   \* or 409, RERA_DUPLICATE
  /\ work' = [work EXCEPT ![s] = [step |-> "submit", project |-> p]]
  /\ UNCHANGED <<accounts, projects, claims, disputes, requests, crossed, verdict, again>>

\* Its opening bid commits the project.
CommitProject(s) ==
  LET p == work[s].project
  IN /\ Doing(s, "submit")
     /\ projects' = Insert(projects, p, [status |-> "live", owner |-> Nobody])
     /\ verdict' = Insert(verdict, p, [status |-> "live", alone |-> TRUE])
     /\ Done(s)
     /\ UNCHANGED <<accounts, claims, disputes, requests, again>>

-----------------------------------------------------------------------------
(* Decisions on a project: approve, reject, suspend, or resolve a dispute.  *)

Deciding(p) == {s \in Staff : Doing(s, "decide") /\ work[s].project = p}

\* The project is loaded; what it decides is written at the commit.
LoadProject(s, p, status, ds) ==
  /\ ~Busy(s)
  /\ p \in DOMAIN projects
  /\ work' = [work EXCEPT ![s] = [step |-> "decide", project |-> p, was |-> projects[p].status,
                                  status |-> status, disputes |-> ds]]
  /\ crossed' = IF Deciding(p) = {} THEN crossed ELSE crossed \cup Deciding(p) \cup {s}
  /\ UNCHANGED <<accounts, projects, claims, disputes, requests, verdict, again>>

ApproveProject(s, p) == LoadProject(s, p, "live", {})
RejectProject(s, p)  == LoadProject(s, p, "rejected", {})
SuspendProject(s, p) == LoadProject(s, p, "suspended", {})
ResolveSuspending(s, d) == d \in DOMAIN disputes /\ LoadProject(s, DisputedProject[d], "suspended", {d})

Resolved(ds) == [d \in DOMAIN disputes |-> IF d \in ds THEN "resolved" ELSE disputes[d]]

\* A dispute that leaves the project alone; one loaded row, overwritten whole.
ResolveDispute(s, d) ==
  /\ ~Busy(s)
  /\ d \in DOMAIN disputes
  /\ disputes' = Resolved({d})
  /\ UNCHANGED <<accounts, projects, claims, requests, work, crossed, verdict, again>>

Changed(s) == work[s].status # work[s].was
\* Variant: the index covers live listings only.
EntersIndexLive(s) == Changed(s) /\ work[s].status = "live"
EntersIndex(s) == Changed(s) /\ work[s].status # "rejected"

Decide(s) ==
  LET p == work[s].project
  IN /\ Doing(s, "decide")
     /\ EntersIndex(s) => ~NumberWaits(p) /\ ~NumberTaken(p)
     /\ projects' = IF Changed(s) THEN [projects EXCEPT ![p].status = work[s].status] ELSE projects
     /\ disputes' = Resolved(work[s].disputes)
     /\ verdict' = [verdict EXCEPT ![p] = [status |-> work[s].status, alone |-> s \notin crossed]]
     /\ Done(s)
     /\ UNCHANGED <<accounts, claims, requests, again>>

\* Variant: the action is logged in a transaction of its own.
DecideFailsLogged(s) ==
  /\ Doing(s, "decide")
  /\ EntersIndex(s)
  /\ ~NumberWaits(work[s].project)
  /\ NumberTaken(work[s].project)
  /\ verdict' = [verdict EXCEPT ![work[s].project] =
       [status |-> work[s].status, alone |-> s \notin crossed]]
  /\ Done(s)
  /\ UNCHANGED <<accounts, projects, claims, disputes, requests, again>>

\* The number went to another listing meanwhile: a 500, and nothing is kept.
DecideFails(s) ==
  /\ Doing(s, "decide")
  /\ EntersIndex(s)
  /\ ~NumberWaits(work[s].project)
  /\ NumberTaken(work[s].project)
  /\ Done(s)
  /\ UNCHANGED <<accounts, projects, claims, disputes, requests, verdict, again>>

FileDispute(d) ==
  /\ d \notin DOMAIN disputes
  /\ DisputedProject[d] \in DOMAIN projects
  /\ disputes' = Insert(disputes, d, "pending")
  /\ UNCHANGED <<accounts, projects, claims, requests, work, crossed, verdict, again>>

-----------------------------------------------------------------------------
(* Ownership claims.                                                        *)

FileClaim(k) ==
  /\ k \notin DOMAIN claims
  /\ ClaimedProject[k] \in DOMAIN projects
  /\ Claimant[k] \in DOMAIN users
  /\ claims' = Insert(claims, k, "pending")
  /\ UNCHANGED <<accounts, projects, disputes, requests, work, crossed, verdict, again>>

\* Neither call looks at the status the claim has.
LoadClaim(s, k, step) ==
  /\ ~Busy(s)
  /\ k \in DOMAIN claims
  /\ work' = [work EXCEPT ![s] = [step |-> step, claim |-> k, was |-> claims[k]]]
  /\ UNCHANGED <<accounts, projects, claims, disputes, requests, crossed, verdict, again>>

LoadOwner(s) ==
  /\ Doing(s, "owner")
  /\ work' = [work EXCEPT ![s] = [step |-> "approve", claim |-> @.claim, was |-> @.was,
                                  owner |-> projects[ClaimedProject[@.claim]].owner]]
  /\ UNCHANGED <<accounts, projects, claims, disputes, requests, crossed, verdict, again>>

SetClaim(s, status) ==
  LET k == work[s].claim
  IN /\ claims' = IF work[s].was = status THEN claims ELSE [claims EXCEPT ![k] = status]
     /\ again' = again \cup (IF claims[k] = "pending" THEN {} ELSE {k})
     /\ Done(s)
     /\ UNCHANGED <<codes, verify, shared, guessed, opened, disputes, requests, verdict>>

\* Variant: the claimant is not promoted.
ApproveClaimOnly(s) ==
  /\ Doing(s, "approve")
  /\ projects' = [projects EXCEPT ![ClaimedProject[work[s].claim]].owner = Claimant[work[s].claim]]
  /\ SetClaim(s, "approved")
  /\ UNCHANGED users

\* Nothing takes the role away again, so it is loaded and written here at once.
ApproveClaim(s) ==
  LET u == Claimant[work[s].claim]
  IN /\ Doing(s, "approve")
     /\ projects' = IF work[s].owner = u THEN projects
                    ELSE [projects EXCEPT ![ClaimedProject[work[s].claim]].owner = u]
     /\ users' = [users EXCEPT ![u].role = "developer"]
     /\ SetClaim(s, "approved")

RejectClaim(s) ==
  /\ Doing(s, "reject")
  /\ SetClaim(s, "rejected")
  /\ UNCHANGED <<users, projects>>

-----------------------------------------------------------------------------
(* Requests to delete an account.                                           *)

FileRequest(r) ==
  /\ r \notin DOMAIN requests
  /\ Subject[r] \in DOMAIN users
  /\ requests' = Insert(requests, r, "pending")
  /\ UNCHANGED <<accounts, projects, claims, disputes, work, crossed, verdict, again>>

LoadRequest(s, r) ==
  /\ ~Busy(s)
  /\ r \in DOMAIN requests
  /\ work' = [work EXCEPT ![s] = [step |-> "erase", request |-> r]]
  /\ UNCHANGED <<accounts, projects, claims, disputes, requests, crossed, verdict, again>>

FulfillRequest(s) ==
  LET r == work[s].request
  IN /\ Doing(s, "erase")
     /\ users' = [users EXCEPT ![Subject[r]].contact = NoContact, ![Subject[r]].erased = TRUE]
     /\ requests' = [requests EXCEPT ![r] = "fulfilled"]
     /\ Done(s)
     /\ UNCHANGED <<codes, verify, shared, guessed, opened, projects, claims, disputes, verdict, again>>

-----------------------------------------------------------------------------
CallDies(s) ==
  /\ Busy(s)
  /\ Done(s)
  /\ UNCHANGED <<accounts, projects, claims, disputes, requests, verdict, again>>

StaffStep(s) ==
  \/ \E p \in Projects : \/ InsertProject(s, p)
                         \/ ApproveProject(s, p) \/ RejectProject(s, p) \/ SuspendProject(s, p)
  \/ \E d \in Disputes : ResolveSuspending(s, d) \/ ResolveDispute(s, d)
  \/ \E k \in Claims : LoadClaim(s, k, "owner") \/ LoadClaim(s, k, "reject")
  \/ \E r \in Requests : LoadRequest(s, r)
  \/ CommitProject(s) \/ Decide(s) \/ DecideFails(s)
  \/ LoadOwner(s) \/ ApproveClaim(s) \/ RejectClaim(s) \/ FulfillRequest(s)
  \/ CallDies(s)

Next ==
  \/ AccountsNext /\ UNCHANGED office
  \/ \E s \in Staff : StaffStep(s)
  \/ \E d \in Disputes : FileDispute(d)
  \/ \E k \in Claims : FileClaim(k)
  \/ \E r \in Requests : FileRequest(r)

Spec == Init /\ [][Next]_vars

-----------------------------------------------------------------------------

\* The rows of every table and the calls about them are well formed.
TypeOK ==
  /\ AccountsOK
  /\ DOMAIN projects \subseteq Projects /\ DOMAIN verdict = DOMAIN projects
  /\ \A p \in DOMAIN projects : projects[p] \in [status : Statuses, owner : Users \cup {Nobody}]
  /\ DOMAIN claims \subseteq Claims /\ \A k \in DOMAIN claims : claims[k] \in ClaimStatuses
  /\ DOMAIN disputes \subseteq Disputes /\ \A d \in DOMAIN disputes : disputes[d] \in DisputeStatuses
  /\ DOMAIN requests \subseteq Requests /\ \A r \in DOMAIN requests : requests[r] \in RequestStatuses
  /\ \A s \in Staff : Doing(s, "decide") => work[s].project \in DOMAIN projects

\* One listing of a RERA number at most is not rejected, through submissions
\* under way, rejections that free the number and approvals that want it back.
OneListingPerNumber ==
  \A p \in Projects :
    Listed(p) \/ (\E s \in Staff : Doing(s, "submit") /\ work[s].project = p) => ~NumberTaken(p)

\* The decision admin_actions records last for a project is the status it has,
\* unless another decision on the project was under way at the same time.
DecisionsStand ==
  \A p \in DOMAIN projects :
    verdict[p].alone => projects[p].status = verdict[p].status

\* is_verified_developer_listing: who is shown as the developer has an approved
\* claim to the project and the role that comes with it, unless the claim was
\* decided once more afterwards, which takes nothing back.
BadgesAreEarned ==
  \A p \in DOMAIN projects :
    projects[p].owner # Nobody =>
      /\ users[projects[p].owner].role = "developer"
      /\ \E k \in DOMAIN claims :
           /\ ClaimedProject[k] = p /\ Claimant[k] = projects[p].owner
           /\ claims[k] = "approved" \/ k \in again

\* An account whose deletion was fulfilled keeps no contact, whatever logins and
\* claims had its row loaded; its contact may come back as another account.
ErasureIsFinal ==
  \A r \in DOMAIN requests :
    requests[r] = "fulfilled" =>
      users[Subject[r]].erased /\ users[Subject[r]].contact = NoContact
=============================================================================
