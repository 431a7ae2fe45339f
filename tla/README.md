# A verification of the Gurgaon leaderboard

The program is a leaderboard of real-estate projects that people bid on with
real money: a FastAPI application over PostgreSQL 16 and Redis (`src/api`), and
a React page (`src/frontend`). Payments come in through Razorpay's webhook; the
bids are a ledger, and the totals, the ranking, the leadership history and what
every browser shows are derived from it.

This directory holds TLA+ models of that program, the TLC configurations that
check them on small instances, and theorems about them checked by TLAPS for
every instance. `PROJECT.json` lists components, runs, mutants, the source
lines behind every definition, hazards, findings and theorems. Paths below are
relative to `src/`; `bids.py` is `api/app/services/bids.py`, and so on.

1. [The system](#1-the-system)
2. [The modules](#2-the-modules)
3. [The runs, their bounds and what they show](#3-the-runs-their-bounds-and-what-they-show)
4. [Fairness](#4-fairness)
5. [What is proved](#5-what-is-proved)
6. [Where code and documentation disagree](#6-where-code-and-documentation-disagree)
7. [What is not modelled](#7-what-is-not-modelled)
8. [The plan](#8-the-plan)
9. [How to run it](#9-how-to-run-it)

## 1. The system

### Components, their state and their operations

| component | state | operations | correct when |
|---|---|---|---|
| Bid ledger (`services/bids.py`) | `bids`, `payment_intents`, `projects.cached_total_paise`, `total_bid_count`, `leadership_log` | `accept_bid`, `reverse_bid`, `_update_leadership_log` | totals are the sums of the ledger in every committed state; an intent makes one bid; one open log row, for the #1; history is kept |
| Payments (`routers/payments.py`) | `payment_intents`, orders at Razorpay | `create_payment_intent`, `mock_payment` | a payment always finds its intent; a retry pays the same order |
| Webhook (`routers/webhooks.py`) | `webhook_events` | `razorpay_webhook` | every matching payment is settled once, in the end; the webhook settles nothing else; what it settles is pushed |
| Projects and board (`services/projects.py`) | `projects`, the board in Redis | `create_project`, `get_leaderboard`, `publish_leaderboard_update` | one listing per RERA number; no board older than promised; a board or page that nothing was committed into is of one piece |
| Reconciliation (`services/reconciliation.py`) | `reconciliation_reports` | `run_reconciliation`, nightly or by an admin | no false alarm; a correction is right |
| Back office (`routers/admin.py`, `account.py`, `projects.py`) | `projects.status`, `claimed_by`, `project_claims`, `project_disputes`, `data_requests`, `admin_actions` | approve, reject, suspend, resolve, approve/reject a claim, fulfil a deletion, reverse a bid, start a reconciliation | logged decisions stand; a badge has a claim behind it; an erased account stays erased |
| Accounts (`services/auth.py`) | `users`, `otp_requests` | `request_otp`, `verify_otp` | one account per contact; a code opens a session for its contact only; wrong guesses count |
| Sessions (`services/auth.py`, `lib/api.ts`, `store/auth.ts`) | `refresh_tokens`; each tab's copy, localStorage | rotate, detect reuse, revoke, `apiFetch`'s refresh and retry, Log out | an undisturbed session lives on; a revoked one is dead |
| Board in the browser (`hooks/useLeaderboard.ts`, `routers/ws.py`, `BidModal.tsx`, `LeaderboardTable.tsx`, `ProjectDetailPage.tsx`) | React Query's cache, a socket | poll, connect, receive, reconnect, propose an amount | the page is never older than the poll makes it; what it proposes takes the lead |
| Rate limits (`rate_limit.py`) | counters in Redis | `rate_limit`, before a code, an intent or a submission | a window passes no more than it should; whoever is refused has room again |

`PROJECT.json` lists further parts with the reason they are left out.

### How they interact

A customer's page calls `POST /payments/intent`, which creates an order at
Razorpay and then commits an intent. The page opens Checkout for that order.
Razorpay delivers `payment.captured` until it is answered with success;
`razorpay_webhook` logs the event, compares it with the intent, calls
`accept_bid`, marks the event processed and publishes the board. `accept_bid`
locks the project row, adds to its columns and calls
`_update_leadership_log`, which is under an advisory lock. The board travels
through Redis twice: as a cached value that `GET /projects/leaderboard`
answers from, and as a message that every socket forwards. Admins change rows
under all of this, and the reconciliation job reads the whole ledger beside it.

### What is hard

* **Interleaving.** Every request is a transaction (or several) of an asyncio
  session under READ COMMITTED; what it read may be old when it writes.
* **The ORM.** Sessions are created with `expire_on_commit=False`. A row that
  is selected again keeps the columns loaded before; an unchanged column is
  left out of the UPDATE; a SELECT flushes what is dirty, and so takes row
  locks earlier than the code shows. The models follow these rules, and half
  the defects in section 6 come from them.
* **Blocking.** Row locks, the advisory lock, uncommitted entries of unique
  indexes and foreign-key share locks make calls wait, and wait in cycles.
* **Delivery.** Razorpay's events come twice, at once, late or badly signed
  while a secret rotates; answers and pushed messages are lost; sockets die
  without a close event.
* **Crashes** between the commits of one request.

`PROJECT.json` lists each such place, at its line, with the properties aimed at it.

## 2. The modules

```
  Postings ── Ledger (abstract) <── refined by ── BidLedger ──┬── Reconciliation
     │           └── instanced by ── WebhookDelivery          └── Board
     └── Accounts ── Moderation     LeaderboardFeed     Sessions     RateLimit
```

An operator whose comment starts with `Variant:` is a plausible bug in the
operator after it: the runs must fail when it takes that operator's place, and
nothing else uses it.

**`Postings`** — tables as functions from keys to rows, the insert that keeps a
key's row, and the sums over a table of bids. Amounts are counted paisa by
paisa, as cardinalities, so that the proofs need only facts on finite sets.

**`Ledger`** — the abstract specification of the money: `Settle` and `Reverse`,
each atomic with its totals.

**`BidLedger`** — `bids.py` one SQL statement per action. `pc` names the
statement a call runs next:

| label | statement | actions |
|---|---|---|
| `idle` | what comes before the lock: the preload of `mock_payment`, the flush of `create_project`, `session.get(Bid)` | `PreloadProject`, `InsertProject`, `ReadBid` |
| `lock` | `SELECT ... FOR UPDATE` on the project | `LockProject` (also from `idle`, when nothing comes before it) |
| `find` | the intent by its key, and its bid | `AlreadySettled`, `FindIntent` |
| `insert` | the intent's INSERT | `InsertIntent`, `IntentConflict` |
| `advisory` | `pg_advisory_xact_lock`, a text statement, which flushes nothing | `TakeAdvisoryLock` |
| `leader` | the two SELECTs of `_update_leadership_log`, the first with the autoflush of the bid | `ReadLeader`, `BidConflict` |
| `commit` | the log's UPDATE and INSERT, and COMMIT | `CommitSettlement`, `CommitReversal` |
| `audit` | `reverse_bid_endpoint`'s own commit | `RecordReversal` |

`orm` is each session's copy of its project's columns, which `NewTotal` adds
to; `found` what it read of the log. `row` and `advisory` are the locks, an
intent's `owner` its uncommitted index entry. `Crash` ends a transaction
anywhere; `DeadlockVictim` fails one call of a cycle of waits. `Moderate` is an
admin's change of a status as far as it moves the leader.

**`Board`** — what is read of the ledger while its calls commit. One reader is
added: a visitor's `GET /projects/leaderboard`, a guest's project page, or one of the
calls itself, which publishes a board when it has settled (`at` "refresh") or
when its refund is logged (`at` "rankings"). `Refresh`, `ReadRankings` and
`ReadOnTop` are the statements of `publish_leaderboard_update` and
`_compute_leaderboard`, `OpenPage` and `ListBids` those of `get_project_detail`;
`LedgerStep` is any step of `BidLedger` beside them. `kept` is the project in the
reader's session, whose total the board of a settlement prints (`Printed`) though the
database ranks by the committed one. A refund's session has no such copy: its project
was a local of `reverse_bid`. `TableOffer` and `PageOffer` are the two amounts the pages
propose. `led` and `calm` are history.

**`WebhookDelivery`** — calls of `/payments/intent` (`AnswerExisting`, `Refuse`,
`CreateOrder`, `CommitIntent`), Razorpay and the customer (`Pay`, `Refund`,
`Deliver`), and handlers of the webhook, one statement or transaction per action:
`FindEvent`, `LogEvent`, `RejectSignature`, `Dispatch`, `Settle`, `RefreshProject`,
`CloseEvent`, `ComputeBoard`, `Publish`, `Answer`. Its `Settle` and the `ReverseBid` of
admins are `Ledger`'s, which `BidLedger` implements. An admin's call goes on with
`LogRefund`, `AdminComputes` and `AdminPublishes`. Between a commit, the computation of the
board and its publication anybody else may commit and publish. A board is known by the
bids it shows: a handler has those of its own project from `accept_bid`'s refresh (`hand`),
whose columns its session keeps, and the others from `_compute_leaderboard`. `owed` is
history: the bids made or reversed since when no pushed board shows them so.
Every kind of process can die between any two steps.

**`Reconciliation`** — runs of the job composed with `BidLedger`'s calls:
`Recompute` (the one comparing SELECT), `LoadProject` and `Flush` (the loop and
its autoflush), `CommitReport`. Calls wait for the rows that a run has flushed
(`CallStep`). `calm` is history (`Watch`): the runs since whose comparison nobody has
committed a posting, or a correction other than one that such a run makes as well
(`Undisturbing`).

**`LeaderboardFeed`** — a request is a sequence of steps (`Steps`), and a board
the number of commits that its oldest part shows. `Get`, `Read`, `Set`,
`Publish`, `Delete` and `Answer` are the calls on Redis and the database in the
order each handler makes them (`resolve_dispute` deletes before it commits);
`Subscribe`, `Connect` and `LoseSocket` are the socket, whose loss `onclose` may
not report. `Tick` is a clock for the TTL, the poll and the slowness of requests.
`Rests` lists, for the type invariant, what a request of each kind may have left to do.

**`Sessions`** — `token` is `refresh_tokens`; `held` and `stored` the tabs and
localStorage. `Refresh` is any `apiFetch` answered 401. On the server it is
`FindLive` then `Rotate`, or `FindFamily` then `Revoke` for a token that was
used; each takes effect at its commit. An answer is received or lost. A tab
reads localStorage only when it loads. `plain`, `final` and `gone` are
the families that the three properties are about: history, read by no step.

**`Accounts`** — `codes` is `otp_requests`. A verification loads its code
(`Load`, with the guess right or wrong), and then commits the count
(`CountGuess`) or, with the code's row locked by the autoflush, looks the
account up (`FindAccount`), inserts it (`InsertAccount`, which waits for an
uncommitted row of the contact; `InsertFails`) and commits (`OpenSession`).
`shared`, `guessed` and `opened` are history variables that no step reads to
decide anything.

**`Moderation`** — `Accounts` with the back office beside it. Calls of `Staff`
load rows and write them later: `LoadProject` and `Decide` for approve, reject,
suspend and a dispute that suspends; `LoadClaim`, `LoadOwner` and
`ApproveClaim` or `RejectClaim`; `LoadRequest` and `FulfillRequest`.
`InsertProject` and `CommitProject` are a submission; `NumberWaits` and
`NumberTaken` the partial unique index on the RERA number. A column is written
when its new value differs from the loaded one (`Changed`). `crossed`,
`verdict` and `again` are history.

**`RateLimit`** — counters in Redis with their time to live, and requests that pass
the keys of `Checks` one after the other: `Incr`, and `Expire` by the request that
made the key, are commands with others in between, and `Die` may come there.
`Tick` is Redis' clock. Requests come again and again, so runs have no end. `passed` is
history: the ages of the last requests each key let pass, as many as twice its limit
(`Passing` adds one), and never more than a window, which is as good as for ever.

`MC*` modules name the values of each small instance; `*Proofs` hold the theorems
about the module of that name (`FeedProofs` about `LeaderboardFeed`,
`WebhookProofs` about `WebhookDelivery`). `BidLedgerProofs` has the refinement of
`Ledger`, `BoardProofs` what is said of `leadership_log`, `ModerationProofs` what is
said of `Accounts`.

## 3. The runs, their bounds and what they show

| run | states | bounds | what it shows |
|---|---|---|---|
| `ledger` | 919 thousand | `Board` over `BidLedger`: 3 projects, 4 keys; 4 calls: two settlements racing on a key over 2 projects and 2 amounts, a reversal of any bid, an opening; one reader of any kind, a board of 2 rows, minimum 1, a rupee of 2 paise | totals, log and answers are right; `BidLedger` implements `Ledger`; boards are of one piece, and offers enough |
| `demo_ledger` | 151 thousand | 3 projects, 3 calls: demo payments, double refunds, an ordered intent, an opening, moderation | locks and intents in order, one open row, history kept, and every call returns |
| `webhooks` | 1.5 million | 2 tries, 2 amounts, 1 payment with its refund, 2 handlers, 1 admin, 1 process lost | nothing paid is forgotten, nothing unpaid gets on the ledger this way, every posting reaches a pushed board |
| `reconciliation` | 121 thousand | 2 runs beside 3 calls, with requests that make totals drift and that do not | no false alarm; an undisturbed run repairs everything |
| `leaderboard_feed` | 2.2 million | a writer of any kind, a visitor, one browser; TTL, poll and slowest request 1 tick, clock to 6 | the two bounds on age |
| `sessions` | 3.6 million | 2 tabs, 2 calls, 3 tokens | an undisturbed session lives; a revocation and a Log out are final |
| `accounts` | 1.4 million, up to symmetry | 2 verifications, 2 codes, 2 contacts, 2 accounts, 3 attempts, an erasure | codes, sessions and accounts belong together; an erased account stays so |
| `moderation` | 5.6 million, up to symmetry | 2 calls at once, 2 listings of one number, 2 claims, 1 dispute | one listing per number, decisions stand, badges are earned |
| `rate_limit` | 338 thousand | 3 requests, for 2 phones behind one address; limits 1 and 2, windows of 2 ticks | the limit, and that every key has room again |
| `lost_updates`, `repair_race`, `false_reuse` | — | 2 calls; 3 calls and a run; 2 calls of a tab | section 6 |

### Why the bounds are enough to be interesting

The ledger's hazards are between two calls and a third that moves the leader: two
calls race for a key, for a row and for the advisory lock, a third project
changes the ranking between their locks. Keys can be used again with another project
and another amount. Amounts 1 and 2 and two seeded bids of 2 give ties,
which go to the older project, and changes of the lead in both directions.
Three live projects do not fit on a board of two rows; a rupee of two paise makes
proposals round. Readers do not disturb anybody, so one at a time shows all that
they can see. Requests of one call are drawn from a set, so one run covers many mixes.

One payment is enough for the webhook: an order is paid at most once and an
intent has one order. Its refund, its redelivery and two handlers give every
overlap of events, an admin who reverses its bid the boards that overtake each other;
`MaxCrashes` bounds the processes lost to one, in every place.

In the feed all that matters is the order of the times; with one tick for each, a
request begun just before a tick still spans it. Both bounds on age are
tight: with one less in either, TLC finds a violation. The clock's end is past
the time of every commit plus the larger bound.

Three tokens are a login, its rotation and one more rotation or login. Three
attempts leave room for an overlap to be counted once and for the limit to be
reached; `OTP_MAX_ATTEMPTS` is 5. Two requests at once for one phone and one for
another share the address: one phone's requests fill the address's counter for the
other, and a key can be made again while the one who made it last is still slow.
`Moderation.cfg` treats its calls and its contacts as interchangeable, `Accounts.cfg` its
verifications, codes and contacts. They are: no definition names one of them, and
no `CHOOSE` picks among them other than where there is one to pick. The runs with
liveness use no symmetry.

Deadlock is checked in `rate_limit` only (elsewhere `CHECK_DEADLOCK FALSE`): finite
workloads end, and so do the feed's clock and the bounded tokens. That calls do not block each other
forever is `EveryCallReturns`.

### The properties

* `CacheMatchesLedger`, `MoneyInv` — every committed total and count is the
  ledger's; `MoneyInv` adds why: whoever holds a row has its current columns.
* `LogReadsHold`, `OneOpenRow`, `LogNamesLeader`, `HistoryKept` — what a call
  read of the log is still so when it writes it; hence one open row, for the
  leader, and no rewriting.
* `AnswersAreTrue` — a success means done, also when another call did it.
* `BoardsAgree` — a board is put together from several statements, each of
  which sees its own state: whoever is "On top" led at some time in between, and
  what no commit fell into has totals in the order of the ranks, the one on top
  in its first row, and on a page bids that add up to the total.
* `OffersTakeTheLead` — the proposed amount is computed from a board and a page
  fetched at different times, and rounded: it still takes the lead, ties included,
  unless someone has bid more meanwhile.
* `ProcessedMeansSettled`, `PaymentsHaveAnIntent`, `BidsArePaidFor`,
  `PaidGetsSettled` — the webhook's promises. Bids that `create_project` opens a
  listing with come another way and are not among them.
* `PostingsArePushed` — when no handler and no admin's call is at work, every bid made
  or reversed was shown so by a board pushed after it, unless the request that made or
  reversed it died: a push lost with its request is not made up for, and no
  other is lost. It does not say that the *last* board was right, which it
  need not be (section 6).
* `NoFalseAlarm`, `QuietRunRepairs` — the job is silent when it should be, and
  right when it is undisturbed. Another run beside it that repairs the same drift does
  not disturb it.
* `AnswersAreRecent`, `ShownIsRecent` — no answer is older than two slow
  requests and a TTL; no page older than a further poll and its request.
* `PlainUseKeepsSession`, `RevocationIsFinal` — a family that one call at a time
  used, with no answer lost, has one live token and the browser has it; a
  family revoked while no rotation of it ran has none, ever after. The
  overlap is excluded because it does break it: the rotation commits a live
  token into the dead family.
* `LogoutLasts` — a session logged out of in its only tab, with none of its calls
  under way, is never again in a tab, in localStorage or in a call. With a refresh
  under way its answer stores the session again.
* `ContactsAreUnique`, `SessionsFitTheCode`, `OneCodeOneSession`,
  `LoneGuessesCount` — the unique key and the order of flushes keep accounts apart;
  of the verifications that met no other of their code, one opens a
  session; their wrong guesses are never uncounted. Two that overlap can
  both open a session, and count once: the code has no lock there.
* `OneListingPerNumber`, `DecisionsStand`, `BadgesAreEarned`, `ErasureIsFinal` —
  the partial index holds through rejection and second approval; a logged
  decision that met no other is the status; who is shown as developer had a
  claim approved; and an erased account does not get its contact back from a
  login that had it loaded, because the UPDATE names one column.
* `CountersOK`, `LimitsHold`, `KeysComeBack` — a counter that has no time to live is
  about to get it, or its maker died between `INCR` and `EXPIRE`; any stretch of time
  as long as a window passes less than twice the limit; and whoever is refused
  has room again, unless that maker died.

Each property has a mutant: a `Variant` of the code that breaks it.

## 4. Fairness

`BidLedger!FairSpec` asks that every call goes on when it can (`WF` of its
step: the event loop runs every ready task) and that the database resolves every
deadlock (`WF` of some victim). Nothing has to crash and no admin has to act.
A lock's holder can always go on or is in a cycle, so weak fairness is enough.

`WebhookDelivery!FairSpec` asks that handlers go on (`WF`) and, for each captured
payment, that delivery of its event *with a valid signature* recurs when it recurrently
can (`SF`): Razorpay redelivers until it sees success, a secret is rotated to an
end, but the handlers may be busy in between, so that delivery is not enabled
continuously. Customers need not pay, admins need not act; processes may die up to the bound.

`RateLimit!FairSpec` asks that Redis' clock runs (`WF` of `Tick`) and that a process
that lives gets to its `EXPIRE` (`WF`); requests need not come.

The feed needs no fairness: its bounds on age are invariants over a clock that
does not pass the time by which a request ends or a poll begins. That a poll
begins is justified by `refetchInterval` while the page is in front.

## 5. What is proved

All theorems hold for every value of the constants, under the named
assumptions of the module (`ASSUME`), which every run evaluates.

| module | theorem: property | needs |
|---|---|---|
| `BidLedgerProofs` | `ControlCorrect`: `ControlInv`; `AnswersHold`: `AnswersAreTrue`; `OnlyTheLogDeadlocks` | nothing more: every workload, moderation included |
| | `TotalsHold`: `MoneyInv`, `CacheMatchesLedger` | `SafeRequests` in flight, as a hypothesis of the invariant |
| | `CacheIsRight`: the same, always; `LedgerImplemented`: `ImplementsLedger` | `SafeWorkload` |
| `BoardProofs` | `ReadingsHold`: `LogReadsHold`; `LogHasOneOpenRow`: `OneOpenRow`; `HistoryIsKept`: `HistoryKept` | nothing more |
| | `LogIsInSync`: `LogNamesLeader` | `Moderation = {}` |
| | `BoardsAreTyped`: `BoardTypeOK`; `OffersAreEnough`: `OffersTakeTheLead` | nothing more |
| | `BoardsHold`: `BoardsAgree` | `SafeRequests` in flight, as a hypothesis of the invariant; `Moderation = {}` |
| | `LedgerKeptWithReaders`: `ImplementsLedger`, with readers beside the calls | `SafeWorkload` |
| `ReconciliationProofs` | `JobsAreTyped`: `JobsOK`; `ReconciliationIsHarmless`: `NoFalseAlarm`; `QuietRunsRepair`: `QuietRunRepairs` | nothing more |
| | `CallsRunAsBefore`: the calls beside runs of the job do what `BidLedger!Spec` says; `LedgerKeptWithJob`: `ImplementsLedger` | `SafeWorkload` |
| `WebhookProofs` | `DeliveryIsSound`: `TypeOK`; `ProcessedIsSettled`: `ProcessedMeansSettled`; `PaymentsFindTheirIntent`: `PaymentsHaveAnIntent`; `BidsArePaid`: `BidsArePaidFor`; `PostingsReachSubscribers`: `PostingsArePushed` | nothing more |
| `SessionProofs` | `SessionsAreTyped`: `TypeOK`; `PlainUseIsSafe`: `PlainUseKeepsSession`; `RevocationsHold`: `RevocationIsFinal`; `LogoutHolds`: `LogoutLasts` | nothing more |
| `ModerationProofs` | `TypesHold`: `TypeOK`; `NumbersStayUnique`: `OneListingPerNumber`; `DecisionsAreKept`: `DecisionsStand`; `ErasureHolds`: `ErasureIsFinal`; `ContactsStayUnique`: `ContactsAreUnique`; `SessionsAreTheirOwners`: `SessionsFitTheCode`; `CodesAreSpentOnce`: `OneCodeOneSession`; `GuessesAreCounted`: `LoneGuessesCount`; `BadgesStayEarned`: `BadgesAreEarned` | nothing more |
| `FeedProofs` | `FeedTypes`: `TypeOK`; `AnswersHold`: `AnswersAreRecent`; `ShownHolds`: `ShownIsRecent` | nothing more |
| `RateLimitProofs` | `CountersHold`: `CountersOK`; `WindowsHold`: `LimitsHold` | nothing more |

`SafeRequests` says that no call under way is a demo payment and that no two refund one
bid; `SafeWorkload` says so of every request that calls may carry. It is not a convenience: without either half the run `lost_updates` refutes
the conclusion. `Moderation = {}` is needed because a suspension moves the leader
and writes no log row.

**The ledger.** `CacheMatchesLedger` is not inductive: a call adds to its
session's copy of the columns, so the proof must know that the copy is current.
`ControlInv` (types; who holds which lock at which statement; who owns an
uncommitted intent; that what a call read about bids is still so) is inductive by
itself. Over it, `MoneyInv` says that the holder of a row has its current
columns, that a session holds columns only under the row's lock (this is where
a preload breaks it), and that a bid about to be reversed is not reversed. A
commit then adds a bid's paise to a table whose sum the columns are, and the
lemmas on `Postings` say what one more bid, or one reversed, does to the sum.
The refinement follows: a commit is one `Settle` or one `Reverse`, every
other step a stutter. It holds with readers and with runs of the job beside the calls,
because their steps are stutters of `BidLedger`. `AnswerInv` adds to `AnswersAreTrue` that a call on its way to
the audit row has its bid reversed already; no step takes a bid or a reversal away.

**The log.** Readings are made under the advisory lock, which `ControlInv` says
is held to the commit, so no other call is between its readings and its
commit, and no commit falls between (`LogReadsHold`). One open row and, without
moderation, the right leader follow from what the commit writes.

`OnlyTheLogDeadlocks` is about waits: a call that another waits for holds its
project's row, so of the calls of a cycle none is about to lock one; a call that inserts an
intent waits for one that is past its own insert, and one at the advisory lock for
one that is past that. No cycle closes that way, so one of the calls is adding a log row whose
foreign key needs the leader's row, as the victims in `demo_ledger` are.

**The board.** `BoardInv` says what a reader's copies are worth: its project is as in
the table, and the rows it has are those of now, unless something was committed
since; and the leader of now is among those who led since (`RowsInv`). With the log in
sync, the second statement finds such a leader. The arithmetic of an offer is one
lemma on rounding up and one on ties, which a bid of a paisa more breaks.

**The job.** Where totals are right, its one comparing SELECT reads a committed
state in which nothing differs (`NothingToFix`), so it never loads, locks or
writes, and the calls run as if it were not there. Where totals drift,
`JobsInv` types what the runs have loaded and written. `CalmInv` is why an undisturbed
run repairs: for a run in `calm` the sums it is going to write are those of now, every
project that differs is among the ones it found, and what it loaded is in the columns
still or has been put right by another run, so that leaving a column out of the UPDATE
that looks right does no harm. A project that is not on the
board when the run compares, and so is not compared, has neither bids nor a total, and whoever
opens it posts a bid (`AbsentInv`). That corrections go only to projects on the
board (`FixesPresent`) keeps that so beside other runs.

**The webhook.** `DeliveryInv` relates orders to intents (one intent per order, and
an order is on offer only once its intent is committed), says at each label what
a handler has established (`HandlerOK`), and that an event that is closed or
acknowledged has its bid. `OwedInv` is why no push is lost: a bid that no pushed board
shows as it is has somebody who is going to push one that does, the handler that
settled it (`PushedBy`) or, once it is reversed, the admin's call that reversed it
(`WithdrawnBy`); and what either has computed already shows that bid as it is. A
board in between that is older disturbs nothing: it takes no bid's debt on.

**Sessions.** `FamiliesInv` numbers families by their logins. `RevocationInv` says
that a call about to revoke, which knows of no rotation beside it, has every
token of the family among those it will revoke; `PlainInv` that a plainly used session
has its one live token where the only call under way, or localStorage, can
have it from. `LogoutLasts` is inductive over the types: a step hands around only
tokens that were there (`Carried`), or a login's, whose family is new.

**The back office.** `OneNumberInv` adds to the property that two submissions
under way never share a number and that a submission's project is new.
`DecisionInv` adds that two calls deciding on one project know of each other
and that one that met no other loaded the status there still is. The first says why
an insert cannot meet an insert, the second why leaving out an unchanged
column is harmless to a call that is alone. `BadgesInv` adds that a claim a call
found decided is never pending again. `KeepsAccounts` names what logins and claims
leave alone of an account that was erased.

**Logins.** `ContactsInv` covers rows that are inserted and not committed, which the
unique key makes others wait for. `SessionsInv` says that who was found holds the
contact or was erased since. `CodesInv` says that two verifications of one code under
way know of each other, and that one that is alone has read the code as it is:
hence one session and no lost guess.

**The feed.** `FeedInv` says, for each step a request may be at, how old what it has in
hand can be: from the read to the write of the cache no more than `Slow`
(`InHand`), so a cached board is at most that old when it is cached and a TTL older
when it goes; an answer adds the slowness of the request that got it, and the page a poll and
the poll's own request (`PollInv`). A step has to know what the next one is, for the
times that count are those of the step ahead: `StepsFacts` and `After` say so of every kind
of request. The bounds are those of the run, for every TTL, poll and slowness.

**The rate limits.** A window's counter and the one before it can both let a whole limit
pass in one stretch of time, but not more: `WindowInv` says that the requests which let
pass before the counter was made reach back, as many as the limit of them, to a
window ago or longer, and that the oldest of the counter's own will be a window old when
the counter goes, because its time to live was set after it. `MakersInv` is why an
`EXPIRE` always meets the counter that its request made.

Only model-checked: liveness (`EveryCallReturns`, `PaidGetsSettled`, `KeysComeBack`),
which is out of reach of the prover here (fairness, ENABLED). Every invariant and action
property of a passing run is proved, some under the hypotheses in the table. Not
stated at all is what a recursive definition computes: no module has one.

## 6. Where code and documentation disagree

Runs that end in a violation, each a trace of the code:

* `lost_updates` — two defects, each a shortest trace of the run when its workload is
  `TwoAdminsWorkload` or `MockWorkload` alone. `reverse_bid` reads `bid.reversed`
  (`bids.py:203`) before it locks the project and not again: two refunds of one bid
  at once take it off twice, where the comment says "idempotent". `mock_payment`
  loads the project with `db.get` (`routers/payments.py:157`) before `accept_bid` locks
  it: `SELECT ... FOR UPDATE` returns a row the session already has, and keeps the old
  columns, so that of two demo payments at once one is lost from the total,
  though `docs/07-implementation-plan.md:22-24` asks for the opposite.
* `repair_race` — the job's correction writes sums that an earlier statement read: a bid
  committed in between is taken out of a total that was wrong only before.
* `false_reuse` — two calls that are answered 401 together refresh with one token; the
  second is taken for a replay, and the session is revoked, though nobody
  replayed a stolen token.

Seen while modelling, without a run of their own because they are certain from
the code:

* `README.md:370` says the advisory lock sidesteps the lock-ordering problem entirely.
  It does not: the log row's foreign key takes a share lock on
  the new leader's row after the advisory lock, while the leader's own call
  holds that row and waits for the advisory lock. `DeadlockVictim` is in
  the model for this; the victim gets a 500, and Razorpay delivers again.
* Suspending, rejecting or approving the leader changes who leads and writes no row of
  `leadership_log` (`admin.py:294`), which goes on naming the old leader until the next
  bid; `docs/01-database-schema.md:206-208` wants it "appended to whenever the #1 changes".
* `publish_leaderboard_update` computes, caches and publishes in steps of its own
  (`projects.py:109-112`), after the commit. A handler computes a board, a refund commits
  and pushes a newer one, and then the handler pushes the older. No push follows, where
  `docs/02-api-spec.md:117-119` has one for every change of a total. `WebhookDelivery` has
  these steps; `PostingsArePushed` is what is left of the promise, and the page's poll
  corrects the rest.
* `reverse_bid` commits before the admin's action is logged: a crash
  between (`admin.py:223`) leaves a refund that no `admin_actions` row explains.
  A retry of the reversal writes the row.
* A crash between `INCR` and `EXPIRE` (`rate_limit.py:14-16`) leaves a counter
  that never expires: once it is full, its phone or address is refused for good.
* The windows are fixed: "5/hour per phone" in `docs/05-security-anti-fraud.md:29` is up to nine
  in the worst hour (`LimitsHold` is tight).
* A board that a settlement publishes prints its own project's total as the session
  refreshed it, and ranks by what is committed: a bid on that project in between gives a
  board whose first row has less than its second. `BoardsAgree` is about boards without
  such a commit; the next poll shows the right one.
* `resolve_dispute` deletes the cached board before it commits (`admin.py:362-368`); a
  reader in between puts the old one back for a TTL. The bound of `AnswersAreRecent`
  includes it.

## 7. What is not modelled

* CAPTCHA and OTP providers: a refused call changes none of the modelled state.
  Hashing, JWTs, HMACs and the RERA number's pattern are pure functions; a
  signature or a guess is right or wrong.
* Read-only handlers that nothing depends on: an account's own rows, admin lists,
  fraud flags, `daily_topper`, a page's bids past the first page of them. `verify_rera`, whose mark
  nothing decides on. The seeding and the role promotion of the internal test router.
* Rendering, forms and formatting.
* The ages of boards and their contents are in two modules: `LeaderboardFeed` knows a
  board by its oldest part, `Board` by what it shows.
* The size of integers: totals are BIGINT paise and Python integers, and no
  sum of payments comes near the limit.
* Isolation levels other than READ COMMITTED, Redis failing as a whole, more than one
  account in `Sessions`, admins among the claimants in `Moderation`.

## 8. The plan

Modules were written in the order of what they protect: first the ledger with its
abstract specification, then the paths that reach it (webhook, reconciliation), what is
shown of it (feed, board), who may act (sessions, accounts, back office) and how
often (rate limits). These are done, with the theorems of section 5. What would be next:

1. `Moderation` over `BidLedger`'s statuses instead of its own, so that suspension, the
   leader and the log meet in one run with who may suspend.
2. What a suspension does to the log, stated as an invariant of `Board`: which statuses
   have changed since the last takeover, so that `LogNamesLeader` says something without
   `Moderation = {}` too.

## 9. How to run it

    tlc -workers 4 -config Board.cfg MCBoard.tla
    tlapm BidLedgerProofs.tla

`PROJECT.json` pairs every configuration with its module. The longest run takes
about three minutes, and each proof module a few.
