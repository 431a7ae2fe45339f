--------------------------- MODULE WebhookDelivery ---------------------------
(***************************************************************************)
(* From a click on "pay" to a bid on the board: POST /payments/intent,     *)
(* Razorpay, and POST /webhooks/razorpay with its event log.  Razorpay     *)
(* delivers an event again until it is answered with success, so several   *)
(* handlers may run for one event; each of their transactions is a step,   *)
(* and a process may die between two of them.  accept_bid's transaction is *)
(* one step, the Settle of Ledger, which BidLedger implements.  Computing a *)
(* board and pushing it are steps apart, for handlers as for admins.       *)
(***************************************************************************)
EXTENDS Integers, FiniteSets, Postings

CONSTANTS
  Projects,
  Keys,        \* idempotency keys
  Amounts,     \* amounts at or over MIN_BID_PAISE
  Tries,       \* calls of /payments/intent
  Workload,    \* the requests each of them may carry
  Payments,    \* payments that customers may make at Razorpay
  Handlers,    \* webhook handlers that may run at the same time
  Admins,      \* calls of reverse_bid_endpoint that may run at the same time
  None,
  MaxCrashes   \* bound on the processes that die

ASSUME PartsAssumption ==
  /\ None \notin Tries /\ None \notin Keys /\ MaxCrashes \in Nat
  /\ Amounts \subseteq Nat \ {0}
  /\ Workload \in [Tries -> SUBSET [project : Projects, key : Keys, amount : Amounts]]

VARIABLES
  req,         \* the request each try carries
  step,        \* what each try does next
  order,       \* Razorpay's orders; each is made by one try
  intent,      \* payment_intents by idempotency key
  offer,       \* the order that a try's answer tells the client to pay
  payment,     \* captured payments: the order each is for, and its amount
  refunded,    \* payments that Razorpay has refunded
  event,       \* webhook_events: events that are logged, and processed or not
  acked,       \* events that Razorpay has seen answered with success
  pc,          \* what each handler does next
  at,          \* the event it was given
  signed,      \* whether the signature of its delivery is valid
  seen,        \* processed, as its session read it
  fresh,       \* whether its accept_bid made a new bid
  hand,        \* the bids on the board it has computed so far
  admin,       \* what each admin's call does next
  target,      \* the bid it reverses
  draft,       \* the bids on the board it has computed
  pushed,      \* the bids on the board that was last pushed
  owed,        \* history: bids made or reversed, by a request that lives, since
               \* when no board was pushed that shows them so
  crashes,
  bid, total, count  \* the ledger

client == <<req, step, order, intent, offer>>
razorpay == <<payment, refunded, acked>>
handler == <<pc, at, signed, seen, fresh, hand>>
office == <<admin, target, draft>>
push == <<pushed, owed>>
ledger == <<bid, total, count>>
vars == <<client, razorpay, event, handler, office, push, crashes, ledger>>

\* A board without bids: the seeded ones never meet a payment.
Money == INSTANCE Ledger WITH OpeningBids <- [k \in {} |-> None]

\* An event is known by its type and payment, as the fallback id is.
Events == {"captured", "refunded"} \X Payments
PaymentOf(e) == e[2]

Init ==
  /\ req \in [Tries -> UNION {Workload[t] : t \in Tries}]
  /\ \A t \in Tries : req[t] \in Workload[t]
  /\ step = [t \in Tries |-> "read"]
  /\ order = [t \in {} |-> None]
  /\ intent = [k \in {} |-> None]
  /\ offer = [t \in Tries |-> None]
  /\ payment = [p \in {} |-> None]
  /\ refunded = {}
  /\ event = [e \in {} |-> FALSE]
  /\ acked = {}
  /\ pc = [h \in Handlers |-> "idle"]
  /\ at = [h \in Handlers |-> None]
  /\ signed = [h \in Handlers |-> FALSE]
  /\ seen = [h \in Handlers |-> FALSE]
  /\ fresh = [h \in Handlers |-> FALSE]
  /\ hand = [h \in Handlers |-> {}]
  /\ admin = [a \in Admins |-> "idle"]
  /\ target = [a \in Admins |-> None]
  /\ draft = [a \in Admins |-> {}]
  /\ pushed = {}
  /\ owed = {}
  /\ crashes = 0
  /\ Money!Init

-----------------------------------------------------------------------------
(* POST /payments/intent.                                                  *)

TryGoto(t, label) == step' = [step EXCEPT ![t] = label]

\* An intent with the key is answered as it is, whatever the body says.
AnswerExisting(t) ==
  /\ step[t] = "read"
  /\ req[t].key \in DOMAIN intent
  /\ offer' = [offer EXCEPT ![t] = intent[req[t].key].order]
  /\ TryGoto(t, "answered")
  /\ UNCHANGED <<req, order, intent>>

\* A rate limit, the minimum bid or a project that is not live.
Refuse(t) ==
  /\ step[t] = "read"
  /\ TryGoto(t, "refused")
  /\ UNCHANGED <<req, order, intent, offer>>

\* Variant: the status of Razorpay's answer is not looked at.
CreateOrderUnchecked(t) ==
  /\ step[t] = "read"
  /\ req[t].key \notin DOMAIN intent
  /\ order' = order
  /\ TryGoto(t, "insert")
  /\ UNCHANGED <<req, intent, offer>>

\* The order is created outside of any transaction.
CreateOrder(t) ==
  /\ step[t] = "read"
  /\ req[t].key \notin DOMAIN intent
  /\ order' = Insert(order, t, req[t].amount)
  /\ TryGoto(t, "insert")
  /\ UNCHANGED <<req, intent, offer>>

\* Variant: the call that lost the race answers with the order it made.
CommitIntentOwnOrder(t) ==
  LET k == req[t].key
  IN /\ step[t] = "insert"
     /\ intent' = Insert(intent, k, [project |-> req[t].project,
                                     amount |-> req[t].amount, order |-> t])
     /\ offer' = [offer EXCEPT ![t] = t]
     /\ TryGoto(t, "answered")
     /\ UNCHANGED <<req, order>>

\* Insert keeps the row of a call that committed the key first; its order is
\* then the answer, and the one made by t stays without an intent.
CommitIntent(t) ==
  LET k == req[t].key
  IN /\ step[t] = "insert"
     /\ intent' = Insert(intent, k, [project |-> req[t].project,
                                     amount |-> req[t].amount, order |-> t])
     /\ offer' = [offer EXCEPT ![t] = intent'[k].order]
     /\ TryGoto(t, "answered")
     /\ UNCHANGED <<req, order>>

TryStep(t) ==
  /\ AnswerExisting(t) \/ Refuse(t) \/ CreateOrder(t) \/ CommitIntent(t)
  /\ UNCHANGED <<razorpay, event, handler, office, push, crashes, ledger>>

TryDies(t) ==
  /\ step[t] \in {"read", "insert"}
  /\ crashes < MaxCrashes
  /\ crashes' = crashes + 1
  /\ TryGoto(t, "died")
  /\ UNCHANGED <<req, order, intent, offer, razorpay, event, handler, office, push,
                 ledger>>

-----------------------------------------------------------------------------
(* Razorpay and the admins.                                                *)

\* The page opens Checkout for the order a call was answered with, and no other.
\* An order is paid at most once; that its amount is the one captured is for
\* the webhook to check.
Pay(p, t, a) ==
  /\ p \notin DOMAIN payment
  /\ offer[t] # None
  /\ \A q \in DOMAIN payment : payment[q].order # offer[t]
  /\ payment' = Insert(payment, p, [order |-> offer[t], amount |-> a])
  /\ UNCHANGED <<client, refunded, acked, event, handler, office, push, crashes, ledger>>

Refund(p) ==
  /\ p \in DOMAIN payment \ refunded
  /\ refunded' = refunded \cup {p}
  /\ UNCHANGED <<client, payment, acked, event, handler, office, push, crashes, ledger>>

\* Delivered again until answered with success, also while another delivery
\* of it is being handled; signed with the old secret while it is rotated.
Deliver(h, e, valid) ==
  /\ pc[h] = "idle"
  /\ e \notin acked
  /\ PaymentOf(e) \in (IF e[1] = "captured" THEN DOMAIN payment ELSE refunded)
  /\ pc' = [pc EXCEPT ![h] = "find"]
  /\ at' = [at EXCEPT ![h] = e]
  /\ signed' = [signed EXCEPT ![h] = valid]
  /\ UNCHANGED <<client, razorpay, event, seen, fresh, hand, office, push, crashes, ledger>>

\* The bids a recomputed board counts.
Board == {k \in DOMAIN bid : ~bid[k].reversed}

\* redis.publish of board b.  Its SET of the cached board, a step before, is
\* LeaderboardFeed's.
Push(b) ==
  /\ pushed' = b
  /\ owed' = {k \in owed : (k \in b) # (k \in Board)}

-----------------------------------------------------------------------------
(* POST /admin/bids/{id}/reverse.                                          *)

AdminGoto(a, label) == admin' = [admin EXCEPT ![a] = label]

\* reverse_bid; a bid that is reversed already is left as it is, and the call
\* goes on.
ReverseBid(a, k) ==
  /\ admin[a] = "idle"
  /\ k \in DOMAIN bid
  /\ IF bid[k].reversed THEN UNCHANGED <<ledger, push>>
     ELSE /\ Money!Reverse(k)
          /\ owed' = owed \cup {k}
          /\ pushed' = pushed
  /\ target' = [target EXCEPT ![a] = k]
  /\ AdminGoto(a, "audit")
  /\ UNCHANGED <<draft, crashes>>

\* The commit of the admin_actions row, which nothing here reads.
LogRefund(a) ==
  /\ admin[a] = "audit"
  /\ AdminGoto(a, "board")
  /\ UNCHANGED <<target, draft, push, crashes, ledger>>

AdminComputes(a) ==
  /\ admin[a] = "board"
  /\ draft' = [draft EXCEPT ![a] = Board]
  /\ AdminGoto(a, "publish")
  /\ UNCHANGED <<target, push, crashes, ledger>>

AdminEnds(a) ==
  /\ AdminGoto(a, "idle")
  /\ target' = [target EXCEPT ![a] = None]
  /\ draft' = [draft EXCEPT ![a] = {}]

AdminPublishes(a) ==
  /\ admin[a] = "publish"
  /\ Push(draft[a])
  /\ AdminEnds(a)
  /\ UNCHANGED <<crashes, ledger>>

\* Its push is owed no longer: nobody makes up for it.
AdminDies(a) ==
  /\ admin[a] # "idle"
  /\ crashes < MaxCrashes
  /\ crashes' = crashes + 1
  /\ owed' = owed \ {target[a]}
  /\ pushed' = pushed
  /\ AdminEnds(a)
  /\ UNCHANGED ledger

AdminStep(a) ==
  /\ \/ \E k \in Keys : ReverseBid(a, k)
     \/ LogRefund(a) \/ AdminComputes(a) \/ AdminPublishes(a) \/ AdminDies(a)
  /\ UNCHANGED <<client, razorpay, event, handler>>

-----------------------------------------------------------------------------
(* POST /webhooks/razorpay.                                                *)

Goto(h, label) == pc' = [pc EXCEPT ![h] = label]

\* Every end of a handler leaves it free for the next delivery.
Finish(h) ==
  /\ Goto(h, "idle")
  /\ at' = [at EXCEPT ![h] = None]
  /\ signed' = [signed EXCEPT ![h] = FALSE]
  /\ seen' = [seen EXCEPT ![h] = FALSE]
  /\ fresh' = [fresh EXCEPT ![h] = FALSE]
  /\ hand' = [hand EXCEPT ![h] = {}]

\* Variant: an event that is logged is taken for a processed one.
FindEventDuplicate(h) ==
  /\ pc[h] = "find"
  /\ seen' = [seen EXCEPT ![h] = at[h] \in DOMAIN event]
  /\ Goto(h, IF at[h] \in DOMAIN event THEN "dispatch" ELSE "log")
  /\ UNCHANGED <<at, signed, fresh, hand, event, acked, push, ledger>>

FindEvent(h) ==
  /\ pc[h] = "find"
  /\ seen' = [seen EXCEPT ![h] = at[h] \in DOMAIN event /\ event[at[h]]]
  /\ Goto(h, IF at[h] \in DOMAIN event THEN "dispatch" ELSE "log")
  /\ UNCHANGED <<at, signed, fresh, hand, event, acked, push, ledger>>

\* The event is logged in a transaction of its own.  A handler that loses
\* the race for the row fails, and Razorpay comes again.
LogEvent(h) ==
  /\ pc[h] = "log"
  /\ IF at[h] \in DOMAIN event
       THEN /\ Finish(h)
            /\ UNCHANGED event
       ELSE /\ event' = Insert(event, at[h], FALSE)
            /\ Goto(h, "dispatch")
            /\ UNCHANGED <<at, signed, seen, fresh, hand>>
  /\ UNCHANGED <<acked, push, ledger>>

\* Variant: a badly signed event is done with.
RejectSignatureForGood(h) ==
  /\ pc[h] = "dispatch"
  /\ ~signed[h]
  /\ event' = [event EXCEPT ![at[h]] = TRUE]
  /\ Finish(h)
  /\ UNCHANGED <<acked, push, ledger>>

\* The event stays logged; Razorpay comes again.
RejectSignature(h) ==
  /\ pc[h] = "dispatch"
  /\ ~signed[h]
  /\ Finish(h)
  /\ UNCHANGED <<event, acked, push, ledger>>

\* The intents whose order the payment is for.
IntentsOf(p) == {k \in DOMAIN intent : intent[k].order = payment[p].order}

\* A payment to be settled: its intent is known and has its amount.
Fits(p) == \E k \in IntentsOf(p) : intent[k].amount = payment[p].amount

\* Variant: the amount that was captured is not compared.
DispatchAnyAmount(h) ==
  LET settles == at[h][1] = "captured" /\ IntentsOf(PaymentOf(at[h])) # {}
  IN /\ pc[h] = "dispatch"
     /\ signed[h]
     /\ Goto(h, IF seen[h] THEN "answer" ELSE IF settles THEN "settle" ELSE "close")
     /\ UNCHANGED <<at, signed, seen, fresh, hand, event, acked, push, ledger>>

\* Processed events are answered at once; others than captures are ignored,
\* as are payments without an intent or with another amount.
Dispatch(h) ==
  LET settles == at[h][1] = "captured" /\ Fits(PaymentOf(at[h]))
  IN /\ pc[h] = "dispatch"
     /\ signed[h]
     /\ Goto(h, IF seen[h] THEN "answer" ELSE IF settles THEN "settle" ELSE "close")
     /\ UNCHANGED <<at, signed, seen, fresh, hand, event, acked, push, ledger>>

\* accept_bid: the intent's project and amount, whoever settles it first.
Settle(h) ==
  /\ pc[h] = "settle"
  /\ \E k \in IntentsOf(PaymentOf(at[h])) :
       IF k \in DOMAIN bid
         THEN /\ Goto(h, "close")
              /\ UNCHANGED <<ledger, fresh, owed>>
         ELSE /\ Money!Settle(k, intent[k].project, intent[k].amount)
              /\ fresh' = [fresh EXCEPT ![h] = TRUE]
              /\ owed' = owed \cup {k}
              /\ Goto(h, "refresh")
  /\ UNCHANGED <<at, signed, seen, hand, event, acked, pushed>>

\* The end of accept_bid: the session keeps the columns of the bid's project as
\* they are now, through the commits that follow.
RefreshProject(h) ==
  /\ pc[h] = "refresh"
  /\ \E k \in IntentsOf(PaymentOf(at[h])) :
       hand' = [hand EXCEPT ![h] = {l \in Board : bid[l].project = bid[k].project}]
  /\ Goto(h, "close")
  /\ UNCHANGED <<at, signed, seen, fresh, event, acked, push, ledger>>

\* Variant: only the first handler to close the event goes on to the push.
CloseEventFirst(h) ==
  /\ pc[h] = "close"
  /\ event' = [event EXCEPT ![at[h]] = TRUE]
  /\ Goto(h, IF fresh[h] /\ ~event[at[h]] THEN "board" ELSE "answer")
  /\ UNCHANGED <<at, signed, seen, fresh, hand, acked, push, ledger>>

CloseEvent(h) ==
  /\ pc[h] = "close"
  /\ event' = [event EXCEPT ![at[h]] = TRUE]
  /\ Goto(h, IF fresh[h] THEN "board" ELSE "answer")
  /\ UNCHANGED <<at, signed, seen, fresh, hand, acked, push, ledger>>

\* _compute_leaderboard: the other projects are read now.
ComputeBoard(h) ==
  /\ pc[h] = "board"
  /\ \E k \in IntentsOf(PaymentOf(at[h])) :
       hand' = [hand EXCEPT ![h] = @ \cup {l \in Board : bid[l].project # bid[k].project}]
  /\ Goto(h, "publish")
  /\ UNCHANGED <<at, signed, seen, fresh, event, acked, push, ledger>>

\* An older board than one that others pushed meanwhile, perhaps.
Publish(h) ==
  /\ pc[h] = "publish"
  /\ Push(hand[h])
  /\ Goto(h, "answer")
  /\ UNCHANGED <<at, signed, seen, fresh, hand, event, acked, ledger>>

Answer(h) ==
  /\ pc[h] = "answer"
  /\ acked' = acked \cup {at[h]}
  /\ Finish(h)
  /\ UNCHANGED <<event, push, ledger>>

HandlerStep(h) ==
  /\ \/ FindEvent(h) \/ LogEvent(h) \/ RejectSignature(h) \/ Dispatch(h)
     \/ Settle(h) \/ RefreshProject(h) \/ CloseEvent(h) \/ ComputeBoard(h)
     \/ Publish(h) \/ Answer(h)
  /\ UNCHANGED <<client, payment, refunded, office, crashes>>

\* What h has settled; if it was reversed since, the push is the admin's to make.
Settled(h) == IF fresh[h] THEN IntentsOf(PaymentOf(at[h])) \cap Board ELSE {}

\* The process dies, Redis or the database refuses, or the answer is lost.  Its
\* push is owed no longer: the next delivery finds the bid and does not push.
HandlerDies(h) ==
  /\ pc[h] # "idle"
  /\ crashes < MaxCrashes
  /\ crashes' = crashes + 1
  /\ owed' = owed \ Settled(h)
  /\ pushed' = pushed
  /\ Finish(h)
  /\ UNCHANGED <<client, razorpay, event, office, ledger>>

-----------------------------------------------------------------------------
Next ==
  \/ \E t \in Tries : TryStep(t) \/ TryDies(t)
  \/ \E p \in Payments, t \in Tries, a \in Amounts : Pay(p, t, a)
  \/ \E p \in Payments : Refund(p)
  \/ \E h \in Handlers : HandlerStep(h) \/ HandlerDies(h)
  \/ \E h \in Handlers, e \in Events, valid \in BOOLEAN : Deliver(h, e, valid)
  \/ \E a \in Admins : AdminStep(a)

Spec == Init /\ [][Next]_vars

\* Handlers run to their end, and Razorpay goes on delivering a capture that
\* was not answered, signed as it should be from some time on; customers
\* need not pay and no process need die.
FairSpec ==
  /\ Spec
  /\ \A h \in Handlers : WF_vars(HandlerStep(h))
  /\ \A p \in Payments :
       SF_vars(\E h \in Handlers : Deliver(h, <<"captured", p>>, TRUE))

-----------------------------------------------------------------------------
(* Properties.                                                             *)

\* Every variable has its type; an intent's order is one Razorpay made.
TypeOK ==
  /\ req \in [Tries -> UNION {Workload[t] : t \in Tries}]
  /\ step \in [Tries -> {"read", "insert", "answered", "refused", "died"}]
  /\ DOMAIN order \subseteq Tries /\ order \in [DOMAIN order -> Amounts]
  /\ DOMAIN intent \subseteq Keys
  /\ intent \in [DOMAIN intent ->
                   [project : Projects, amount : Amounts, order : DOMAIN order]]
  /\ offer \in [Tries -> DOMAIN order \cup {None}]
  /\ DOMAIN payment \subseteq Payments
  /\ payment \in [DOMAIN payment -> [order : DOMAIN order, amount : Amounts]]
  /\ refunded \subseteq DOMAIN payment
  /\ DOMAIN event \subseteq Events /\ event \in [DOMAIN event -> BOOLEAN]
  /\ acked \subseteq DOMAIN event
  /\ pc \in [Handlers -> {"idle", "find", "log", "dispatch", "settle", "refresh",
                          "close", "board", "publish", "answer"}]
  /\ at \in [Handlers -> Events \cup {None}]
  /\ {signed, seen, fresh} \subseteq [Handlers -> BOOLEAN]
  /\ DOMAIN bid \subseteq DOMAIN intent
  /\ bid \in [DOMAIN bid ->
                [project : Projects, amount : Amounts, reversed : BOOLEAN]]
  /\ hand \in [Handlers -> SUBSET DOMAIN bid]
  /\ admin \in [Admins -> {"idle", "audit", "board", "publish"}]
  /\ target \in [Admins -> DOMAIN bid \cup {None}]
  /\ draft \in [Admins -> SUBSET DOMAIN bid]
  /\ pushed \subseteq DOMAIN bid /\ owed \subseteq DOMAIN bid
  /\ crashes \in 0 .. MaxCrashes

\* Razorpay stops delivering a capture, or a handler would answer it at once
\* as already processed, only when its payment is on the ledger, whichever
\* handlers ran for it and died (docs/03, at-least-once delivery).
ProcessedMeansSettled ==
  \A e \in DOMAIN event :
    e[1] = "captured" /\ (e \in acked \/ event[e]) /\ Fits(PaymentOf(e)) =>
      IntentsOf(PaymentOf(e)) \subseteq DOMAIN bid

\* Nobody pays for an order that no intent knows: a client that lost the
\* race for its key is sent to the order of the call that won it.
PaymentsHaveAnIntent ==
  \A p \in DOMAIN payment : Cardinality(IntentsOf(p)) = 1

\* Every bid is paid for, by a capture of exactly its amount, and no payment
\* pays for two bids.
BidsArePaidFor ==
  \A k \in DOMAIN bid :
    Cardinality({p \in DOMAIN payment :
                   k \in IntentsOf(p) /\ bid[k].amount = payment[p].amount}) = 1

\* A payment of an intent's amount gets on the ledger in the end, through
\* lost handlers, failed transactions and badly signed deliveries.
PaidGetsSettled ==
  \A p \in Payments :
    (p \in DOMAIN payment /\ Fits(p))
      ~> (p \in DOMAIN payment /\ IntentsOf(p) \subseteq DOMAIN bid)

Quiet == (\A h \in Handlers : pc[h] = "idle") /\ (\A a \in Admins : admin[a] = "idle")

\* Every settlement and every refund has been on some pushed board by the time
\* all is quiet, whichever handlers overlapped on its event; only the request
\* that made it can withhold its push, by dying (publish_leaderboard_update's
\* docstring).
PostingsArePushed == Quiet => owed = {}
=============================================================================
