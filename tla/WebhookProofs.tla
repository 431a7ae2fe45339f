---------------------------- MODULE WebhookProofs ----------------------------
(***************************************************************************)
(* Proofs about WebhookDelivery for any number of calls, payments,         *)
(* handlers and crashes.  Intents and payments stay as they are, a payment *)
(* has one intent from the moment it is made, and what a handler has       *)
(* learnt of its event is therefore still so whenever it goes on.          *)
(***************************************************************************)
EXTENDS WebhookDelivery, FiniteSetTheorems, TLAPS

\* An order belongs to one intent, made by the call that was answered with it;
\* a payment is of such an order, and an order is paid once.
OrdersInv ==
  /\ \A t \in Tries : step[t] = "insert" => t \in DOMAIN order
  /\ \A k \in DOMAIN intent : step[intent[k].order] = "answered"
  /\ \A k, l \in DOMAIN intent : intent[k].order = intent[l].order => k = l
  /\ \A t \in Tries :
       offer[t] # None => \E k \in DOMAIN intent : intent[k].order = offer[t]
  /\ \A p \in DOMAIN payment : IntentsOf(p) # {}
  /\ \A p, q \in DOMAIN payment : payment[p].order = payment[q].order => p = q

\* What an event asks for has been done.
OnLedger(e) ==
  e[1] = "captured" /\ Fits(PaymentOf(e)) => IntentsOf(PaymentOf(e)) \subseteq DOMAIN bid

\* What a handler relies on at each of its steps.
HandlerOK(h) ==
  /\ pc[h] # "idle" => at[h] \in Events /\ PaymentOf(at[h]) \in DOMAIN payment
  /\ pc[h] \notin {"idle", "find", "log"} => at[h] \in DOMAIN event
  /\ pc[h] = "log" => ~seen[h]
  /\ pc[h] = "dispatch" /\ seen[h] => event[at[h]]
  /\ pc[h] = "settle" => at[h][1] = "captured" /\ Fits(PaymentOf(at[h]))
  /\ pc[h] \in {"refresh", "close", "board", "publish", "answer"} => OnLedger(at[h])
  /\ fresh[h] => /\ pc[h] \in {"refresh", "close", "board", "publish", "answer"}
                 /\ IntentsOf(PaymentOf(at[h])) \subseteq DOMAIN bid
HandlersInv == \A h \in Handlers : HandlerOK(h)

\* An event that is closed or answered is done.
EventsInv ==
  \A e \in DOMAIN event :
    /\ PaymentOf(e) \in DOMAIN payment
    /\ e \in acked \/ event[e] => OnLedger(e)

\* A bid has its intent's amount, and that was paid.
BidsInv ==
  \A k \in DOMAIN bid :
    /\ bid[k].amount = intent[k].amount
    /\ \E p \in DOMAIN payment : k \in IntentsOf(p) /\ payment[p].amount = intent[k].amount

\* h has settled k, and the board it pushes will show it.
PushedBy(h, k) ==
  /\ fresh[h] /\ k \in IntentsOf(PaymentOf(at[h]))
  /\ pc[h] \in {"refresh", "close", "board", "publish"}
  /\ pc[h] # "refresh" => k \in hand[h]

\* a has been asked to reverse k, and the board it pushes will be without it.
WithdrawnBy(a, k) ==
  /\ target[a] = k
  /\ admin[a] \in {"audit", "board"} \/ (admin[a] = "publish" /\ k \notin draft[a])

\* The push that is owed is on its way: of a bid that counts by the handler that
\* made it, of a reversed one by an admin.
OwedInv ==
  \A k \in owed :
    IF bid[k].reversed THEN \E a \in Admins : WithdrawnBy(a, k)
                       ELSE \E h \in Handlers : PushedBy(h, k)

DeliveryInv == TypeOK /\ OrdersInv /\ HandlersInv /\ EventsInv /\ BidsInv /\ OwedInv

-----------------------------------------------------------------------------
(* Tables grow.                                                            *)

\* A table after Insert has what it had, and the new row if the key was free.
LEMMA InsertFacts ==
  ASSUME NEW f, NEW x, NEW v
  PROVE  /\ DOMAIN Insert(f, x, v) = DOMAIN f \cup {x}
         /\ \A y \in DOMAIN f : Insert(f, x, v)[y] = f[y]
         /\ x \notin DOMAIN f => Insert(f, x, v)[x] = v
         /\ \A S : f \in [DOMAIN f -> S] /\ v \in S =>
              Insert(f, x, v) \in [DOMAIN f \cup {x} -> S]
BY DEF Insert

\* No step changes or removes an intent, a payment or a bid's amount.
Grows ==
  /\ \A k \in DOMAIN intent : k \in DOMAIN intent' /\ intent'[k] = intent[k]
  /\ \A p \in DOMAIN payment : p \in DOMAIN payment' /\ payment'[p] = payment[p]
  /\ \A k \in DOMAIN bid : k \in DOMAIN bid' /\ bid'[k].amount = bid[k].amount
  /\ \A e \in DOMAIN event : e \in DOMAIN event' /\ (event[e] => event'[e])

\* An admin's call leaves the ledger alone, or reverses a bid.
LEMMA AdminOnLedger ==
  ASSUME NEW a \in Admins, AdminStep(a)
  PROVE  \/ UNCHANGED ledger
         \/ \E k \in DOMAIN bid : bid' = [bid EXCEPT ![k].reversed = TRUE]
<1>1. ASSUME NEW k \in Keys, ReverseBid(a, k)
      PROVE  UNCHANGED ledger \/ (k \in DOMAIN bid /\ bid' = [bid EXCEPT ![k].reversed = TRUE])
  BY <1>1 DEF ReverseBid, Money!Reverse
<1>2. CASE LogRefund(a) \/ AdminComputes(a) \/ AdminPublishes(a) \/ AdminDies(a)
  BY <1>2 DEF LogRefund, AdminComputes, AdminPublishes, AdminDies, ledger
<1> QED BY <1>1, <1>2 DEF AdminStep

\* No step takes a row out of a table, or rewrites one but to close an event or
\* reverse a bid.
LEMMA TablesGrow ==
  ASSUME TypeOK, [Next]_vars
  PROVE  Grows
<1>1. ASSUME NEW t \in Tries, TryStep(t) PROVE Grows
  BY <1>1 DEF TryStep, AnswerExisting, Refuse, CreateOrder, CommitIntent, Grows,
     Insert, razorpay, ledger
<1>2. ASSUME NEW p \in Payments, NEW t \in Tries, NEW a \in Amounts, Pay(p, t, a)
      PROVE  Grows
  BY <1>2 DEF Pay, Grows, Insert, client, ledger
<1>3. ASSUME NEW a \in Admins, AdminStep(a) PROVE Grows
  <2>1. /\ UNCHANGED <<intent, payment, event>>
        /\ bid' = bid \/ \E k \in DOMAIN bid : bid' = [bid EXCEPT ![k].reversed = TRUE]
    BY <1>3, AdminOnLedger DEF AdminStep, client, razorpay, ledger
  <2>2. \A x \in DOMAIN bid :
          bid[x] \in [project : Projects, amount : Amounts, reversed : BOOLEAN]
    BY DEF TypeOK
  <2> QED BY <2>1, <2>2 DEF Grows
<1>4. ASSUME NEW h \in Handlers, HandlerStep(h) PROVE Grows
  <2>1. UNCHANGED <<intent, payment>>
    BY <1>4 DEF HandlerStep, client
  <2>2. \A k \in DOMAIN bid : k \in DOMAIN bid' /\ bid'[k].amount = bid[k].amount
    BY <1>4 DEF HandlerStep, FindEvent, LogEvent, RejectSignature, Dispatch, Settle,
       RefreshProject, CloseEvent, ComputeBoard, Publish, Answer, ledger,
       Money!Settle, Money!Insert
  <2>3. \A e \in DOMAIN event : e \in DOMAIN event' /\ (event[e] => event'[e])
    <3>1. CASE LogEvent(h)
      BY <3>1 DEF LogEvent, Insert
    <3>2. CASE CloseEvent(h)
      <4>1. event' = [event EXCEPT ![at[h]] = TRUE]
        BY <3>2 DEF CloseEvent
      <4> QED BY <4>1
    <3>3. CASE ~LogEvent(h) /\ ~CloseEvent(h)
      BY <1>4, <3>3 DEF HandlerStep, FindEvent, RejectSignature, Dispatch, Settle,
         RefreshProject, ComputeBoard, Publish, Answer
    <3> QED BY <3>1, <3>2, <3>3
  <2> QED BY <2>1, <2>2, <2>3 DEF Grows
<1>5. ASSUME \/ \E t \in Tries : TryDies(t)
             \/ \E p \in Payments : Refund(p)
             \/ \E h \in Handlers : HandlerDies(h)
             \/ \E h \in Handlers, e \in Events, valid \in BOOLEAN : Deliver(h, e, valid)
             \/ UNCHANGED vars
      PROVE  Grows
  BY <1>5 DEF TryDies, Refund, HandlerDies, Deliver, vars, client, razorpay, ledger,
     Grows
<1> QED BY <1>1, <1>2, <1>3, <1>4, <1>5 DEF Next

-----------------------------------------------------------------------------
(* Types.                                                                  *)

IntentRow(orders) == [project : Projects, amount : Amounts, order : orders]
PaymentRow(orders) == [order : orders, amount : Amounts]
BidRow == [project : Projects, amount : Amounts, reversed : BOOLEAN]

\* A client's call makes orders and intents of its own request.
LEMMA TryKeepsTypes ==
  ASSUME TypeOK, OrdersInv, NEW t \in Tries, TryStep(t)
  PROVE  TypeOK'
<1>1. UNCHANGED <<req, payment, refunded, acked, event, pc, at, signed, seen, fresh,
                  hand, admin, target, draft, pushed, owed, crashes, bid>>
  BY DEF TryStep, AnswerExisting, Refuse, CreateOrder, CommitIntent, razorpay,
     handler, office, push, ledger
<1>2. req[t] \in [project : Projects, key : Keys, amount : Amounts]
  BY PartsAssumption DEF TypeOK
<1>3. step' \in [Tries -> {"read", "insert", "answered", "refused", "died"}]
  BY DEF TryStep, AnswerExisting, Refuse, CreateOrder, CommitIntent, TryGoto, TypeOK
<1>4. CASE AnswerExisting(t) \/ Refuse(t)
  <2>1. UNCHANGED <<order, intent>>
    BY <1>4 DEF AnswerExisting, Refuse
  <2>2. offer' \in [Tries -> DOMAIN order \cup {None}]
    BY <1>4 DEF AnswerExisting, Refuse, TypeOK
  <2> QED BY <1>1, <1>3, <2>1, <2>2 DEF TypeOK
<1>5. CASE CreateOrder(t)
  <2>1. order' = Insert(order, t, req[t].amount) /\ UNCHANGED <<intent, offer>>
    BY <1>5 DEF CreateOrder
  <2>2. DOMAIN order' = DOMAIN order \cup {t} /\ order' \in [DOMAIN order' -> Amounts]
    BY <1>2, <2>1 DEF Insert, TypeOK
  <2>3. intent' \in [DOMAIN intent' -> IntentRow(DOMAIN order')]
    BY <2>1, <2>2 DEF TypeOK, IntentRow
  <2>4. payment' \in [DOMAIN payment' -> PaymentRow(DOMAIN order')]
    BY <1>1, <2>2 DEF TypeOK, PaymentRow
  <2>5. offer' \in [Tries -> DOMAIN order' \cup {None}]
    BY <2>1, <2>2 DEF TypeOK
  <2> QED
    BY <1>1, <1>3, <2>1, <2>2, <2>3, <2>4, <2>5 DEF TypeOK, IntentRow, PaymentRow
<1>6. CASE CommitIntent(t)
  <2> DEFINE k == req[t].key
             r == [project |-> req[t].project, amount |-> req[t].amount, order |-> t]
  <2>1. intent' = Insert(intent, k, r) /\ offer' = [offer EXCEPT ![t] = intent'[k].order]
        /\ order' = order /\ step[t] = "insert"
    BY <1>6 DEF CommitIntent
  <2>2. k \in Keys /\ r \in IntentRow(DOMAIN order)
    BY <1>2, <2>1 DEF OrdersInv, IntentRow
  <2> HIDE DEF k, r
  <2>3. /\ DOMAIN intent' = DOMAIN intent \cup {k}
        /\ intent' \in [DOMAIN intent' -> IntentRow(DOMAIN order)]
    BY <2>1, <2>2 DEF Insert, TypeOK, IntentRow
  <2>4. intent'[k].order \in DOMAIN order
    BY <2>3 DEF IntentRow
  <2>5. offer' \in [Tries -> DOMAIN order \cup {None}]
    BY <2>1, <2>4 DEF TypeOK
  <2>6. DOMAIN intent' \subseteq Keys /\ DOMAIN bid' \subseteq DOMAIN intent'
    BY <1>1, <2>2, <2>3 DEF TypeOK
  <2> QED BY <1>1, <1>3, <2>1, <2>3, <2>5, <2>6 DEF TypeOK, IntentRow
<1> QED BY <1>4, <1>5, <1>6 DEF TryStep

\* What Razorpay, the customers and the admins do.
LEMMA WorldKeepsTypes ==
  ASSUME TypeOK,
         \/ \E t \in Tries : TryDies(t)
         \/ \E p \in Payments, t \in Tries, a \in Amounts : Pay(p, t, a)
         \/ \E p \in Payments : Refund(p)
         \/ \E a \in Admins : AdminStep(a)
  PROVE  TypeOK'
<1>1. ASSUME NEW t \in Tries, TryDies(t) PROVE TypeOK'
  BY <1>1, PartsAssumption DEF TryDies, TryGoto, TypeOK, razorpay, handler,
     office, push, ledger
<1>2. ASSUME NEW p \in Payments, NEW t \in Tries, NEW a \in Amounts, Pay(p, t, a)
      PROVE  TypeOK'
  <2>1. UNCHANGED <<req, step, order, intent, offer, refunded, acked, event, pc, at, signed,
                    seen, fresh, hand, admin, target, draft, pushed, owed, crashes, bid>>
    BY <1>2 DEF Pay, client, handler, office, push, ledger
  <2>2. /\ payment' = Insert(payment, p, [order |-> offer[t], amount |-> a])
        /\ offer[t] \in DOMAIN order
    BY <1>2 DEF Pay, TypeOK
  <2>3. /\ DOMAIN payment' = DOMAIN payment \cup {p}
        /\ payment' \in [DOMAIN payment' -> PaymentRow(DOMAIN order)]
    BY <2>2 DEF Insert, TypeOK, PaymentRow
  <2> QED BY <2>1, <2>3 DEF TypeOK, PaymentRow
<1>3. ASSUME NEW p \in Payments, Refund(p) PROVE TypeOK'
  BY <1>3 DEF Refund, TypeOK, client, handler, office, push, ledger
<1>4. ASSUME NEW a \in Admins, AdminStep(a) PROVE TypeOK'
  <2>1. UNCHANGED <<req, step, order, intent, offer, payment, refunded, acked, event,
                    pc, at, signed, seen, fresh, hand>>
    BY <1>4 DEF AdminStep, client, razorpay, handler
  <2>2. DOMAIN bid' = DOMAIN bid /\ bid' \in [DOMAIN bid' -> BidRow]
    <3>1. CASE UNCHANGED ledger
      BY <3>1 DEF ledger, TypeOK, BidRow
    <3>2. CASE \E k \in DOMAIN bid : bid' = [bid EXCEPT ![k].reversed = TRUE]
      <4>1. PICK k \in DOMAIN bid : bid' = [bid EXCEPT ![k].reversed = TRUE]
        BY <3>2
      <4>2. bid \in [DOMAIN bid -> BidRow]
        BY DEF TypeOK, BidRow
      <4>3. [bid[k] EXCEPT !.reversed = TRUE] \in BidRow
        BY <4>2 DEF BidRow
      <4>4. bid' \in [DOMAIN bid -> BidRow]
        BY <4>1, <4>2, <4>3
      <4> QED BY <4>1, <4>4
    <3> QED BY <1>4, <3>1, <3>2, AdminOnLedger
  <2>3. admin' \in [Admins -> {"idle", "audit", "board", "publish"}]
    BY <1>4 DEF AdminStep, ReverseBid, LogRefund, AdminComputes, AdminPublishes,
       AdminDies, AdminEnds, AdminGoto, TypeOK
  <2>4. target' \in [Admins -> DOMAIN bid \cup {None}]
    BY <1>4 DEF AdminStep, ReverseBid, LogRefund, AdminComputes, AdminPublishes,
       AdminDies, AdminEnds, TypeOK
  <2>5. draft' \in [Admins -> SUBSET DOMAIN bid]
    BY <1>4 DEF AdminStep, ReverseBid, LogRefund, AdminComputes, AdminPublishes,
       AdminDies, AdminEnds, Board, TypeOK
  <2>6. pushed' \subseteq DOMAIN bid /\ owed' \subseteq DOMAIN bid
    BY <1>4 DEF AdminStep, ReverseBid, LogRefund, AdminComputes, AdminPublishes,
       AdminDies, Push, push, TypeOK
  <2>7. crashes' \in 0 .. MaxCrashes
    BY <1>4, PartsAssumption DEF AdminStep, ReverseBid, LogRefund, AdminComputes,
       AdminPublishes, AdminDies, TypeOK
  <2> QED BY <2>1, <2>2, <2>3, <2>4, <2>5, <2>6, <2>7 DEF TypeOK, BidRow
<1> QED BY <1>1, <1>2, <1>3, <1>4

\* What a handler does.
LEMMA HandlerKeepsTypes ==
  ASSUME TypeOK, HandlersInv, NEW h \in Handlers,
         \/ HandlerStep(h) \/ HandlerDies(h)
         \/ \E e \in Events, valid \in BOOLEAN : Deliver(h, e, valid)
  PROVE  TypeOK'
<1>1. /\ UNCHANGED <<req, step, order, intent, offer, payment, refunded, admin, target,
                      draft>>
      /\ crashes' \in 0 .. MaxCrashes
  BY PartsAssumption DEF HandlerStep, HandlerDies, Deliver, client, razorpay, office,
     TypeOK
<1>2. /\ pc' \in [Handlers -> {"idle", "find", "log", "dispatch", "settle", "refresh",
                               "close", "board", "publish", "answer"}]
      /\ at' \in [Handlers -> Events \cup {None}]
  <2>1. pc' \in [Handlers -> {"idle", "find", "log", "dispatch", "settle", "refresh",
                              "close", "board", "publish", "answer"}]
    BY DEF HandlerStep, FindEvent, LogEvent, RejectSignature, Dispatch, Settle,
       RefreshProject, CloseEvent, ComputeBoard, Publish, Answer, HandlerDies,
       Deliver, Finish, Goto, TypeOK
  <2>2. \/ at' = at \/ at' = [at EXCEPT ![h] = None]
        \/ \E e \in Events : at' = [at EXCEPT ![h] = e]
    BY DEF HandlerStep, FindEvent, LogEvent, RejectSignature, Dispatch, Settle,
       RefreshProject, CloseEvent, ComputeBoard, Publish, Answer, HandlerDies,
       Deliver, Finish
  <2>3. at' \in [Handlers -> Events \cup {None}]
    BY <2>2 DEF TypeOK
  <2> QED BY <2>1, <2>3
<1>3. {signed, seen, fresh}' \subseteq [Handlers -> BOOLEAN]
  <2>1. signed' \in [Handlers -> BOOLEAN]
    BY DEF HandlerStep, FindEvent, LogEvent, RejectSignature, Dispatch, Settle,
       RefreshProject, CloseEvent, ComputeBoard, Publish, Answer, HandlerDies,
       Deliver, Finish, TypeOK
  <2>2. seen' \in [Handlers -> BOOLEAN]
    BY DEF HandlerStep, FindEvent, LogEvent, RejectSignature, Dispatch, Settle,
       RefreshProject, CloseEvent, ComputeBoard, Publish, Answer, HandlerDies,
       Deliver, Finish, TypeOK
  <2>3. fresh' \in [Handlers -> BOOLEAN]
    BY DEF HandlerStep, FindEvent, LogEvent, RejectSignature, Dispatch, Settle,
       RefreshProject, CloseEvent, ComputeBoard, Publish, Answer, HandlerDies,
       Deliver, Finish, TypeOK
  <2> QED BY <2>1, <2>2, <2>3
<1>4. /\ DOMAIN event' \subseteq Events /\ event' \in [DOMAIN event' -> BOOLEAN]
      /\ acked' \subseteq DOMAIN event'
  <2>1. CASE LogEvent(h)
    <3>1. at[h] \in Events /\ acked' = acked
      BY <2>1 DEF LogEvent, HandlersInv, HandlerOK
    <3>2. event' = event \/ event' = Insert(event, at[h], FALSE)
      BY <2>1 DEF LogEvent
    <3>3. /\ DOMAIN event \subseteq DOMAIN event' /\ DOMAIN event' \subseteq Events
          /\ event' \in [DOMAIN event' -> BOOLEAN]
      BY <3>1, <3>2 DEF Insert, TypeOK
    <3> QED BY <3>1, <3>3 DEF TypeOK
  <2>2. CASE CloseEvent(h)
    BY <2>2 DEF CloseEvent, TypeOK
  <2>3. CASE ~LogEvent(h) /\ ~CloseEvent(h)
    BY <2>3 DEF HandlerStep, FindEvent, RejectSignature, Dispatch, Settle,
       RefreshProject, ComputeBoard, Publish, Answer, HandlerDies, Deliver,
       HandlersInv, HandlerOK, TypeOK, razorpay
  <2> QED BY <2>1, <2>2, <2>3
<1>5. DOMAIN bid' \subseteq DOMAIN intent' /\ bid' \in [DOMAIN bid' -> BidRow]
  <2>1. CASE bid' = bid
    BY <1>1, <2>1 DEF TypeOK, BidRow
  <2>2. CASE bid' # bid
    <3>1. PICK k \in DOMAIN intent : Money!Settle(k, intent[k].project, intent[k].amount)
      BY <2>2 DEF HandlerStep, FindEvent, LogEvent, RejectSignature, Dispatch, Settle,
         RefreshProject, CloseEvent, ComputeBoard, Publish, Answer, HandlerDies,
         Deliver, ledger, IntentsOf
    <3>2. intent[k].project \in Projects /\ intent[k].amount \in Amounts
      BY DEF TypeOK
    <3>3. DOMAIN bid' = DOMAIN bid \cup {k} /\ bid' \in [DOMAIN bid' -> BidRow]
      BY <3>1, <3>2 DEF Money!Settle, Money!Insert, TypeOK, BidRow
    <3> QED BY <1>1, <3>3 DEF TypeOK
  <2> QED BY <2>1, <2>2
<1>6. DOMAIN bid \subseteq DOMAIN bid'
  BY DEF HandlerStep, FindEvent, LogEvent, RejectSignature, Dispatch, Settle,
     RefreshProject, CloseEvent, ComputeBoard, Publish, Answer, HandlerDies, Deliver,
     ledger, Money!Settle, Money!Insert
<1>7. hand' \in [Handlers -> SUBSET DOMAIN bid']
  <2>1. CASE hand' = hand
    BY <1>6, <2>1 DEF TypeOK
  <2>2. CASE hand' # hand
    <3>1. \/ RefreshProject(h) \/ ComputeBoard(h) \/ hand' = [hand EXCEPT ![h] = {}]
      BY <2>2 DEF HandlerStep, FindEvent, LogEvent, RejectSignature, Dispatch, Settle,
         CloseEvent, Publish, Answer, HandlerDies, Deliver, Finish
    <3>2. hand' \in [Handlers -> SUBSET DOMAIN bid]
      BY <3>1 DEF RefreshProject, ComputeBoard, Board, TypeOK
    <3> QED BY <1>6, <3>2
  <2> QED BY <2>1, <2>2
<1>8. pushed' \subseteq DOMAIN bid' /\ owed' \subseteq DOMAIN bid'
  <2>1. CASE Settle(h)
    BY <1>6, <2>1 DEF Settle, Money!Settle, Money!Insert, TypeOK
  <2>2. CASE ~Settle(h)
    <3>1. pushed' \subseteq DOMAIN bid /\ owed' \subseteq DOMAIN bid
      BY <2>2 DEF HandlerStep, FindEvent, LogEvent, RejectSignature, Dispatch,
         RefreshProject, CloseEvent, ComputeBoard, Publish, Answer, HandlerDies,
         Deliver, Push, push, TypeOK
    <3> QED BY <1>6, <3>1
  <2> QED BY <2>1, <2>2
<1>9. target' \in [Admins -> DOMAIN bid' \cup {None}] /\ draft' \in [Admins -> SUBSET DOMAIN bid']
  BY <1>1, <1>6 DEF TypeOK
<1>10. admin' \in [Admins -> {"idle", "audit", "board", "publish"}]
  BY <1>1 DEF TypeOK
<1> QED
  BY <1>1, <1>2, <1>3, <1>4, <1>5, <1>7, <1>8, <1>9, <1>10 DEF TypeOK, BidRow

\* Every step keeps the types.
LEMMA NextKeepsTypes ==
  ASSUME TypeOK, OrdersInv, HandlersInv, [Next]_vars
  PROVE  TypeOK'
<1>1. CASE UNCHANGED vars
  BY <1>1 DEF vars, client, razorpay, handler, office, push, ledger, TypeOK
<1> QED BY <1>1, TryKeepsTypes, WorldKeepsTypes, HandlerKeepsTypes DEF Next

-----------------------------------------------------------------------------
(* Orders.                                                                 *)

\* Only the call that made an order gives it to an intent, and once.
LEMMA NextKeepsOrders ==
  ASSUME TypeOK, OrdersInv, [Next]_vars
  PROVE  OrdersInv'
<1>1. ASSUME NEW t \in Tries, TryStep(t) \/ TryDies(t) PROVE OrdersInv'
  <2>1. payment' = payment /\ \A x \in Tries \ {t} : step'[x] = step[x]
    <3>1. payment' = payment
      BY <1>1 DEF TryStep, TryDies, razorpay
    <3>2. \E label : TryGoto(t, label)
      BY <1>1 DEF TryStep, TryDies, AnswerExisting, Refuse, CreateOrder, CommitIntent
    <3> QED BY <3>1, <3>2 DEF TryGoto, TypeOK
  <2>2. CASE AnswerExisting(t)
    <3>1. /\ UNCHANGED <<order, intent>> /\ step'[t] = "answered"
          /\ req[t].key \in DOMAIN intent
          /\ offer' = [offer EXCEPT ![t] = intent[req[t].key].order]
      BY <2>2 DEF AnswerExisting, TryGoto, TypeOK
    <3>2. \A x \in Tries : offer'[x] # None => \E k \in DOMAIN intent : intent[k].order = offer'[x]
      BY <3>1 DEF OrdersInv, TypeOK
    <3> QED BY <2>1, <3>1, <3>2 DEF OrdersInv, IntentsOf, TypeOK
  <2>3. CASE Refuse(t) \/ TryDies(t)
    <3>1. /\ UNCHANGED <<order, intent, offer>> /\ step[t] # "answered" /\ step'[t] # "insert"
      BY <2>3 DEF Refuse, TryDies, TryGoto, TypeOK
    <3> QED BY <2>1, <3>1 DEF OrdersInv, IntentsOf, TypeOK
  <2>4. CASE CreateOrder(t)
    <3>1. /\ UNCHANGED <<intent, offer>> /\ step[t] # "answered"
          /\ DOMAIN order' = DOMAIN order \cup {t}
      BY <2>4 DEF CreateOrder, Insert
    <3> QED BY <2>1, <3>1 DEF OrdersInv, IntentsOf, TypeOK
  <2>5. CASE CommitIntent(t)
    <3> DEFINE k == req[t].key
               r == [project |-> req[t].project, amount |-> req[t].amount, order |-> t]
    <3>1. /\ intent' = Insert(intent, k, r) /\ offer' = [offer EXCEPT ![t] = intent'[k].order]
          /\ order' = order /\ step[t] = "insert" /\ step'[t] = "answered" /\ r.order = t
      BY <2>5 DEF CommitIntent, TryGoto, TypeOK
    <3> HIDE DEF k, r
    <3>2. /\ DOMAIN intent' = DOMAIN intent \cup {k}
          /\ \A x \in DOMAIN intent : intent'[x] = intent[x]
          /\ k \notin DOMAIN intent => intent'[k].order = t
      BY <3>1 DEF Insert
    <3>3. \A x \in DOMAIN intent : intent[x].order # t /\ intent[x].order \in Tries
      BY <3>1 DEF OrdersInv, TypeOK
    <3>4. \A x \in DOMAIN intent' : step'[intent'[x].order] = "answered"
      BY <2>1, <3>1, <3>2, <3>3 DEF OrdersInv
    <3>5. \A x, y \in DOMAIN intent' : intent'[x].order = intent'[y].order => x = y
      BY <3>2, <3>3 DEF OrdersInv
    <3>6. \A x \in Tries : offer'[x] # None =>
            \E y \in DOMAIN intent' : intent'[y].order = offer'[x]
      BY <3>1, <3>2 DEF OrdersInv, TypeOK
    <3>7. \A p \in DOMAIN payment : IntentsOf(p)' # {}
      BY <2>1, <3>2 DEF OrdersInv, IntentsOf
    <3> QED BY <2>1, <3>1, <3>4, <3>5, <3>6, <3>7 DEF OrdersInv
  <2> QED BY <1>1, <2>2, <2>3, <2>4, <2>5 DEF TryStep
<1>2. ASSUME NEW p \in Payments, NEW t \in Tries, NEW a \in Amounts, Pay(p, t, a)
      PROVE  OrdersInv'
  <2> DEFINE r == [order |-> offer[t], amount |-> a]
  <2>1. /\ UNCHANGED <<step, order, intent, offer>>
        /\ payment' = Insert(payment, p, r) /\ p \notin DOMAIN payment
        /\ offer[t] # None /\ r.order = offer[t]
        /\ \A q \in DOMAIN payment : payment[q].order # offer[t]
    BY <1>2 DEF Pay, client
  <2> HIDE DEF r
  <2>2. /\ DOMAIN payment' = DOMAIN payment \cup {p}
        /\ payment'[p].order = offer[t]
        /\ \A q \in DOMAIN payment : payment'[q] = payment[q]
    BY <2>1 DEF Insert
  <2>3. \A q \in DOMAIN payment' : IntentsOf(q)' # {}
    BY <2>1, <2>2 DEF OrdersInv, IntentsOf
  <2>4. \A q, x \in DOMAIN payment' : payment'[q].order = payment'[x].order => q = x
    BY <2>1, <2>2 DEF OrdersInv
  <2> QED BY <2>1, <2>3, <2>4 DEF OrdersInv
<1>3. ASSUME UNCHANGED <<step, order, intent, offer, payment>> PROVE OrdersInv'
  BY <1>3 DEF OrdersInv, IntentsOf
<1>4. ASSUME \/ \E p \in Payments : Refund(p)
             \/ \E h \in Handlers : HandlerStep(h) \/ HandlerDies(h)
             \/ \E h \in Handlers, e \in Events, valid \in BOOLEAN : Deliver(h, e, valid)
             \/ \E a \in Admins : AdminStep(a)
             \/ UNCHANGED vars
      PROVE  UNCHANGED <<step, order, intent, offer, payment>>
  BY <1>4 DEF Refund, HandlerStep, HandlerDies, Deliver, AdminStep, vars, client,
     razorpay
<1> QED BY <1>1, <1>2, <1>3, <1>4 DEF Next

\* A payment's intent is the same after every step, and so is whether it fits.
LEMMA IntentsStay ==
  ASSUME OrdersInv, OrdersInv', Grows, NEW p \in DOMAIN payment
  PROVE  /\ p \in DOMAIN payment' /\ IntentsOf(p)' = IntentsOf(p)
         /\ Fits(p)' <=> Fits(p)
         /\ IntentsOf(p) \subseteq DOMAIN bid => IntentsOf(p)' \subseteq DOMAIN bid'
<1>1. PICK k \in DOMAIN intent : intent[k].order = payment[p].order
  BY DEF OrdersInv, IntentsOf
<1>2. /\ p \in DOMAIN payment' /\ payment'[p] = payment[p]
      /\ k \in DOMAIN intent' /\ intent'[k] = intent[k]
  BY <1>1 DEF Grows
<1>3. IntentsOf(p) = {k}
  BY <1>1 DEF OrdersInv, IntentsOf
<1>4. IntentsOf(p)' = {k}
  BY <1>1, <1>2 DEF OrdersInv, IntentsOf
<1>5. Fits(p)' <=> Fits(p)
  BY <1>2, <1>3, <1>4 DEF Fits
<1> QED BY <1>2, <1>3, <1>4, <1>5 DEF Grows

\* What is done stays done.
LEMMA DoneStays ==
  ASSUME OrdersInv, OrdersInv', Grows, NEW e, PaymentOf(e) \in DOMAIN payment
  PROVE  /\ PaymentOf(e) \in DOMAIN payment'
         /\ Fits(PaymentOf(e))' <=> Fits(PaymentOf(e))
         /\ OnLedger(e) => OnLedger(e)'
<1> DEFINE p == PaymentOf(e)
<1>1. /\ p \in DOMAIN payment' /\ IntentsOf(p)' = IntentsOf(p) /\ (Fits(p)' <=> Fits(p))
      /\ IntentsOf(p) \subseteq DOMAIN bid => IntentsOf(p)' \subseteq DOMAIN bid'
  BY IntentsStay
<1> QED BY <1>1 DEF OnLedger

-----------------------------------------------------------------------------
(* Handlers and events.                                                    *)

\* A handler that does nothing itself loses nothing by what others do.
LEMMA OthersKeepHandler ==
  ASSUME TypeOK, OrdersInv, OrdersInv', Grows, NEW h \in Handlers, HandlerOK(h),
         pc'[h] = pc[h], at'[h] = at[h], seen'[h] = seen[h], fresh'[h] = fresh[h]
  PROVE  HandlerOK(h)'
<1>1. CASE pc[h] = "idle"
  BY <1>1 DEF HandlerOK
<1>2. CASE pc[h] # "idle"
  <2>1. PICK e \in Events : at[h] = e /\ PaymentOf(e) \in DOMAIN payment
    BY <1>2 DEF HandlerOK
  <2>2. /\ PaymentOf(e) \in DOMAIN payment'
        /\ Fits(PaymentOf(e))' <=> Fits(PaymentOf(e))
        /\ OnLedger(e) => OnLedger(e)'
        /\ LET s == IntentsOf(PaymentOf(e))
           IN s \subseteq DOMAIN bid => s' \subseteq DOMAIN bid'
    BY <2>1, DoneStays, IntentsStay
  <2>3. at'[h] = e
    BY <2>1
  <2>4. Fits(PaymentOf(at[h]))' <=> Fits(PaymentOf(e))'
    BY <2>3 DEF Fits, IntentsOf
  <2>5. OnLedger(at[h])' <=> OnLedger(e)'
    BY <2>3 DEF OnLedger, Fits, IntentsOf
  <2>6. IntentsOf(PaymentOf(at[h]))' = IntentsOf(PaymentOf(e))'
    BY <2>3 DEF IntentsOf
  <2> QED BY <1>2, <2>1, <2>2, <2>3, <2>4, <2>5, <2>6 DEF HandlerOK, Grows
<1> QED BY <1>1, <1>2

\* A handler that goes on has what its next step relies on.
LEMMA HandlerKeepsOwn ==
  ASSUME TypeOK, OrdersInv, NEW h \in Handlers, HandlerOK(h), EventsInv, HandlerStep(h)
  PROVE  HandlerOK(h)'
<1>1. UNCHANGED <<intent, payment>>
  BY DEF HandlerStep, client
<1>2. pc[h] # "idle"
  BY DEF HandlerStep, FindEvent, LogEvent, RejectSignature, Dispatch, Settle,
     RefreshProject, CloseEvent, ComputeBoard, Publish, Answer
<1>3. PICK e \in Events : at[h] = e /\ PaymentOf(e) \in DOMAIN payment
  BY <1>2 DEF HandlerOK
<1>4. \A p : IntentsOf(p)' = IntentsOf(p) /\ (Fits(p)' <=> Fits(p))
  BY <1>1 DEF IntentsOf, Fits
<1>5. CASE pc'[h] = "idle"
  <2>1. ~fresh'[h]
    BY <1>2, <1>5 DEF HandlerStep, FindEvent, LogEvent, RejectSignature, Dispatch,
       Settle, RefreshProject, CloseEvent, ComputeBoard, Publish, Answer, Finish,
       Goto, TypeOK
  <2> QED BY <1>5, <2>1 DEF HandlerOK
<1>6. CASE pc'[h] # "idle"
  <2>1. at'[h] = e
    BY <1>3, <1>6 DEF HandlerStep, FindEvent, LogEvent, RejectSignature, Dispatch,
       Settle, RefreshProject, CloseEvent, ComputeBoard, Publish, Answer, Finish,
       Goto, TypeOK
  <2> DEFINE next(x, s, f, known, closed, done, there) ==
        /\ x \notin {"idle", "find", "log"} => e \in known
        /\ x = "log" => ~s
        /\ x = "dispatch" /\ s => closed
        /\ x = "settle" => e[1] = "captured" /\ Fits(PaymentOf(e))
        /\ x \in {"refresh", "close", "board", "publish", "answer"} => done
        /\ f => x \in {"refresh", "close", "board", "publish", "answer"} /\ there
        has == IntentsOf(PaymentOf(e)) \subseteq DOMAIN bid
  <2>2. next(pc[h], seen[h], fresh[h], DOMAIN event, event[e], OnLedger(e), has)
    BY <1>3 DEF HandlerOK
  <2>3. (OnLedger(e) => OnLedger(e)') /\ (has => has')
    <3>1. DOMAIN bid \subseteq DOMAIN bid'
      BY DEF HandlerStep, FindEvent, LogEvent, RejectSignature, Dispatch, Settle,
         RefreshProject, CloseEvent, ComputeBoard, Publish, Answer, ledger,
         Money!Settle, Money!Insert
    <3> QED BY <1>4, <3>1 DEF OnLedger
  <2>4. next(pc'[h], seen'[h], fresh'[h], DOMAIN event', event'[e], OnLedger(e)', has')
    <3>1. CASE FindEvent(h)
      <4>1. /\ event' = event /\ seen'[h] = (e \in DOMAIN event /\ event[e])
            /\ pc'[h] = IF e \in DOMAIN event THEN "dispatch" ELSE "log"
            /\ pc[h] = "find" /\ fresh' = fresh
        BY <1>3, <3>1 DEF FindEvent, Goto, TypeOK
      <4> QED BY <2>2, <4>1
    <3>2. CASE LogEvent(h)
      <4>1. e \notin DOMAIN event /\ pc[h] = "log"
        BY <1>3, <1>6, <3>2 DEF LogEvent, Finish, Goto, TypeOK
      <4>2. /\ pc'[h] = "dispatch" /\ seen' = seen /\ event' = Insert(event, e, FALSE)
            /\ fresh' = fresh
        BY <1>3, <3>2, <4>1 DEF LogEvent, Goto, TypeOK
      <4>3. e \in DOMAIN event'
        BY <4>2 DEF Insert
      <4> QED BY <2>2, <4>1, <4>2, <4>3
    <3>3. CASE RejectSignature(h) \/ Answer(h)
      BY <1>6, <3>3 DEF RejectSignature, Answer, Finish, Goto, TypeOK
    <3>4. CASE Dispatch(h)
      <4>1. /\ event' = event /\ pc[h] = "dispatch" /\ fresh' = fresh
            /\ pc'[h] = IF seen[h] THEN "answer"
                        ELSE IF e[1] = "captured" /\ Fits(PaymentOf(e)) THEN "settle"
                        ELSE "close"
        BY <1>3, <3>4 DEF Dispatch, Goto, TypeOK
      <4>2. e \in DOMAIN event
        BY <2>2, <4>1
      <4>3. seen[h] => OnLedger(e)
        BY <2>2, <4>1, <4>2 DEF EventsInv
      <4>4. ~(e[1] = "captured" /\ Fits(PaymentOf(e))) => OnLedger(e)
        BY DEF OnLedger
      <4> QED BY <2>2, <2>3, <4>1, <4>2, <4>3, <4>4
    <3>5. CASE Settle(h)
      <4>1. pc[h] = "settle" /\ pc'[h] \in {"refresh", "close"} /\ event' = event
        BY <3>5 DEF Settle, Goto, TypeOK
      <4>2. PICK k \in IntentsOf(PaymentOf(e)) : k \in DOMAIN bid'
        BY <1>3, <3>5 DEF Settle, ledger, Money!Settle, Money!Insert
      <4>3. IntentsOf(PaymentOf(e)) = {k}
        BY <4>2 DEF IntentsOf, OrdersInv
      <4>4. OnLedger(e)' /\ has'
        BY <1>4, <4>2, <4>3 DEF OnLedger
      <4> QED BY <2>2, <4>1, <4>4
    <3>6. CASE CloseEvent(h)
      <4>1. /\ pc[h] = "close" /\ pc'[h] \in {"board", "answer"}
            /\ DOMAIN event' = DOMAIN event /\ fresh' = fresh
        BY <3>6 DEF CloseEvent, Goto, TypeOK
      <4> QED BY <2>2, <2>3, <4>1
    <3>7. CASE RefreshProject(h) \/ ComputeBoard(h) \/ Publish(h)
      <4>1. /\ pc[h] \in {"refresh", "board", "publish"}
            /\ pc'[h] \in {"close", "publish", "answer"} /\ UNCHANGED <<event, fresh>>
        BY <3>7 DEF RefreshProject, ComputeBoard, Publish, Goto, TypeOK
      <4> QED BY <2>2, <2>3, <4>1
    <3> HIDE DEF next
    <3> QED BY <3>1, <3>2, <3>3, <3>4, <3>5, <3>6, <3>7 DEF HandlerStep
  <2>5. Fits(PaymentOf(at[h]))' <=> Fits(PaymentOf(e))
    BY <1>1, <2>1 DEF Fits, IntentsOf
  <2>6. OnLedger(at[h])' <=> OnLedger(e)'
    BY <2>1 DEF OnLedger, Fits, IntentsOf
  <2>7. IntentsOf(PaymentOf(at[h]))' = IntentsOf(PaymentOf(e))'
    BY <2>1 DEF IntentsOf
  <2> QED BY <1>1, <1>3, <2>1, <2>4, <2>5, <2>6, <2>7 DEF HandlerOK
<1> QED BY <1>5, <1>6

\* Every step keeps what each handler has established at its label.
LEMMA NextKeepsHandlers ==
  ASSUME TypeOK, OrdersInv, OrdersInv', Grows, HandlersInv, EventsInv, [Next]_vars
  PROVE  HandlersInv'
<1>1. ASSUME NEW h \in Handlers, HandlerStep(h) PROVE HandlersInv'
  <2>1. ASSUME NEW x \in Handlers \ {h}
        PROVE  /\ pc'[x] = pc[x] /\ at'[x] = at[x]
               /\ seen'[x] = seen[x] /\ fresh'[x] = fresh[x]
    <3>1. pc'[x] = pc[x]
      BY <1>1 DEF HandlerStep, FindEvent, LogEvent, RejectSignature, Dispatch, Settle,
         RefreshProject, CloseEvent, ComputeBoard, Publish, Answer, Finish, Goto,
         TypeOK
    <3>2. at'[x] = at[x] /\ seen'[x] = seen[x] /\ fresh'[x] = fresh[x]
      BY <1>1 DEF HandlerStep, FindEvent, LogEvent, RejectSignature, Dispatch, Settle,
         RefreshProject, CloseEvent, ComputeBoard, Publish, Answer, Finish, TypeOK
    <3> QED BY <3>1, <3>2
  <2>2. HandlerOK(h)'
    BY <1>1, HandlerKeepsOwn DEF HandlersInv
  <2> QED BY <2>1, <2>2, OthersKeepHandler DEF HandlersInv
<1>2. ASSUME NEW h \in Handlers, HandlerDies(h) PROVE HandlersInv'
  <2>1. /\ pc'[h] = "idle" /\ ~fresh'[h]
        /\ \A x \in Handlers \ {h} :
             /\ pc'[x] = pc[x] /\ at'[x] = at[x]
             /\ seen'[x] = seen[x] /\ fresh'[x] = fresh[x]
    BY <1>2 DEF HandlerDies, Finish, Goto, TypeOK
  <2>2. HandlerOK(h)'
    BY <2>1 DEF HandlerOK
  <2> QED BY <2>1, <2>2, OthersKeepHandler DEF HandlersInv
<1>3. ASSUME NEW h \in Handlers, NEW e \in Events, NEW valid \in BOOLEAN, Deliver(h, e, valid)
      PROVE  HandlersInv'
  <2>1. /\ pc'[h] = "find" /\ at'[h] = e /\ PaymentOf(e) \in DOMAIN payment
        /\ payment' = payment /\ pc[h] = "idle" /\ fresh' = fresh
        /\ \A x \in Handlers \ {h} : pc'[x] = pc[x] /\ at'[x] = at[x] /\ seen'[x] = seen[x]
    BY <1>3 DEF Deliver, TypeOK, razorpay
  <2>2. HandlerOK(h)'
    BY <2>1 DEF HandlersInv, HandlerOK, PaymentOf
  <2> QED BY <2>1, <2>2, OthersKeepHandler DEF HandlersInv
<1>4. ASSUME UNCHANGED <<pc, at, seen, fresh>> PROVE HandlersInv'
  BY <1>4, OthersKeepHandler DEF HandlersInv
<1>5. ASSUME \/ \E t \in Tries : TryStep(t) \/ TryDies(t)
             \/ \E p \in Payments, t \in Tries, a \in Amounts : Pay(p, t, a)
             \/ \E p \in Payments : Refund(p)
             \/ \E a \in Admins : AdminStep(a)
             \/ UNCHANGED vars
      PROVE  UNCHANGED <<pc, at, seen, fresh>>
  BY <1>5 DEF TryStep, TryDies, Pay, Refund, AdminStep, vars, handler
<1> QED BY <1>1, <1>2, <1>3, <1>4, <1>5 DEF Next

\* An event is closed or answered only by a handler that relies on it.
LEMMA NextKeepsEvents ==
  ASSUME TypeOK, OrdersInv, OrdersInv', Grows, HandlersInv, EventsInv, [Next]_vars
  PROVE  EventsInv'
<1>1. ASSUME NEW e \in DOMAIN event, e \in acked' \/ event'[e] => e \in acked \/ event[e]
      PROVE  /\ PaymentOf(e) \in DOMAIN payment'
             /\ e \in acked' \/ event'[e] => OnLedger(e)'
  BY <1>1, DoneStays DEF EventsInv
<1>2. ASSUME NEW h \in Handlers, NEW e \in Events, HandlerStep(h), at[h] = e, pc[h] # "idle"
      PROVE  PaymentOf(e) \in DOMAIN payment' /\ (pc[h] \in {"close", "answer"} => OnLedger(e)')
  BY <1>2, DoneStays DEF HandlersInv, HandlerOK
<1>3. ASSUME NEW h \in Handlers, HandlerStep(h) PROVE EventsInv'
  <2>1. pc[h] # "idle"
    BY <1>3 DEF HandlerStep, FindEvent, LogEvent, RejectSignature, Dispatch, Settle,
       RefreshProject, CloseEvent, ComputeBoard, Publish, Answer
  <2>2. PICK e \in Events : at[h] = e
    BY <2>1 DEF HandlersInv, HandlerOK
  <2>3. PaymentOf(e) \in DOMAIN payment' /\ (pc[h] \in {"close", "answer"} => OnLedger(e)')
    BY <1>2, <1>3, <2>1, <2>2
  <2>4. CASE LogEvent(h)
    <3>1. /\ acked' = acked /\ DOMAIN event' \subseteq DOMAIN event \cup {e}
          /\ \A x \in DOMAIN event : event'[x] = event[x]
          /\ e \notin DOMAIN event => e \notin acked /\ (e \in DOMAIN event' => ~event'[e])
      BY <2>2, <2>4 DEF LogEvent, Insert, TypeOK
    <3> QED BY <1>1, <2>3, <3>1 DEF EventsInv
  <2>5. CASE CloseEvent(h)
    <3>1. /\ acked' = acked /\ DOMAIN event' = DOMAIN event /\ pc[h] = "close"
          /\ \A x \in DOMAIN event \ {e} : event'[x] = event[x]
      BY <2>2, <2>5 DEF CloseEvent, TypeOK
    <3> QED BY <1>1, <2>3, <3>1 DEF EventsInv
  <2>6. CASE Answer(h)
    <3>1. /\ acked' = acked \cup {e} /\ event' = event /\ pc[h] = "answer"
      BY <2>2, <2>6 DEF Answer
    <3> QED BY <1>1, <2>3, <3>1 DEF EventsInv
  <2>7. CASE ~LogEvent(h) /\ ~CloseEvent(h) /\ ~Answer(h)
    <3>1. UNCHANGED <<event, acked>>
      BY <1>3, <2>7 DEF HandlerStep, FindEvent, RejectSignature, Dispatch, Settle,
         RefreshProject, ComputeBoard, Publish
    <3> QED BY <1>1, <3>1 DEF EventsInv
  <2> QED BY <2>4, <2>5, <2>6, <2>7
<1>4. ASSUME UNCHANGED <<event, acked>> PROVE EventsInv'
  BY <1>1, <1>4 DEF EventsInv
<1>5. ASSUME \/ \E t \in Tries : TryStep(t) \/ TryDies(t)
             \/ \E p \in Payments, t \in Tries, a \in Amounts : Pay(p, t, a)
             \/ \E p \in Payments : Refund(p)
             \/ \E a \in Admins : AdminStep(a)
             \/ \E h \in Handlers : HandlerDies(h)
             \/ \E h \in Handlers, e \in Events, valid \in BOOLEAN : Deliver(h, e, valid)
             \/ UNCHANGED vars
      PROVE  UNCHANGED <<event, acked>>
  BY <1>5 DEF TryStep, TryDies, Pay, Refund, AdminStep, HandlerDies, Deliver, vars,
     razorpay
<1> QED BY <1>3, <1>4, <1>5 DEF Next

-----------------------------------------------------------------------------
(* Bids and boards.                                                        *)

\* A handler settles only what was paid in full.
LEMMA NextKeepsBids ==
  ASSUME TypeOK, OrdersInv, OrdersInv', Grows, HandlersInv, BidsInv, [Next]_vars
  PROVE  BidsInv'
<1>1. ASSUME NEW k \in DOMAIN bid
      PROVE  /\ bid'[k].amount = intent'[k].amount
             /\ \E p \in DOMAIN payment' :
                  k \in IntentsOf(p)' /\ payment'[p].amount = intent'[k].amount
  <2>1. k \in DOMAIN intent /\ intent'[k] = intent[k] /\ bid'[k].amount = bid[k].amount
    BY DEF TypeOK, Grows
  <2>2. PICK p \in DOMAIN payment : k \in IntentsOf(p) /\ payment[p].amount = intent[k].amount
    BY DEF BidsInv
  <2>3. p \in DOMAIN payment' /\ payment'[p] = payment[p] /\ k \in IntentsOf(p)'
    BY <2>2, IntentsStay DEF Grows
  <2> QED BY <2>1, <2>2, <2>3 DEF BidsInv
<1>2. ASSUME NEW h \in Handlers, Settle(h), UNCHANGED <<intent, payment>>,
             NEW k \in DOMAIN bid' \ DOMAIN bid
      PROVE  /\ bid'[k].amount = intent'[k].amount
             /\ \E p \in DOMAIN payment' :
                  k \in IntentsOf(p)' /\ payment'[p].amount = intent'[k].amount
  <2> DEFINE p == PaymentOf(at[h])
  <2>1. pc[h] = "settle" /\ p \in DOMAIN payment /\ Fits(p)
    BY <1>2 DEF Settle, HandlersInv, HandlerOK
  <2>2. k \in IntentsOf(p) /\ bid'[k].amount = intent[k].amount
    BY <1>2 DEF Settle, ledger, Money!Settle, Money!Insert
  <2>3. payment[p].amount = intent[k].amount
    BY <2>1, <2>2 DEF Fits, IntentsOf, OrdersInv
  <2>4. \A q : IntentsOf(q)' = IntentsOf(q)
    BY <1>2 DEF IntentsOf
  <2> HIDE DEF p
  <2> QED BY <1>2, <2>1, <2>2, <2>3, <2>4
<1>3. ASSUME NEW h \in Handlers, HandlerStep(h)
      PROVE  UNCHANGED <<intent, payment>> /\ (bid' = bid \/ Settle(h))
  BY <1>3 DEF HandlerStep, FindEvent, LogEvent, RejectSignature, Dispatch,
     RefreshProject, CloseEvent, ComputeBoard, Publish, Answer, client, ledger
<1>4. ASSUME NEW a \in Admins, AdminStep(a) PROVE DOMAIN bid' = DOMAIN bid
  BY <1>4, AdminOnLedger DEF ledger
<1>5. ASSUME \/ \E t \in Tries : TryStep(t) \/ TryDies(t)
             \/ \E p \in Payments, t \in Tries, a \in Amounts : Pay(p, t, a)
             \/ \E p \in Payments : Refund(p)
             \/ \E h \in Handlers : HandlerDies(h)
             \/ \E h \in Handlers, e \in Events, valid \in BOOLEAN : Deliver(h, e, valid)
             \/ UNCHANGED vars
      PROVE  DOMAIN bid' = DOMAIN bid
  BY <1>5 DEF TryStep, TryDies, Pay, Refund, HandlerDies, Deliver, vars, ledger
<1>6. ASSUME DOMAIN bid' = DOMAIN bid PROVE BidsInv'
  BY <1>1, <1>6 DEF BidsInv
<1>7. ASSUME NEW h \in Handlers, HandlerStep(h) PROVE BidsInv'
  <2>1. CASE bid' = bid
    BY <1>6, <2>1
  <2>2. CASE Settle(h)
    BY <1>1, <1>2, <1>3, <1>7, <2>2 DEF BidsInv
  <2> QED BY <1>3, <1>7, <2>1, <2>2
<1> QED BY <1>4, <1>5, <1>6, <1>7 DEF Next

\* A handler that does nothing itself still owes, and makes, its push.
LEMMA OthersKeepPushed ==
  ASSUME OrdersInv, OrdersInv', Grows, NEW h \in Handlers, HandlerOK(h), NEW k,
         PushedBy(h, k), pc'[h] = pc[h], at'[h] = at[h], fresh'[h] = fresh[h],
         hand'[h] = hand[h]
  PROVE  PushedBy(h, k)'
<1>1. PICK e \in Events : at[h] = e /\ PaymentOf(e) \in DOMAIN payment
  BY DEF PushedBy, HandlerOK
<1>2. IntentsOf(PaymentOf(e))' = IntentsOf(PaymentOf(e))
  BY <1>1, IntentsStay
<1>3. IntentsOf(PaymentOf(at[h]))' = IntentsOf(PaymentOf(e))'
  BY <1>1 DEF IntentsOf
<1> QED BY <1>1, <1>2, <1>3 DEF PushedBy

\* What a handler has settled stays in its hand until it is pushed.
LEMMA HandlerKeepsOwed ==
  ASSUME TypeOK, OrdersInv, OrdersInv', Grows, HandlersInv, OwedInv,
         NEW h \in Handlers, HandlerStep(h) \/ HandlerDies(h)
  PROVE  OwedInv'
<1>1. UNCHANGED <<intent, payment, admin, target, draft>>
  BY DEF HandlerStep, HandlerDies, client, razorpay, office
<1>2. ASSUME NEW x \in Handlers \ {h}, NEW k, PushedBy(x, k) PROVE PushedBy(x, k)'
  <2>1. pc'[x] = pc[x] /\ hand'[x] = hand[x]
    BY DEF HandlerStep, FindEvent, LogEvent, RejectSignature, Dispatch, Settle,
       RefreshProject, CloseEvent, ComputeBoard, Publish, Answer, HandlerDies, Finish,
       Goto, TypeOK
  <2>2. at'[x] = at[x] /\ fresh'[x] = fresh[x]
    BY DEF HandlerStep, FindEvent, LogEvent, RejectSignature, Dispatch, Settle,
       RefreshProject, CloseEvent, ComputeBoard, Publish, Answer, HandlerDies, Finish,
       TypeOK
  <2> QED BY <1>2, <2>1, <2>2, OthersKeepPushed DEF HandlersInv
<1>3. \A a \in Admins : \A k : WithdrawnBy(a, k) => WithdrawnBy(a, k)'
  BY <1>1 DEF WithdrawnBy
<1>4. ASSUME NEW k \in owed', k \in owed, bid'[k] = bid[k],
             bid[k].reversed \/ ~PushedBy(h, k) \/ PushedBy(h, k)'
      PROVE  IF bid'[k].reversed THEN \E a \in Admins : WithdrawnBy(a, k)'
                                 ELSE \E x \in Handlers : PushedBy(x, k)'
  BY <1>2, <1>3, <1>4 DEF OwedInv
<1>5. \A k \in owed : k \in DOMAIN bid
  BY DEF TypeOK
<1>6. \A p : IntentsOf(p)' = IntentsOf(p)
  BY <1>1 DEF IntentsOf
<1>7. CASE Settle(h)
  <2>1. PICK k \in IntentsOf(PaymentOf(at[h])) :
          \/ k \in DOMAIN bid /\ UNCHANGED <<ledger, fresh, owed>>
          \/ /\ Money!Settle(k, intent[k].project, intent[k].amount)
             /\ fresh'[h] /\ pc'[h] = "refresh" /\ owed' = owed \cup {k}
    BY <1>7 DEF Settle, Goto, TypeOK
  <2>2. at' = at /\ pc[h] = "settle"
    BY <1>7 DEF Settle
  <2>3. ASSUME NEW l \in owed', l \in owed
        PROVE  IF bid'[l].reversed THEN \E a \in Admins : WithdrawnBy(a, l)'
                                   ELSE \E x \in Handlers : PushedBy(x, l)'
    <3>1. bid'[l] = bid[l]
      BY <1>5, <2>1, <2>3 DEF ledger, Money!Settle, Money!Insert
    <3> QED BY <1>4, <2>2, <2>3, <3>1 DEF PushedBy
  <2>4. ASSUME k \in owed', k \notin owed
        PROVE  ~bid'[k].reversed /\ PushedBy(h, k)'
    <3>1. /\ Money!Settle(k, intent[k].project, intent[k].amount)
          /\ fresh'[h] /\ pc'[h] = "refresh"
      BY <2>1, <2>4
    <3>2. ~bid'[k].reversed
      BY <3>1 DEF Money!Settle, Money!Insert
    <3>3. k \in IntentsOf(PaymentOf(at[h]))'
      BY <1>1, <2>1, <2>2 DEF IntentsOf
    <3> QED BY <3>1, <3>2, <3>3 DEF PushedBy
  <2> QED BY <2>1, <2>3, <2>4 DEF OwedInv
<1>8. CASE RefreshProject(h)
  <2>1. PICK k \in IntentsOf(PaymentOf(at[h])) :
          hand'[h] = {l \in Board : bid[l].project = bid[k].project}
    BY <1>8 DEF RefreshProject, TypeOK
  <2>2. /\ UNCHANGED <<bid, owed, at, fresh>> /\ pc'[h] = "close"
    BY <1>8 DEF RefreshProject, Goto, push, ledger, TypeOK
  <2>3. ASSUME NEW l \in owed, ~bid[l].reversed, PushedBy(h, l) PROVE PushedBy(h, l)'
    <3>1. l = k
      BY <2>1, <2>3 DEF PushedBy, IntentsOf, OrdersInv
    <3>2. l \in hand'[h]
      BY <1>5, <2>1, <2>3, <3>1 DEF Board
    <3>3. l \in IntentsOf(PaymentOf(at[h]))'
      BY <1>1, <2>2, <2>3 DEF PushedBy, IntentsOf
    <3> QED BY <2>2, <2>3, <3>2, <3>3 DEF PushedBy
  <2> QED BY <1>4, <2>2, <2>3 DEF OwedInv
<1>9. CASE CloseEvent(h) \/ ComputeBoard(h)
  <2>1. /\ UNCHANGED <<bid, owed, at, fresh>>
        /\ pc[h] \in {"close", "board"}
        /\ fresh[h] => pc'[h] \in {"board", "publish"} /\ hand[h] \subseteq hand'[h]
    BY <1>9 DEF CloseEvent, ComputeBoard, Goto, push, ledger, TypeOK
  <2>2. ASSUME NEW l \in owed, PushedBy(h, l) PROVE PushedBy(h, l)'
    <3>1. l \in IntentsOf(PaymentOf(at[h]))'
      BY <1>1, <2>1, <2>2 DEF PushedBy, IntentsOf
    <3> QED BY <2>1, <2>2, <3>1 DEF PushedBy
  <2> QED BY <1>4, <2>1, <2>2 DEF OwedInv
<1>10. CASE Publish(h)
  <2>1. /\ bid' = bid /\ owed' = {k \in owed : (k \in hand[h]) # (k \in Board)}
        /\ pc[h] = "publish"
    BY <1>10 DEF Publish, Push, ledger
  <2>2. ASSUME NEW k \in owed', ~bid[k].reversed PROVE ~PushedBy(h, k)
    BY <1>5, <2>1, <2>2 DEF Board, PushedBy
  <2> QED BY <1>4, <2>1, <2>2 DEF OwedInv
<1>11. CASE HandlerDies(h)
  <2>1. bid' = bid /\ owed' = owed \ Settled(h)
    BY <1>11 DEF HandlerDies, ledger
  <2>2. ASSUME NEW k \in owed', ~bid[k].reversed PROVE ~PushedBy(h, k)
    BY <1>5, <2>1, <2>2 DEF Settled, Board, PushedBy
  <2> QED BY <1>4, <2>1, <2>2 DEF OwedInv
<1>12. CASE FindEvent(h) \/ LogEvent(h) \/ RejectSignature(h) \/ Dispatch(h) \/ Answer(h)
  <2>1. UNCHANGED <<bid, owed>> /\ pc[h] \in {"find", "log", "dispatch", "answer"}
    BY <1>12 DEF FindEvent, LogEvent, RejectSignature, Dispatch, Answer, push, ledger
  <2> QED BY <1>4, <2>1 DEF OwedInv, PushedBy
<1> QED BY <1>7, <1>8, <1>9, <1>10, <1>11, <1>12 DEF HandlerStep

\* What an admin's call has reversed is missing on the board that it pushes.
LEMMA AdminKeepsOwed ==
  ASSUME TypeOK, OwedInv, NEW a \in Admins, AdminStep(a)
  PROVE  OwedInv'
<1>1. \A h \in Handlers : \A k : PushedBy(h, k) => PushedBy(h, k)'
  BY DEF AdminStep, client, razorpay, handler, PushedBy, IntentsOf
<1>2. ASSUME NEW b \in Admins \ {a}, NEW k, WithdrawnBy(b, k) PROVE WithdrawnBy(b, k)'
  BY <1>2 DEF AdminStep, ReverseBid, LogRefund, AdminComputes, AdminPublishes,
     AdminDies, AdminEnds, AdminGoto, WithdrawnBy, TypeOK
<1>3. ASSUME NEW k \in owed', k \in owed, bid'[k].reversed <=> bid[k].reversed,
             ~bid[k].reversed \/ ~WithdrawnBy(a, k) \/ WithdrawnBy(a, k)'
      PROVE  IF bid'[k].reversed THEN \E b \in Admins : WithdrawnBy(b, k)'
                                 ELSE \E x \in Handlers : PushedBy(x, k)'
  BY <1>1, <1>2, <1>3 DEF OwedInv
<1>4. \A k \in owed : k \in DOMAIN bid
  BY DEF TypeOK
<1>5. ASSUME NEW k \in Keys, ReverseBid(a, k) PROVE OwedInv'
  <2>1. admin[a] = "idle" /\ admin'[a] = "audit" /\ target'[a] = k /\ k \in DOMAIN bid
    BY <1>5 DEF ReverseBid, AdminGoto, TypeOK
  <2>2. CASE bid[k].reversed
    <3>1. UNCHANGED <<bid, owed>>
      BY <1>5, <2>2 DEF ReverseBid, ledger, push
    <3> QED BY <1>3, <2>1, <3>1 DEF OwedInv, WithdrawnBy
  <2>3. CASE ~bid[k].reversed
    <3>1. owed' = owed \cup {k} /\ bid' = [bid EXCEPT ![k].reversed = TRUE]
      BY <1>5, <2>3 DEF ReverseBid, Money!Reverse
    <3>2. bid'[k].reversed /\ \A l \in DOMAIN bid \ {k} : bid'[l] = bid[l]
      BY <2>1, <3>1 DEF TypeOK
    <3>3. WithdrawnBy(a, k)'
      BY <2>1 DEF WithdrawnBy
    <3>4. ASSUME NEW l \in owed' \ {k}
          PROVE  IF bid'[l].reversed THEN \E b \in Admins : WithdrawnBy(b, l)'
                                     ELSE \E x \in Handlers : PushedBy(x, l)'
      <4>1. l \in owed /\ bid'[l] = bid[l]
        BY <1>4, <3>1, <3>2
      <4> QED BY <1>3, <2>1, <4>1 DEF WithdrawnBy
    <3> QED BY <3>2, <3>3, <3>4 DEF OwedInv
  <2> QED BY <2>2, <2>3
<1>6. CASE LogRefund(a) \/ AdminComputes(a)
  <2>1. /\ UNCHANGED <<bid, owed, target>>
        /\ \/ admin[a] = "audit" /\ admin'[a] = "board"
           \/ admin'[a] = "publish" /\ draft'[a] = Board
    BY <1>6 DEF LogRefund, AdminComputes, AdminGoto, push, ledger, TypeOK
  <2>2. ASSUME NEW k \in owed, bid[k].reversed, WithdrawnBy(a, k) PROVE WithdrawnBy(a, k)'
    BY <2>1, <2>2 DEF WithdrawnBy, Board
  <2> QED BY <1>3, <2>1, <2>2 DEF OwedInv
<1>7. CASE AdminPublishes(a)
  <2>1. /\ bid' = bid /\ owed' = {k \in owed : (k \in draft[a]) # (k \in Board)}
        /\ admin[a] = "publish"
    BY <1>7 DEF AdminPublishes, Push, ledger
  <2>2. ASSUME NEW k \in owed', bid[k].reversed PROVE ~WithdrawnBy(a, k)
    BY <2>1, <2>2 DEF Board, WithdrawnBy
  <2> QED BY <1>3, <2>1, <2>2 DEF OwedInv
<1>8. CASE AdminDies(a)
  <2>1. bid' = bid /\ owed' = owed \ {target[a]}
    BY <1>8 DEF AdminDies, ledger
  <2> QED BY <1>3, <2>1 DEF OwedInv, WithdrawnBy
<1> QED BY <1>5, <1>6, <1>7, <1>8 DEF AdminStep

\* A posting is owed to subscribers until a board that shows it is pushed, and the
\* request that made it is at work until then.
LEMMA NextKeepsOwed ==
  ASSUME TypeOK, OrdersInv, OrdersInv', Grows, HandlersInv, OwedInv, [Next]_vars
  PROVE  OwedInv'
<1>1. ASSUME UNCHANGED <<bid, owed, admin, target, draft, at, fresh, hand>>,
             \A h \in Handlers : pc'[h] = pc[h] \/ pc[h] = "idle"
      PROVE  OwedInv'
  <2>1. \A a \in Admins : \A k : WithdrawnBy(a, k) => WithdrawnBy(a, k)'
    BY <1>1 DEF WithdrawnBy
  <2>2. \A h \in Handlers : \A k : PushedBy(h, k) => PushedBy(h, k)'
    <3>1. ASSUME NEW h \in Handlers, NEW k, PushedBy(h, k) PROVE PushedBy(h, k)'
      <4>1. pc'[h] = pc[h]
        BY <1>1, <3>1 DEF PushedBy
      <4> QED BY <1>1, <3>1, <4>1, OthersKeepPushed DEF HandlersInv
    <3> QED BY <3>1
  <2> QED BY <1>1, <2>1, <2>2 DEF OwedInv
<1>2. ASSUME NEW h \in Handlers, NEW e \in Events, NEW valid \in BOOLEAN, Deliver(h, e, valid)
      PROVE  OwedInv'
  <2>1. /\ UNCHANGED <<bid, owed, admin, target, draft, fresh, hand, intent, payment>>
        /\ pc[h] = "idle"
        /\ \A x \in Handlers \ {h} : pc'[x] = pc[x] /\ at'[x] = at[x]
    BY <1>2 DEF Deliver, TypeOK, client, razorpay, office, push, ledger
  <2>2. \A a \in Admins : \A k : WithdrawnBy(a, k) => WithdrawnBy(a, k)'
    BY <2>1 DEF WithdrawnBy
  <2>3. ASSUME NEW x \in Handlers, NEW k, PushedBy(x, k) PROVE PushedBy(x, k)'
    <3>1. pc'[x] = pc[x] /\ at'[x] = at[x]
      BY <2>1, <2>3 DEF PushedBy
    <3> QED BY <2>1, <2>3, <3>1, OthersKeepPushed DEF HandlersInv
  <2> QED BY <2>1, <2>2, <2>3 DEF OwedInv
<1>3. ASSUME \/ \E t \in Tries : TryStep(t) \/ TryDies(t)
             \/ \E p \in Payments, t \in Tries, a \in Amounts : Pay(p, t, a)
             \/ \E p \in Payments : Refund(p)
             \/ UNCHANGED vars
      PROVE  UNCHANGED <<bid, owed, admin, target, draft, at, fresh, hand, pc>>
  BY <1>3 DEF TryStep, TryDies, Pay, Refund, vars, handler, office, push, ledger
<1>4. ASSUME NEW h \in Handlers, HandlerStep(h) \/ HandlerDies(h) PROVE OwedInv'
  BY <1>4, HandlerKeepsOwed
<1>5. ASSUME NEW a \in Admins, AdminStep(a) PROVE OwedInv'
  BY <1>5, AdminKeepsOwed
<1> QED BY <1>1, <1>2, <1>3, <1>4, <1>5 DEF Next
-----------------------------------------------------------------------------
(* The theorems.                                                           *)

\* At the start there are no orders, events or bids.
LEMMA InitHasDelivery == Init => DeliveryInv
<1>1. Init => TypeOK
  BY PartsAssumption DEF Init, TypeOK, Money!Init
<1>2. Init => OrdersInv /\ HandlersInv /\ EventsInv /\ BidsInv /\ OwedInv
  BY DEF Init, OrdersInv, HandlersInv, HandlerOK, EventsInv, BidsInv, OwedInv, Board,
     Money!Init
<1> QED BY <1>1, <1>2 DEF DeliveryInv

\* Every step keeps DeliveryInv.
LEMMA NextKeepsDelivery ==
  ASSUME DeliveryInv, [Next]_vars
  PROVE  DeliveryInv'
<1>1. TypeOK' /\ OrdersInv' /\ Grows
  BY NextKeepsTypes, NextKeepsOrders, TablesGrow DEF DeliveryInv
<1> QED
  BY <1>1, NextKeepsHandlers, NextKeepsEvents, NextKeepsBids, NextKeepsOwed DEF
     DeliveryInv

\* Types, and all that calls and handlers rely on, for any number of both and
\* any number of crashes.
THEOREM DeliveryIsSound == Spec => [](DeliveryInv /\ TypeOK)
<1>1. DeliveryInv => TypeOK
  BY DEF DeliveryInv
<1> QED BY <1>1, InitHasDelivery, NextKeepsDelivery, PTL DEF Spec

\* Razorpay stops delivering a capture that fits its intent only when the bid
\* is on the ledger.
THEOREM ProcessedIsSettled == Spec => []ProcessedMeansSettled
<1>1. DeliveryInv => ProcessedMeansSettled
  BY DEF DeliveryInv, EventsInv, OnLedger, ProcessedMeansSettled
<1> QED BY <1>1, DeliveryIsSound, PTL

\* Whatever calls of /payments/intent race for a key, nobody pays for an order
\* that has no intent.
THEOREM PaymentsFindTheirIntent == Spec => []PaymentsHaveAnIntent
<1>1. ASSUME DeliveryInv PROVE PaymentsHaveAnIntent
  <2>1. ASSUME NEW p \in DOMAIN payment PROVE Cardinality(IntentsOf(p)) = 1
    <3>1. PICK k : k \in IntentsOf(p)
      BY <1>1 DEF DeliveryInv, OrdersInv
    <3>2. \A x \in IntentsOf(p) : x = k
      BY <1>1, <3>1 DEF DeliveryInv, OrdersInv, IntentsOf
    <3>3. IntentsOf(p) = {k}
      BY <3>1, <3>2
    <3> QED BY <3>3, FS_Singleton
  <2> QED BY <2>1 DEF PaymentsHaveAnIntent
<1> QED BY <1>1, DeliveryIsSound, PTL

\* Every bid is paid for, exactly and once, whichever handlers made it.
THEOREM BidsArePaid == Spec => []BidsArePaidFor
<1>1. ASSUME DeliveryInv PROVE BidsArePaidFor
  <2>1. ASSUME NEW k \in DOMAIN bid
        PROVE  Cardinality({p \in DOMAIN payment :
                              k \in IntentsOf(p) /\ bid[k].amount = payment[p].amount}) = 1
    <3> DEFINE S == {p \in DOMAIN payment :
                       k \in IntentsOf(p) /\ bid[k].amount = payment[p].amount}
    <3>1. PICK p : p \in S
      BY <1>1 DEF DeliveryInv, BidsInv
    <3>2. \A q \in S : q = p
      BY <1>1, <3>1 DEF DeliveryInv, OrdersInv, IntentsOf
    <3>3. S = {p}
      BY <3>1, <3>2
    <3> HIDE DEF S
    <3>4. Cardinality(S) = 1
      BY <3>3, FS_Singleton
    <3> QED BY <3>4 DEF S
  <2> QED BY <2>1 DEF BidsArePaidFor
<1> QED BY <1>1, DeliveryIsSound, PTL

\* Whatever handlers and admins run at once, a settlement or a refund whose request
\* lived has been on a pushed board by the time all of them are idle.
THEOREM PostingsReachSubscribers == Spec => []PostingsArePushed
<1>1. ASSUME DeliveryInv PROVE PostingsArePushed
  BY <1>1 DEF DeliveryInv, OwedInv, PushedBy, WithdrawnBy, Quiet, PostingsArePushed
<1> QED BY <1>1, DeliveryIsSound, PTL
=============================================================================
