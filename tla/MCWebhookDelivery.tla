------------------------- MODULE MCWebhookDelivery -------------------------
(***************************************************************************)
(* A small instance of WebhookDelivery: two calls of /payments/intent, a   *)
(* payment at Razorpay, two handlers at once and an admin.                 *)
(***************************************************************************)
EXTENDS WebhookDelivery, TLC

CONSTANTS t1, t2, k1, k2, w1, w2

Try(w, k, a) == [project |-> w, key |-> k, amount |-> a]

\* The second call reuses the first one's key for another body, or is another
\* customer's.
TwoTries == t1 :> {Try(w1, k1, 1)} @@ t2 :> {Try(w2, k1, 2), Try(w1, k2, 2)}
=============================================================================
