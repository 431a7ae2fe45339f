----------------------------- MODULE MCRateLimit -----------------------------
(***************************************************************************)
(* A small instance of RateLimit: one-time codes for two phones behind one *)
(* address, and two requests at once for the first of them.                *)
(***************************************************************************)
EXTENDS RateLimit, TLC

CONSTANTS phone1, phone2, address, r1, r2, r3

Limits  == phone1 :> 1 @@ phone2 :> 1 @@ address :> 2
Windows == phone1 :> 2 @@ phone2 :> 2 @@ address :> 2
Routes  == r1 :> <<phone1, address>> @@ r2 :> <<phone1, address>>
           @@ r3 :> <<phone2, address>>
=============================================================================
