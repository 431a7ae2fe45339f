------------------------------ MODULE MCSessions ------------------------------
(***************************************************************************)
(* Small instances of Sessions: two tabs of one browser, two calls.        *)
(***************************************************************************)
EXTENDS Sessions, TLC

CONSTANTS b1, b2, c1, c2

TwoTabs == c1 :> b1 @@ c2 :> b2
OneTab  == c1 :> b1 @@ c2 :> b1
=============================================================================
