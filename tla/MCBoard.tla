-------------------------------- MODULE MCBoard --------------------------------
(***************************************************************************)
(* Small instances of Board: the calls of MCBidLedger and one reader.      *)
(***************************************************************************)
EXTENDS Board, MCBidLedger
=============================================================================
