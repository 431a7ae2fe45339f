--------------------------- MODULE MCLeaderboardFeed ---------------------------
(***************************************************************************)
(* A small instance of LeaderboardFeed: one tick stands for the slowest    *)
(* request, for the TTL of the cache and for the interval of the poll.      *)
(***************************************************************************)
EXTENDS LeaderboardFeed

CONSTANTS w1, v1
=============================================================================
