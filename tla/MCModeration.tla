----------------------------- MODULE MCModeration -----------------------------
(***************************************************************************)
(* A small instance of Moderation: two listings of one RERA number, two    *)
(* claimants of the first, a dispute over it, one account to be erased.    *)
(***************************************************************************)
EXTENDS Moderation, TLC

CONSTANTS p1, p2, n1, u1, u2, k1, k2, d1, r1, x, y

OneNumber == p1 :> n1 @@ p2 :> n1
BothOfFirst == k1 :> p1 @@ k2 :> p1
EachUser == k1 :> u1 @@ k2 :> u2
FirstProject == d1 :> p1
FirstUser == r1 :> u1
Interchangeable == Permutations(Staff) \cup Permutations(Contacts)
AlikeLogins == Permutations(Contacts) \cup Permutations(Codes) \cup Permutations(Verifiers)
=============================================================================
