--------------------------- MODULE MCTicketQuota ---------------------------
(***************************************************************************)
(* Instances of TicketQuota for TLC: the reservations of one user.         *)
(***************************************************************************)
EXTENDS TicketQuota, TLC

CONSTANTS h1, h2, c1, c2, r1, r2, ua

OneUser == [r \in ResIds |-> ua]

(* Handlers are interchangeable, and so are reservations of one user.      *)
FullSymmetry == Permutations(Handlers) \cup Permutations(ResIds)
=============================================================================
