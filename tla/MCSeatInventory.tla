-------------------------- MODULE MCSeatInventory --------------------------
(***************************************************************************)
(* Instances of SeatInventory for TLC: a reservation for each user.        *)
(***************************************************************************)
EXTENDS SeatInventory, TLC

CONSTANTS h1, h2, c1, s1, s2, ua, ub, r1, r2

OneEach == [r \in ResIds |-> IF r = r1 THEN ua ELSE ub]

(* Handlers are interchangeable, and so are seats.                         *)
FullSymmetry == Permutations(Handlers) \cup Permutations(Seats)
=============================================================================
