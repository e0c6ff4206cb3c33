---------------------------- MODULE SeatLedger ----------------------------
(***************************************************************************)
(* What the venue-service promises about the seats of one plan.            *)
(*                                                                         *)
(* A seat has at most one holder: a user who holds it for a while, or the  *)
(* reservation it is booked for.  A reservation books all of its seats or  *)
(* none, is booked once, and is then either sold or returned, once.  A     *)
(* booked seat is nobody else's until its own reservation is returned, and *)
(* a sold seat is its reservation's for ever.                              *)
(***************************************************************************)
CONSTANTS Seats, Users, ResIds, Nobody

VARIABLES
    holder,         \* who holds each seat
    booking         \* none, booked, returned or sold

vars == <<holder, booking>>

Given(S, who) == holder' = [s \in Seats |-> IF s \in S THEN who ELSE holder[s]]
Booked(S) == \E s \in S : holder[s] \in ResIds

Init ==
    /\ holder = [s \in Seats |-> Nobody]
    /\ booking = [r \in ResIds |-> "none"]

Hold(u, S) == ~Booked(S) /\ Given(S, u) /\ UNCHANGED booking

(* Released by its holder, or run out.                                     *)
Unhold(S) == ~Booked(S) /\ Given(S, Nobody) /\ UNCHANGED booking

Book(r, S) ==
    /\ booking[r] = "none"
    /\ ~Booked(S)
    /\ Given(S, r)
    /\ booking' = [booking EXCEPT ![r] = "booked"]

Return(R) ==
    /\ \A r \in R : booking[r] = "booked"
    /\ Given({s \in Seats : holder[s] \in R}, Nobody)
    /\ booking' = [r \in ResIds |-> IF r \in R THEN "returned" ELSE booking[r]]

Sell(r) ==
    /\ booking[r] = "booked"
    /\ booking' = [booking EXCEPT ![r] = "sold"]
    /\ UNCHANGED holder

Next ==
    \/ \E S \in SUBSET Seats :
          \/ \E u \in Users : Hold(u, S)
          \/ \E r \in ResIds : Book(r, S)
          \/ Unhold(S)
    \/ \E R \in SUBSET ResIds : Return(R)
    \/ \E r \in ResIds : Sell(r)

Spec == Init /\ [][Next]_vars
=============================================================================
