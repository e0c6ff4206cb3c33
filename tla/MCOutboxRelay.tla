--------------------------- MODULE MCOutboxRelay ---------------------------
(***************************************************************************)
(* Instances of OutboxRelay for TLC: row 2 is of one entity, the others of *)
(* another.                                                                *)
(***************************************************************************)
EXTENDS OutboxRelay

CONSTANTS p1, p2

MCKey == [r \in 1..N |-> IF r = 2 THEN "b" ELSE "a"]
=============================================================================
