---------------------------- MODULE MCAdmission ----------------------------
(***************************************************************************)
(* Instances of Admission for TLC.                                         *)
(***************************************************************************)
EXTENDS Admission

CONSTANTS k1, k2, p1, g1, g2, ua, ub, uc, o1, o2

MCQuantity == [o \in Orders |-> IF o = o1 THEN 2 ELSE 1]
MCBuyer == [o \in Orders |-> ua]
MCTopic == <<o2, o1>>
=============================================================================
