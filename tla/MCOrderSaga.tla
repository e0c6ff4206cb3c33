---------------------------- MODULE MCOrderSaga ----------------------------
(***************************************************************************)
(* Instances of OrderSaga for TLC.                                         *)
(***************************************************************************)
EXTENDS OrderSaga

CONSTANTS w1, w2, o1
=============================================================================
