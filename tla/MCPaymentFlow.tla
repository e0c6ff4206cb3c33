--------------------------- MODULE MCPaymentFlow ---------------------------
(***************************************************************************)
(* Instances of PaymentFlow for TLC.                                       *)
(***************************************************************************)
EXTENDS PaymentFlow

CONSTANTS h1, h2
=============================================================================
