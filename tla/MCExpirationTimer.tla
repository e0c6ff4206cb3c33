------------------------- MODULE MCExpirationTimer -------------------------
(***************************************************************************)
(* Instances of ExpirationTimer for TLC.                                   *)
(***************************************************************************)
EXTENDS ExpirationTimer

CONSTANTS w1, w2, o1
=============================================================================
