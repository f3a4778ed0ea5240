---------------------------- MODULE MCKiteOffer ----------------------------
(* Values for the constants of KiteOffer. *)
EXTENDS KiteOffer

CONSTANTS o1, o2, c1, c2
=============================================================================
