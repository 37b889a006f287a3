----------------------------- MODULE MCDelivery -----------------------------
(* Small instances of Delivery for TLC.                                    *)
EXTENDS Delivery

CONSTANTS t1, w1, w2, a1, a2, r1, r2
=============================================================================
