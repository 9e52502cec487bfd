---------------------------- MODULE MCLeaseQueue ----------------------------
(* Model values for checking LeaseQueue with TLC.                          *)
EXTENDS LeaseQueue

CONSTANTS r1, r2, r3, w1, w2
=============================================================================
