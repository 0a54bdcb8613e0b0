------------------------------- MODULE MCQueue -------------------------------
(* Small instance of Queue. *)
EXTENDS Queue, TLC

CONSTANTS p1, p2, c1, c2, c3
=============================================================================
