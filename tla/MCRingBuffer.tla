----------------------------- MODULE MCRingBuffer -----------------------------
(* Small instances of RingBuffer: every batch of up to three values. *)
EXTENDS RingBuffer, Bitwise

CONSTANTS v1, v2

UpToThree == UNION {[1 .. n -> Values] : n \in 0 .. 3}

(* What the model writes as % is what the code computes with its mask. *)
ASSUME MaskIsModulo ==
  \A n \in Sizes : \A i \in 0 .. 4 * n : (i & (n - 1)) = i % n
=============================================================================
