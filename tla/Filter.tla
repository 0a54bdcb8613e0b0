------------------------------- MODULE Filter -------------------------------
(***************************************************************************)
(* The elements of a sequence that belong to a set, in their order: what   *)
(* SelectSeq gives for the test "x \in S", with the set as an argument and *)
(* the recursion in a function, so that its laws can be proved.            *)
(***************************************************************************)
EXTENDS Integers, Sequences

(* Prefixes(q, S)[i]: what is left of the first i elements of q. *)
Prefixes(q, S) ==
  LET f[i \in 0 .. Len(q)] ==
        IF i = 0 THEN <<>>
        ELSE IF q[i] \in S THEN Append(f[i - 1], q[i]) ELSE f[i - 1]
  IN  f

Filter(q, S) == Prefixes(q, S)[Len(q)]
=============================================================================
