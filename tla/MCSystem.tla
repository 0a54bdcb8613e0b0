------------------------------- MODULE MCSystem -------------------------------
(* Small instances of System for TLC.  In both v sends to actors in both groups;
   in the first also to one of a type without a creator.  In the second the type
   of slot 1 has none, w fills the mailbox of slot 0, which belongs to the second
   group, and u has no target. *)
EXTENDS System, TLC

CONSTANTS a, b, c, d, u, v, w

Recipients == u :> {} @@ v :> {0, 1} @@ w :> {0}
Symmetry == Permutations({a, b})
ToThree == v :> {0, 1, 2}
Once == v :> 1
Sends == u :> 1 @@ v :> 1 @@ w :> 2
=============================================================================
