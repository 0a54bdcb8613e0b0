----------------------------- MODULE MCWatchNotify -----------------------------
(* Small instance of WatchNotify for TLC: x and y watch, y in a group that may be
   full, and one queue listens to two types. *)
EXTENDS WatchNotify, TLC

CONSTANTS x, y, q, g, h, t, u

GroupsOf == x :> g @@ y :> h
Wishes == {<<x, t>>, <<y, t>>, <<q, t>>, <<q, u>>}
=============================================================================
