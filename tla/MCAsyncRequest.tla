---------------------------- MODULE MCAsyncRequest ----------------------------
(* Small instance of AsyncRequest for TLC: a asks, b answers, q calls b. *)
EXTENDS AsyncRequest

CONSTANTS a, b, q

OneCall == {<<a, b>>}
=============================================================================
