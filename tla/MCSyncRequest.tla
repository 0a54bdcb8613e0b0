---------------------------- MODULE MCSyncRequest ----------------------------
(* Small instances of SyncRequest for TLC. *)
EXTENDS SyncRequest, TLC

CONSTANTS a, b, c

OneCall == {<<a, b>>}
Chain == {<<a, b>>, <<b, c>>}
=============================================================================
