--------------------------- MODULE MCRefreshSession ---------------------------
(* Instances of RefreshSession for TLC: requests are interchangeable. *)
EXTENDS RefreshSession, TLC

Interchangeable == Permutations(Request)
=============================================================================
