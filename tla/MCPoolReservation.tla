-------------------------- MODULE MCPoolReservation --------------------------
(* Instances of PoolReservation for TLC: bodies that ask for a piece of one  *)
(* pool, of the other, or of both.                                           *)
EXTENDS PoolReservation, TLC

Asks == [both |-> {1, 2}, first |-> {1}, second |-> {2}]

OnePieceEach == [b \in Body |-> [p \in Pool |-> IF p \in Asks[b] THEN 1 ELSE 0]]
=============================================================================
