--------------------------- MODULE MCCartonDelivery ---------------------------
(* Instances of CartonDelivery for TLC.                                        *)
EXTENDS CartonDelivery, TLC

Interchangeable == Permutations(Desk) \cup Permutations(Person)
=============================================================================
