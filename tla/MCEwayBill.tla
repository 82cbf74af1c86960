------------------------------ MODULE MCEwayBill ------------------------------
(* Instances of EwayBill for TLC.                                              *)
EXTENDS EwayBill, TLC

Interchangeable == Permutations(Request)
=============================================================================
