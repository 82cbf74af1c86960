----------------------------- MODULE MCTaxInvoice -----------------------------
(* Instances of TaxInvoice for TLC.                                            *)
EXTENDS TaxInvoice, TLC

Interchangeable == Permutations(Issuer) \cup Permutations(List)
=============================================================================
