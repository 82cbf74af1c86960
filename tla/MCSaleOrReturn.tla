--------------------------- MODULE MCSaleOrReturn ---------------------------
(* Instances of SaleOrReturn for TLC.                                        *)
EXTENDS SaleOrReturn, TLC
=============================================================================
