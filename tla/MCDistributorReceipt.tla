------------------------- MODULE MCDistributorReceipt -------------------------
(* Instances of DistributorReceipt for TLC: two lines of one style and size    *)
(* and one line of another.                                                    *)
EXTENDS DistributorReceipt, TLC

TwoGroups == [l \in Line |-> IF l = "c" THEN "h" ELSE "g"]

Pieces == [l \in Line |-> IF l = "a" THEN 2 ELSE 1]

Interchangeable == Permutations(User)
=============================================================================
