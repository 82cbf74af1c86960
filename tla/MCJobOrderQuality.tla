--------------------------- MODULE MCJobOrderQuality ---------------------------
EXTENDS JobOrderQuality, TLC

\* batches and requests are interchangeable
Symmetry == Permutations(Batch) \cup Permutations(Request)
=============================================================================
