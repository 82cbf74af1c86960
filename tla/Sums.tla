--------------------------------- MODULE Sums ---------------------------------
(***************************************************************************)
(* Totals: the sum of a function over a finite set of its arguments.       *)
(***************************************************************************)
EXTENDS Integers, FiniteSetsExt

Sum(f, S) == MapThenSumSet(LAMBDA x : f[x], S)
=============================================================================
