---------------------------- MODULE MCDispatchOrder ----------------------------
(* Instances of DispatchOrder for TLC: every style comes in every size.  Orders *)
(* are interchangeable and so are factories: nothing compares or chooses them.  *)
EXTENDS DispatchOrder, TLC

AllSizes == [s \in Style |-> Size]

Interchangeable == Permutations(Order) \cup Permutations(Factory)
=============================================================================
