---------------------------- MODULE MCErvePacking ----------------------------
(* Instances of ErvePacking for TLC: four cartons of two orders.  One goes to  *)
(* a destination linked to no store, two to one store of the distributor and   *)
(* one to the same store on another distributor's account.                     *)
EXTENDS ErvePacking, TLC

In(o, s, d, l) == [order |-> o, store |-> s, distributor |-> d,
                   contents |-> [x \in Line |-> IF x = l THEN 1 ELSE 0]]

OneStore == <<In("o1", "unlinked", "d1", "a"), In("o1", "s1", "d1", "a"),
              In("o1", "s1", "d2", "a"), In("o2", "s1", "d1", "b")>>
=============================================================================
