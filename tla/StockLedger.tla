----------------------------- MODULE StockLedger -----------------------------
(***************************************************************************)
(* What pooled reservation promises: the stock of a pool is what final     *)
(* inspection released into it, an order takes all it asks for or nothing, *)
(* an idempotency key yields one order at most, and what is taken never    *)
(* exceeds what was released.                                              *)
(***************************************************************************)
EXTENDS Integers

CONSTANTS
    Pool,           \* one factory's stock of one style and size each
    Key,            \* idempotency keys
    Demands         \* the demands an order may make

VARIABLES
    released,       \* pieces ever released into each pool
    taken,          \* pieces of each pool held by orders
    fulfilled       \* the keys that have yielded an order

ledger == <<released, taken, fulfilled>>

LedgerTypeOK ==
    /\ released \in [Pool -> Nat] /\ taken \in [Pool -> Nat]
    /\ fulfilled \subseteq Key

LedgerInit ==
    /\ released = [p \in Pool |-> 0]
    /\ taken = [p \in Pool |-> 0]
    /\ fulfilled = {}

\* a pool grows
AddStock ==
    /\ \E p \in Pool :
          /\ released'[p] > released[p]
          /\ released' = [released EXCEPT ![p] = released'[p]]
    /\ UNCHANGED <<taken, fulfilled>>

\* an order takes all it demands
Reserve ==
    \E k \in Key \ fulfilled, demand \in Demands :
       /\ \A p \in Pool : taken[p] + demand[p] <= released[p]
       /\ taken' = [p \in Pool |-> taken[p] + demand[p]]
       /\ fulfilled' = fulfilled \cup {k}
       /\ UNCHANGED released

\* an order gives pieces of one pool up
GiveBack ==
    /\ \E p \in Pool :
          /\ taken'[p] >= 0 /\ taken'[p] < taken[p]
          /\ taken' = [taken EXCEPT ![p] = taken'[p]]
    /\ UNCHANGED <<released, fulfilled>>

LedgerNext == AddStock \/ Reserve \/ GiveBack

LedgerSpec == LedgerInit /\ [][LedgerNext]_ledger
=============================================================================
