--------------------------- MODULE PoolReservation ---------------------------
(***************************************************************************)
(* createDispatchOrder, statement by statement, under READ COMMITTED: the  *)
(* advisory locks it takes, the reads it plans from, the commit, and the   *)
(* ways a request ends without one.  Clients repeat a request whose answer *)
(* they did not get under the same idempotency key, as another attempt.    *)
(*                                                                         *)
(* A pool's release lines are added up here; DispatchOrder.tla has the     *)
(* planner that walks them.                                                *)
(***************************************************************************)
EXTENDS Integers, FiniteSets

CONSTANTS
    Attempt,        \* HTTP requests
    Key,            \* an actor's idempotency keys
    Body,           \* request bodies, told apart by their hash
    Pool,           \* Style+Size pools of the factory; the order is that of
                    \* the sorted pool keys
    Demand,         \* [Body -> [Pool -> Nat]], what a body asks of each pool
    MaxStock,       \* bound on the pieces released into a pool
    NoAttempt

VARIABLES
    released,       \* committed: pieces released into each pool
    taken,          \* committed: sum of the pool's ACTIVE StockAllocation rows
    record,         \* committed: SaleOrderIdempotencyRecord, key -> attempt
    serial,         \* committed: DocumentSequence.lastAllocatedSerial
    keyLock, poolLock, sequenceLock,    \* pg_advisory_xact_lock holders
    pc, request,    \* per attempt: where it is, and its key and body
    seen,           \* per attempt: the available pieces it read, by pool
    number          \* per attempt: the serial it was given

database        == <<released, taken, record, serial>>
locks           == <<keyLock, poolLock, sequenceLock>>
session         == <<pc, request, seen, number>>
reservationVars == <<database, locks, session>>

Unread == -1

\* what an attempt's request holds until it is sent
Unsent == [key |-> CHOOSE k \in Key : TRUE, body |-> CHOOSE b \in Body : TRUE]

InTransaction == {"opened", "keyed", "locking", "reading", "numbering", "writing"}
Settled       == {"created", "replayed", "refused", "failed"}
Holder        == Attempt \cup {NoAttempt}

ASSUME PoolAssumption ==
    /\ Pool \subseteq Nat
    /\ Demand \in [Body -> [Pool -> Nat]]
    /\ \A b \in Body : \E p \in Pool : Demand[b][p] > 0
    /\ Key # {} /\ Body # {} /\ NoAttempt \notin Attempt
    /\ MaxStock \in Nat

ReservationTypeOK ==
    /\ released \in [Pool -> Nat] /\ taken \in [Pool -> Nat]
    /\ record \in [Key -> Holder] /\ serial \in Nat
    /\ keyLock \in [Key -> Holder] /\ poolLock \in [Pool -> Holder]
    /\ sequenceLock \in Holder
    /\ pc \in [Attempt -> {"idle"} \cup InTransaction \cup Settled]
    /\ request \in [Attempt -> [key: Key, body: Body]]
    /\ seen \in [Attempt -> [Pool -> Int]]
    /\ number \in [Attempt -> Nat]

-----------------------------------------------------------------------------
(* A create request *)

KeyOf(a)     == request[a].key
Wants(a, p)  == Demand[request[a].body][p]
Needs(a)     == {p \in Pool : Wants(a, p) > 0}
Unlocked(a)  == {p \in Needs(a) : poolLock[p] # a}
LeftIn(p) == released[p] - taken[p]

\* the end of a transaction frees its advisory locks and drops its locals
Finish(a, outcome) ==
    /\ pc' = [pc EXCEPT ![a] = outcome]
    /\ keyLock' = [k \in Key |-> IF keyLock[k] = a THEN NoAttempt ELSE keyLock[k]]
    /\ poolLock' = [p \in Pool |-> IF poolLock[p] = a THEN NoAttempt ELSE poolLock[p]]
    /\ sequenceLock' = IF sequenceLock = a THEN NoAttempt ELSE sequenceLock
    /\ seen' = [seen EXCEPT ![a] = [p \in Pool |-> Unread]]
    /\ number' = [number EXCEPT ![a] = IF outcome = "created" THEN @ ELSE 0]
    /\ UNCHANGED request

Advance(a, step) == pc' = [pc EXCEPT ![a] = step]

Send(a, k, b) ==
    /\ pc[a] = "idle"
    /\ Advance(a, "opened")
    /\ request' = [request EXCEPT ![a] = [key |-> k, body |-> b]]
    /\ UNCHANGED <<database, locks, seen, number>>

LockKey_without_waiting(a) ==
    /\ pc[a] = "opened"
    /\ keyLock' = [keyLock EXCEPT ![KeyOf(a)] = a]
    /\ Advance(a, "keyed")
    /\ UNCHANGED <<database, poolLock, sequenceLock, request, seen, number>>

LockKey(a) ==
    /\ pc[a] = "opened"
    /\ keyLock[KeyOf(a)] = NoAttempt
    /\ keyLock' = [keyLock EXCEPT ![KeyOf(a)] = a]
    /\ Advance(a, "keyed")
    /\ UNCHANGED <<database, poolLock, sequenceLock, request, seen, number>>

FindRecord(a) ==
    /\ pc[a] = "keyed"
    /\ record[KeyOf(a)] = NoAttempt
    /\ Advance(a, "locking")
    /\ UNCHANGED <<database, locks, request, seen, number>>

\* the answer of the first request is repeated, to a request with its body only
Replay(a) ==
    LET first == record[KeyOf(a)]
    IN  /\ pc[a] = "keyed" /\ first # NoAttempt
        /\ Finish(a, IF request[first].body = request[a].body THEN "replayed" ELSE "refused")
        /\ UNCHANGED database

\* one pool lock after the other, in the order of the sorted keys
NextPools_in_any_order(a) == Unlocked(a)
NextPools(a) == {p \in Unlocked(a) : \A q \in Unlocked(a) : p <= q}

LockPool_without_waiting(a) ==
    /\ pc[a] = "locking"
    /\ \E p \in NextPools(a) : poolLock' = [poolLock EXCEPT ![p] = a]
    /\ UNCHANGED <<database, keyLock, sequenceLock, session>>

LockPool(a) ==
    /\ pc[a] = "locking"
    /\ \E p \in NextPools(a) :
          /\ poolLock[p] = NoAttempt
          /\ poolLock' = [poolLock EXCEPT ![p] = a]
    /\ UNCHANGED <<database, keyLock, sequenceLock, session>>

StartReading(a) ==
    /\ pc[a] = "locking" /\ Unlocked(a) = {}
    /\ Advance(a, "reading")
    /\ UNCHANGED <<database, locks, request, seen, number>>

\* every statement reads what is committed when it runs
ReadPool(a, p) ==
    /\ pc[a] = "reading"
    /\ p \in Needs(a) /\ seen[a][p] = Unread
    /\ seen' = [seen EXCEPT ![a][p] = LeftIn(p)]
    /\ UNCHANGED <<database, locks, pc, request, number>>

AllRead(a) == \A p \in Needs(a) : seen[a][p] # Unread
Enough_of_one(a) == \E p \in Needs(a) : Wants(a, p) <= seen[a][p]
Enough(a)  == \A p \in Needs(a) : Wants(a, p) <= seen[a][p]

Plan(a) ==
    /\ pc[a] = "reading" /\ AllRead(a) /\ Enough(a)
    /\ Advance(a, "numbering")
    /\ UNCHANGED <<database, locks, request, seen, number>>

\* a shortage in any pool refuses the whole order
Refuse(a) ==
    /\ pc[a] = "reading" /\ AllRead(a) /\ ~ Enough(a)
    /\ Finish(a, "refused")
    /\ UNCHANGED database

AllocateSerial_without_waiting(a) ==
    /\ pc[a] = "numbering"
    /\ sequenceLock' = a
    /\ number' = [number EXCEPT ![a] = serial + 1]
    /\ Advance(a, "writing")
    /\ UNCHANGED <<database, keyLock, poolLock, request, seen>>

AllocateSerial(a) ==
    /\ pc[a] = "numbering"
    /\ sequenceLock = NoAttempt
    /\ sequenceLock' = a
    /\ number' = [number EXCEPT ![a] = serial + 1]
    /\ Advance(a, "writing")
    /\ UNCHANGED <<database, keyLock, poolLock, request, seen>>

\* The order, its allocations and the idempotency record become visible
\* together.
Commit(a) ==
    /\ pc[a] = "writing"
    /\ taken' = [p \in Pool |-> taken[p] + Wants(a, p)]
    /\ record' = [record EXCEPT ![KeyOf(a)] = a]
    /\ serial' = number[a]
    /\ Finish(a, "created")
    /\ UNCHANGED released

\* A crash, a lost connection, a transaction timeout or any statement that
\* fails rolls the transaction back.
Abort(a) ==
    /\ pc[a] \in InTransaction
    /\ Finish(a, "failed")
    /\ UNCHANGED database

-----------------------------------------------------------------------------
(* What others do to the pools without taking their locks *)

\* a final inspection releases finished pieces
ReleasePieces(p, n) ==
    /\ released[p] + n <= MaxStock
    /\ released' = [released EXCEPT ![p] = @ + n]
    /\ UNCHANGED <<taken, record, serial, locks, session>>

\* an edit of another order gives up allocations and asks for none
ReleaseAllocation(p, n) ==
    /\ n <= taken[p]
    /\ taken' = [taken EXCEPT ![p] = @ - n]
    /\ UNCHANGED <<released, record, serial, locks, session>>

-----------------------------------------------------------------------------
(* Specification *)

ReservationInit ==
    /\ released = [p \in Pool |-> 0]
    /\ taken = [p \in Pool |-> 0]
    /\ record = [k \in Key |-> NoAttempt]
    /\ serial = 0
    /\ keyLock = [k \in Key |-> NoAttempt]
    /\ poolLock = [p \in Pool |-> NoAttempt]
    /\ sequenceLock = NoAttempt
    /\ pc = [a \in Attempt |-> "idle"]
    /\ request = [a \in Attempt |-> Unsent]
    /\ seen = [a \in Attempt |-> [p \in Pool |-> Unread]]
    /\ number = [a \in Attempt |-> 0]

Handle(a) ==
    \/ LockKey(a) \/ FindRecord(a) \/ Replay(a)
    \/ LockPool(a) \/ StartReading(a)
    \/ \E p \in Pool : ReadPool(a, p)
    \/ Plan(a) \/ Refuse(a)
    \/ AllocateSerial(a) \/ Commit(a)

Environment ==
    \E p \in Pool, n \in 1 .. MaxStock : ReleasePieces(p, n) \/ ReleaseAllocation(p, n)

ReservationNext ==
    \/ \E a \in Attempt :
          \/ \E k \in Key, b \in Body : Send(a, k, b)
          \/ Handle(a)
          \/ Abort(a)
    \/ Environment

ReservationSpec == ReservationInit /\ [][ReservationNext]_reservationVars

\* PostgreSQL queues the waiters of an advisory lock and runs every statement
\* it was sent; nothing makes a client send or a transaction fail.
Fairness == \A a \in Attempt : WF_reservationVars(Handle(a))

FairSpec == ReservationSpec /\ Fairness

-----------------------------------------------------------------------------
(* Properties *)

\* No pool is ever taken beyond what final inspection released into it,
\* however many orders are created at once.
NoOverAllocation == \A p \in Pool : taken[p] <= released[p]

\* Why: the pieces an order was planned from are still there when it commits,
\* although the reads and the commit are separate statements.
PlannedStockIsThere ==
    \A a \in Attempt : pc[a] \in {"numbering", "writing"} =>
        \A p \in Needs(a) : Wants(a, p) <= LeftIn(p)

\* A key yields one order at most, whatever retries overlap, and a replay is
\* only ever answered with an order of its own key and body.
OneOrderPerKey ==
    /\ \A a, b \in Attempt :
          pc[a] = "created" /\ pc[b] = "created" /\ KeyOf(a) = KeyOf(b) => a = b
    /\ \A a \in Attempt : pc[a] = "replayed" =>
          \E b \in Attempt : pc[b] = "created" /\ request[b] = request[a]

\* Dispatch orders are numbered 1, 2, 3 ... without a gap or a duplicate,
\* although a transaction that was given a number may roll back.
NumbersAreGapless ==
    LET created == {a \in Attempt : pc[a] = "created"}
    IN  /\ {number[a] : a \in created} = 1 .. serial
        /\ \A a, b \in created : number[a] = number[b] => a = b

\* No attempt waits for a pool below one it holds, so attempts never wait for
\* each other in a circle.
PoolsLockedInOrder ==
    \A a \in Attempt : pc[a] = "locking" =>
        \A held \in Needs(a) \ Unlocked(a), p \in Unlocked(a) : held < p

\* Every request that was sent is answered: locks held by others and overlapping
\* pools delay it, but never for ever.
EveryRequestSettles ==
    \A a \in Attempt : pc[a] = "opened" ~> pc[a] \in Settled

Ledger == INSTANCE StockLedger WITH
            fulfilled <- {k \in Key : record[k] # NoAttempt},
            Demands <- {Demand[b] : b \in Body}

\* Every interleaving of the statements is one of atomic reservations.
ReservationIsAtomic == Ledger!LedgerSpec
=============================================================================
