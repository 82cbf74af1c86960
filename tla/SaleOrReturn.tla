---------------------------- MODULE SaleOrReturn ----------------------------
(***************************************************************************)
(* Goods a distributor holds on sale or return: sales reports and returns  *)
(* (request, finance approval, credit note, physical receipt) of the       *)
(* delivered pairs (erveDispatchId, saleOrderLineId).                      *)
(*                                                                         *)
(* A sales report, a return request and an approval take the advisory lock *)
(* of each of their pairs and then read the five quantities of a pair in   *)
(* five statements.  The database is at READ COMMITTED: each statement     *)
(* sees what is committed when it starts.  The other handlers take the     *)
(* lock of the return only, whose row they read and rewrite: they are one  *)
(* action each.  A request that is refused rolls back and writes nothing;  *)
(* one whose expectedVersion is not the row's is refused, so a request     *)
(* that acts on a return knows it as it is.                                *)
(***************************************************************************)
EXTENDS Integers, FiniteSets, Sequences, SequencesExt, Sums

CONSTANTS
    Clerk,          \* requests under way at once
    Pair,           \* the pairs of one dispatch, numbered as their keys sort
    Dispatched,     \* pieces dispatched of each pair
    MaxReturn       \* bound on the returns ever requested

ASSUME BoundsAssumption ==
    Pair \subseteq Nat \ {0} /\ IsFiniteSet(Pair)
    /\ Dispatched \in Nat \ {0} /\ MaxReturn \in Nat

VARIABLES
    received,       \* ErveDispatchDeliveryLine per pair, NotDelivered before
    sold,           \* pair -> the sum of its DistributorSalesReportLines
    returns,        \* DistributorReturn rows with their lines, oldest first
    request         \* clerk -> the transaction it has open

vars == <<received, sold, returns, request>>

Return     == DOMAIN returns
Quantity   == 0 .. Dispatched
NotDelivered == [p \in Pair |-> 0]

\* What a request says: lines in the order they stand in its body.  Nothing keeps
\* two of them from naming the same pair; at most as many lines as pairs.
Entry   == [pair: Pair, quantity: Quantity]
Entries == BoundedSeq(Entry, Cardinality(Pair)) \ {<< >>}

PairsOf(e) == {e[i].pair : i \in DOMAIN e}
At(e, p)   == {i \in DOMAIN e : e[i].pair = p}

\* the pieces that some entries of a request ask for
Asked(e, I) == Sum([i \in DOMAIN e |-> e[i].quantity], I)

\* what stands in the row of pair p once the entries are written in turn
Written(e, p) == IF At(e, p) = {} THEN 0 ELSE e[Max(At(e, p))].quantity

\* requested, approved, got and lot are the quantities of a pair's line and of
\* its ReturnedStockLot, 0 where the return has no line of the pair.
PerPair == [Pair -> Nat]
Statuses == {"SUBMITTED", "APPROVED", "REJECTED", "RECEIVED", "CANCELLED"}
ReturnRow == [status: Statuses, credited: BOOLEAN, requested: PerPair,
              approved: PerPair, got: PerPair, lot: PerPair]

Idle == [kind |-> "idle", entries |-> << >>, return |-> 0,
         held |-> {}, line |-> 0, query |-> 0, left |-> 0]

\* the quantities of a pair, in the order they are read
Queries == <<"received", "sold", "returned", "awaiting", "pending">>

RequestRow == [kind: {"idle", "report", "submit", "approve"}, entries: Seq(Entry),
               return: Nat, held: SUBSET Pair, line: Nat, query: 0 .. Len(Queries),
               left: Int]

TypeOK ==
    /\ received \in [Pair -> Quantity]
    /\ sold \in PerPair
    /\ returns \in Seq(ReturnRow)
    /\ request \in [Clerk -> RequestRow]
    /\ \A c \in Clerk : request[c].held \subseteq PairsOf(request[c].entries)

Init ==
    /\ received = NotDelivered
    /\ sold = [p \in Pair |-> 0]
    /\ returns = << >>
    /\ request = [c \in Clerk |-> Idle]

-----------------------------------------------------------------------------
(* Locks *)

\* fault: locked in the order of the request
NextPair_of_the_request(e, held) == e[Min({i \in DOMAIN e : e[i].pair \notin held})].pair

\* the pairs of a request are locked in the order of their keys, each once
NextPair(e, held) == Min(PairsOf(e) \ held)

LocksAll(c) == request[c].held = PairsOf(request[c].entries)

ReturnIsFree(r) == \A c \in Clerk : request[c].return # r

\* fault: a lock of the process instead of the database
LockPair_without_waiting(c) ==
    /\ request[c].kind # "idle" /\ ~LocksAll(c)
    /\ request' = [request EXCEPT ![c].held = @ \cup {NextPair(request[c].entries, @)}]
    /\ UNCHANGED <<received, sold, returns>>

\* A pair lock is taken when no other transaction holds it.
LockPair(c) ==
    LET next == NextPair(request[c].entries, request[c].held)
    IN  /\ request[c].kind # "idle" /\ ~LocksAll(c)
        /\ \A d \in Clerk \ {c} : next \notin request[d].held
        /\ request' = [request EXCEPT ![c].held = @ \cup {next}]
        /\ UNCHANGED <<received, sold, returns>>

-----------------------------------------------------------------------------
(* Quantities of a pair, one aggregate query each *)

With(status) == {r \in Return : returns[r].status = status}

Answer(q, p) ==
    CASE q = "received" -> received[p]
      [] q = "sold"     -> sold[p]
      [] q = "returned" -> Sum([r \in Return |-> returns[r].got[p]], With("RECEIVED"))
      [] q = "awaiting" -> Sum([r \in Return |-> returns[r].approved[p]], With("APPROVED"))
      [] q = "pending"  -> Sum([r \in Return |-> returns[r].requested[p]], With("SUBMITTED"))

\* computeAvailability, accumulated over the answers: availableForNewReturn
\* takes the pending requests off, availableForActualSale does not.
Counts(q, kind) ==
    CASE q = "received"                     -> 1
      [] q = "pending" /\ kind # "submit"   -> 0
      [] OTHER                              -> -1

\* an approval leaves out the check of a line approved with 0
NextLine(c, after) ==
    Min({i \in DOMAIN request[c].entries : i > after
           /\ (request[c].kind = "approve" => request[c].entries[i].quantity > 0)}
        \cup {Len(request[c].entries) + 1})

\* One of the five reads of the line being checked.
Query(c) ==
    LET t == request[c]
        e == t.entries[t.line]
        q == Queries[t.query]
        left == t.left + Counts(q, t.kind) * Answer(q, e.pair)
        last == t.query = Len(Queries)
    IN  /\ t.kind # "idle" /\ LocksAll(c)
        /\ t.line \in DOMAIN t.entries
        /\ request' = [request EXCEPT ![c] =
             IF ~last THEN [t EXCEPT !.query = @ + 1, !.left = left]
             ELSE IF e.quantity > left THEN Idle     \* refused
             ELSE [t EXCEPT !.query = 1, !.left = 0, !.line = NextLine(c, t.line)]]
        /\ UNCHANGED <<received, sold, returns>>

Checked(c, kind) ==
    /\ request[c].kind = kind /\ LocksAll(c)
    /\ request[c].line = Len(request[c].entries) + 1
    /\ request' = [request EXCEPT ![c] = Idle]

-----------------------------------------------------------------------------
(* The handlers that lock their pairs *)

Open(c, kind, e, r) ==
    /\ request[c].kind = "idle"
    /\ request' = [request EXCEPT ![c] =
         [Idle EXCEPT !.kind = kind, !.entries = e, !.return = r, !.query = 1,
             !.line = Min({i \in DOMAIN e : kind = "approve" => e[i].quantity > 0})]]
    /\ UNCHANGED <<received, sold, returns>>

Positive(e) == \A i \in DOMAIN e : e[i].quantity > 0

\* submitDistributorSalesReport and submitDistributorReturn; a report against
\* a dispatch that is not delivered is refused.
OpenReport(c) ==
    \E e \in Entries : Positive(e) /\ received # NotDelivered /\ Open(c, "report", e, 0)

OpenSubmit(c) ==
    /\ Len(returns) + Cardinality({d \in Clerk : request[d].kind = "submit"}) < MaxReturn
    /\ \E e \in Entries : Positive(e) /\ Open(c, "submit", e, 0)

\* approveDistributorReturn: the entries name exactly the lines of the return,
\* as sets of ids, none above what was requested.
NamesTheLines(e, r) == PairsOf(e) = {p \in Pair : returns[r].requested[p] > 0}

OpenApprove(c) ==
    \E r \in Return, e \in Entries :
        /\ ReturnIsFree(r) /\ returns[r].status = "SUBMITTED"
        /\ NamesTheLines(e, r) /\ Asked(e, DOMAIN e) > 0
        /\ \A i \in DOMAIN e : e[i].quantity <= returns[r].requested[e[i].pair]
        /\ Open(c, "approve", e, r)

Report(c) ==
    /\ Checked(c, "report")
    /\ sold' = [p \in Pair |-> sold[p] + Asked(request[c].entries, At(request[c].entries, p))]
    /\ UNCHANGED <<received, returns>>

\* A return has one line per pair (a unique index): naming a pair twice fails.
Submit(c) ==
    LET e == request[c].entries
        none == [p \in Pair |-> 0]
    IN  /\ Checked(c, "submit")
        /\ returns' = IF Cardinality(PairsOf(e)) < Len(e) THEN returns ELSE Append(returns,
             [status |-> "SUBMITTED", credited |-> FALSE,
              requested |-> [p \in Pair |-> Written(e, p)],
              approved |-> none, got |-> none, lot |-> none])
        /\ UNCHANGED <<received, sold>>

Approve(c) ==
    LET e == request[c].entries
        r == request[c].return
    IN  /\ Checked(c, "approve")
        /\ returns' = [returns EXCEPT ![r].status = "APPROVED",
                          ![r].approved = [p \in Pair |-> Written(e, p)]]
        /\ UNCHANGED <<received, sold>>

\* The connection is lost or the transaction times out: it is rolled back.
Rollback(c) ==
    /\ request[c].kind # "idle"
    /\ request' = [request EXCEPT ![c] = Idle]
    /\ UNCHANGED <<received, sold, returns>>

-----------------------------------------------------------------------------
(* The handlers that lock the return only *)

Rewrite(r, row) ==
    /\ ReturnIsFree(r)
    /\ returns' = [returns EXCEPT ![r] = row]
    /\ UNCHANGED <<received, sold, request>>

Reject(r) ==
    /\ returns[r].status = "SUBMITTED"
    /\ Rewrite(r, [returns[r] EXCEPT !.status = "REJECTED"])

RecordCreditNote(r) ==
    /\ returns[r].status \in {"APPROVED", "RECEIVED"}
    /\ Rewrite(r, [returns[r] EXCEPT !.credited = TRUE])

\* fault: the credit note does not stop a cancellation
Cancel_though_credited(r) ==
    /\ returns[r].status \in {"SUBMITTED", "APPROVED"}
    /\ Rewrite(r, [returns[r] EXCEPT !.status = "CANCELLED"])

Cancel(r) ==
    /\ \/ returns[r].status = "SUBMITTED"
       \/ returns[r].status = "APPROVED" /\ ~returns[r].credited
    /\ Rewrite(r, [returns[r] EXCEPT !.status = "CANCELLED"])

\* receiveDistributorReturn: a lot is created for each entry above 0; two of
\* one line would break the unique index of ReturnedStockLot.
Receive(r) ==
    \E e \in Entries :
        LET above(p) == {i \in At(e, p) : e[i].quantity > 0}
        IN  /\ returns[r].status = "APPROVED"
            /\ NamesTheLines(e, r) /\ Asked(e, DOMAIN e) > 0
            /\ \A i \in DOMAIN e :
                 /\ e[i].quantity <= returns[r].approved[e[i].pair]
                 /\ returns[r].credited => e[i].quantity = returns[r].approved[e[i].pair]
            /\ \A p \in Pair : Cardinality(above(p)) <= 1
            /\ Rewrite(r, [returns[r] EXCEPT !.status = "RECEIVED",
                 !.got = [p \in Pair |-> Written(e, p)],
                 !.lot = [p \in Pair |-> Asked(e, above(p))]])

\* The delivery of the dispatch, confirmed once; it takes none of these locks.
Deliver ==
    /\ received = NotDelivered
    /\ received' \in [Pair -> Quantity] \ {NotDelivered}
    /\ UNCHANGED <<sold, returns, request>>

-----------------------------------------------------------------------------
Step(c) ==
    LockPair(c) \/ Query(c) \/ Report(c) \/ Submit(c) \/ Approve(c)

Next ==
    \/ Deliver
    \/ \E c \in Clerk : \/ OpenReport(c) \/ OpenSubmit(c) \/ OpenApprove(c)
                       \/ LockPair(c) \/ Query(c)
                       \/ Report(c) \/ Submit(c) \/ Approve(c) \/ Rollback(c)
    \/ \E r \in Return : Reject(r) \/ RecordCreditNote(r) \/ Cancel(r) \/ Receive(r)

Spec == Init /\ [][Next]_vars

\* A transaction that is open goes on by itself, and PostgreSQL queues those that
\* wait for a lock: one that becomes free again and again is granted in the end.
FairSpec == Spec /\ \A c \in Clerk : WF_vars(Step(c)) /\ SF_vars(LockPair(c))

-----------------------------------------------------------------------------
(* Properties *)

Awaiting(p) == Answer("awaiting", p)

Room(p) == received[p] - sold[p] - Awaiting(p)

\* What is sold of a pair and what is approved to come back are taken from the
\* same goods by concurrent reports and approvals.  They grow only by a report or
\* an approval each of whose lines of the pair fits, at its commit, into what is
\* left of the goods received: the pair locks make each check hold until then.
EachLineIsCovered ==
    [][\A p \in Pair : sold'[p] + Awaiting(p)' > sold[p] + Awaiting(p) =>
         \E c \in Clerk :
           /\ Report(c) \/ Approve(c)
           /\ \A i \in At(request[c].entries, p) : request[c].entries[i].quantity <= Room(p)]_vars

\* So only a report that names a pair on two lines, each checked against the same
\* rest, takes the two beyond what was received.
OnlyRepeatsOversell ==
    [][\A p \in Pair : Room(p)' < Room(p) /\ Room(p)' < 0 =>
         \E c \in Clerk : Report(c) /\ Cardinality(At(request[c].entries, p)) > 1]_vars

\* What is sold of a pair and approved to come back is never more than was received.
CommittedWithinReceived == \A p \in Pair : Room(p) >= 0

\* The same with what is already back, which distributor-return.test.ts:510 states
\* of a report and an approval: only a report that names a pair twice oversells.  A
\* report that reads the returned quantity before a receipt commits and the awaiting
\* quantity after it counts the goods in neither.
Left(p) == Room(p) - Answer("returned", p)

OnlyRepeatsOversellReturned ==
    [][\A p \in Pair : Left(p)' < Left(p) /\ Left(p)' < 0 =>
         \E c \in Clerk : Report(c) /\ Cardinality(At(request[c].entries, p)) > 1]_vars

\* The goods a credit note covers are fixed when it is recorded: no later
\* receipt, cancellation or approval changes what it stands for.
Covered(t, p) == CASE t.status = "APPROVED" -> t.approved[p]
                   [] t.status = "RECEIVED" -> t.got[p]
                   [] OTHER                 -> 0

CreditNotesStayCovered ==
    [][\A r \in Return : returns[r].credited =>
         \A p \in Pair : Covered(returns'[r], p) = Covered(returns[r], p)]_vars

\* A return only dwindles: no more is approved of a pair than was requested, no more
\* comes into stock than was approved, and what its line says came back is in stock.
ReturnsDwindle ==
    \A r \in Return, p \in Pair :
        LET t == returns[r]
        IN  t.got[p] <= t.lot[p] /\ t.lot[p] <= t.approved[p] /\ t.approved[p] <= t.requested[p]

\* The lot of returned stock is what the return's line says was received.
LotsAreReceipts == \A r \in Return : returns[r].lot = returns[r].got

\* Two requests over the same pairs, in whatever order their bodies name them,
\* never wait for each other for ever.
RequestsFinish == \A c \in Clerk : request[c].kind # "idle" ~> request[c].kind = "idle"
=============================================================================
