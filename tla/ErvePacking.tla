----------------------------- MODULE ErvePacking -----------------------------
(***************************************************************************)
(* Erve packing lists: READY cartons of several orders joined into one     *)
(* list per store and distributor, the dispatch of a list with its invoice *)
(* handoffs, and the paged listing of the cartons a list may still take.   *)
(*                                                                         *)
(* A handler is one action: it holds the advisory lock of its list or of   *)
(* its cartons from before its first read of what it changes to its        *)
(* commit.  The listing takes no lock: each page is two actions.           *)
(* The cartons come from DispatchOrder: those of a READY_FOR_ERVE factory  *)
(* dispatch are inspected in their last version and change no more, which  *)
(* is all that eligibility asks of them besides a retail store.            *)
(***************************************************************************)
EXTENDS Integers, FiniteSets, Sequences, FiniteSetsExt

CONSTANTS
    Carton,         \* carton ids, numbered in the order they were created
    Line,           \* sale order lines
    Goods,          \* carton -> its order, store, distributor and contents
    NoStore,        \* the store of a destination linked to no RetailStore
    MaxList,        \* bound on the packing lists ever created
    PageLimit,      \* cartons a page of the listing shows
    ScanBudget      \* candidates a page examines

ASSUME BoundsAssumption ==
    /\ Carton \subseteq Nat \ {0} /\ IsFiniteSet(Carton) /\ IsFiniteSet(Line)
    /\ \A c \in Carton : Goods[c].contents \in [Line -> Nat]
    /\ {MaxList, PageLimit, ScanBudget} \subseteq Nat \ {0}

VARIABLES
    source,         \* carton -> what its factory dispatch has made of it
    on,             \* carton -> the ErvePackingList it is on, 0 for none
    lists,          \* ErvePackingList rows, oldest first
    browse,         \* one client paging through the eligible cartons
    steady          \* history: cartons the listing had to show throughout

vars == <<source, on, lists, browse, steady>>

List   == DOMAIN lists
Zero   == [l \in Line |-> 0]
NoOrder == "none"
NotBrowsing == [phase |-> "off", list |-> 0, after |-> 0, picked |-> {},
                more |-> FALSE, shown |-> {}]

TypeOK ==
    /\ source \in [Carton -> {"packing", "ready", "retired"}]
    /\ on \in [Carton -> 0 .. Len(lists)]
    /\ Len(lists) <= MaxList
    /\ \A l \in List : lists[l].status \in {"OPEN", "FINALIZED", "DISPATCHED"}
    /\ \A l \in List : {lists[l].snapshot, lists[l].handoff} \subseteq [Line -> Nat]
    /\ browse.phase \in {"off", "query", "hydrate", "done"}
    /\ browse.list \in 0 .. Len(lists) /\ browse.after \in {0} \cup Carton
    /\ browse.picked \subseteq Carton /\ browse.shown \subseteq Carton

Init ==
    /\ source = [c \in Carton |-> "packing"]
    /\ on = [c \in Carton |-> 0]
    /\ lists = << >>
    /\ browse = NotBrowsing
    /\ steady = {}

-----------------------------------------------------------------------------
(* Quantities *)

\* what is in a set of cartons, per sale order line
Contents(C) == [l \in Line |-> MapThenSumSet(LAMBDA c : Goods[c].contents[l], C)]

CartonsOn(l) == {c \in Carton : on[c] = l}

-----------------------------------------------------------------------------
(* Packing lists *)

\* assertCartonEligibleForConsolidation
Eligible(c) == source[c] = "ready" /\ Goods[c].store # NoStore

SameOwner(c, store, distributor) ==
    Goods[c].store = store /\ Goods[c].distributor = distributor

\* loadAndValidateCartonsForConsolidation: free, eligible, of one owner
MayJoin(C, store, distributor) ==
    \A c \in C : on[c] = 0 /\ Eligible(c) /\ SameOwner(c, store, distributor)

OrdersOf(C) == {Goods[c].order : c \in C}

CreateErvePackingList ==
    \E C \in SUBSET Carton \ {{}}, first \in Carton :
        /\ Len(lists) < MaxList
        /\ first \in C /\ MayJoin(C, Goods[first].store, Goods[first].distributor)
        /\ lists' = Append(lists,
             [status |-> "OPEN", store |-> Goods[first].store,
              distributor |-> Goods[first].distributor, snapshot |-> Zero, handoff |-> Zero,
              order |-> IF Cardinality(OrdersOf(C)) = 1 THEN Goods[first].order ELSE NoOrder])
        /\ on' = [c \in Carton |-> IF c \in C THEN Len(lists) + 1 ELSE on[c]]
        /\ UNCHANGED <<source>>

\* fault: the order of the list is not given up when another joins
Joined_to_the_order(l, C) == lists[l].order

\* the single order of a list, given up when cartons of another one join
Joined(l, C) == IF OrdersOf(C) = {lists[l].order} THEN lists[l].order ELSE NoOrder

AddErvePackingListCartons(l) ==
    \E C \in SUBSET Carton \ {{}} :
        /\ lists[l].status = "OPEN"
        /\ MayJoin(C, lists[l].store, lists[l].distributor)
        /\ lists' = [lists EXCEPT ![l].order = Joined(l, C)]
        /\ on' = [c \in Carton |-> IF c \in C THEN l ELSE on[c]]
        /\ UNCHANGED <<source>>

\* fault: cartons leave a list until it is dispatched
RemoveErvePackingListCarton_until_dispatch(l) ==
    \E c \in CartonsOn(l) :
        /\ lists[l].status # "DISPATCHED"
        /\ on' = [on EXCEPT ![c] = 0]
        /\ UNCHANGED <<source, lists>>

RemoveErvePackingListCarton(l) ==
    \E c \in CartonsOn(l) :
        /\ lists[l].status = "OPEN"
        /\ on' = [on EXCEPT ![c] = 0]
        /\ UNCHANGED <<source, lists>>

\* The cartons of the list are checked again, among themselves; the snapshot
\* (ErvePackingListCommercialLine) sums them per line.  A missing price refuses.
FinalizeErvePackingList(l) ==
    LET C == CartonsOn(l) IN
    /\ lists[l].status = "OPEN" /\ C # {}
    /\ \A c, d \in C : Eligible(c) /\ SameOwner(c, Goods[d].store, Goods[d].distributor)
    /\ lists' = [lists EXCEPT ![l].status = "FINALIZED", ![l].snapshot = Contents(C)]
    /\ UNCHANGED <<source, on>>

\* with createInvoiceHandoffsForDispatch: a PENDING_TALLY handoff per line
RecordErveDispatch(l) ==
    /\ lists[l].status = "FINALIZED"
    /\ lists' = [lists EXCEPT ![l].status = "DISPATCHED",
                              ![l].handoff = Contents(CartonsOn(l))]
    /\ UNCHANGED <<source, on>>

\* Factory dispatches: a carton is retired while they are drafts, and all that
\* are left of an order become ready together.
RetireCarton(c) ==
    /\ source[c] = "packing" /\ source' = [source EXCEPT ![c] = "retired"]
    /\ UNCHANGED <<on, lists>>

FinalizeFactoryDispatch(o) ==
    LET C == {c \in Carton : Goods[c].order = o /\ source[c] = "packing"} IN
    /\ C # {}
    /\ source' = [c \in Carton |-> IF c \in C THEN "ready" ELSE source[c]]
    /\ UNCHANGED <<on, lists>>

-----------------------------------------------------------------------------
(* Listing the eligible cartons *)

\* for list l, or for a new one (0)
Listed(l) ==
    {c \in Carton : /\ on[c] = 0 /\ Eligible(c)
                    /\ l # 0 => SameOwner(c, lists[l].store, lists[l].distributor)}

\* The candidates of the query: the distributor's free READY cartons after the
\* cursor, whatever their store.
Candidates(l, after) ==
    {c \in Carton : /\ on[c] = 0 /\ source[c] = "ready" /\ c > after
                    /\ l # 0 => Goods[c].distributor = lists[l].distributor}

Matches(c, l) == Goods[c].store # NoStore /\ (l # 0 => Goods[c].store = lists[l].store)

\* Candidates are examined, oldest first, up to the budget and until the page is
\* full; one more than the budget is read, to know whether there are more.
Examined(C, l) ==
    {c \in C : LET before == {d \in C : d < c} IN
        /\ Cardinality(before) < ScanBudget
        /\ Cardinality({d \in before : Matches(d, l)}) < PageLimit}

StartListing ==
    \E l \in {0} \cup {m \in List : lists[m].status = "OPEN"} :
        /\ browse.phase = "off"
        /\ browse' = [NotBrowsing EXCEPT !.phase = "query", !.list = l]
        /\ steady' = Listed(l)
        /\ UNCHANGED <<source, on, lists>>

\* fault: the cursor is the row that was only looked ahead at
Cursor_at_the_lookahead(E, C) == IF C # E THEN Min(C \ E) ELSE Max(E)

\* the last candidate examined
Cursor(E, C) == Max(E)

QueryPage ==
    LET l == browse.list
        C == Candidates(l, browse.after)
        E == Examined(C, l)
    IN  /\ browse.phase = "query"
        /\ browse' = [browse EXCEPT !.phase = "hydrate", !.more = E # C,
             !.picked = {c \in E : Matches(c, l)},
             !.after = IF E = {} THEN @ ELSE Cursor(E, C)]
        /\ UNCHANGED <<source, on, lists, steady>>

\* the picked cartons are read with their details and checked once more
HydratePage ==
    /\ browse.phase = "hydrate"
    /\ browse' = [browse EXCEPT !.phase = IF browse.more THEN "query" ELSE "done",
         !.shown = @ \cup (browse.picked \cap Listed(browse.list)), !.picked = {}]
    /\ UNCHANGED <<source, on, lists, steady>>

StopListing ==
    /\ browse.phase = "done" /\ browse' = NotBrowsing /\ steady' = {}
    /\ UNCHANGED <<source, on, lists>>

-----------------------------------------------------------------------------
Handlers ==
    \/ CreateErvePackingList
    \/ \E l \in List : \/ AddErvePackingListCartons(l) \/ RemoveErvePackingListCarton(l)
                       \/ FinalizeErvePackingList(l) \/ RecordErveDispatch(l)
    \/ \E c \in Carton : RetireCarton(c)
    \/ \E o \in OrdersOf(Carton) : FinalizeFactoryDispatch(o)

Next ==
    \/ Handlers /\ UNCHANGED browse /\ steady' = steady \cap Listed(browse.list)'
    \/ StartListing \/ QueryPage \/ HydratePage \/ StopListing

Spec == Init /\ [][Next]_vars

-----------------------------------------------------------------------------
(* Properties *)

\* All cartons of a list are ready, go to one store of one distributor, and are
\* of the list's order if it names one, through any sequence of joins and
\* removals by several desks.
OneOwnerPerList ==
    \A c \in Carton : on[c] # 0 =>
        LET l == lists[on[c]] IN
        /\ source[c] = "ready" /\ SameOwner(c, l.store, l.distributor)
        /\ l.order # NoOrder => Goods[c].order = l.order

\* What was priced when the list was finalized is what was dispatched, what is
\* handed off for invoicing and what is still on the list: later steps of other
\* handlers change none of the four apart from the others.
DispatchIsItsSnapshot ==
    \A l \in List :
        /\ lists[l].status # "OPEN" => lists[l].snapshot = Contents(CartonsOn(l))
        /\ lists[l].status = "DISPATCHED" => lists[l].handoff = lists[l].snapshot

\* Paging through the listing while cartons are claimed, released and finalized
\* shows every carton that was eligible all the while.
ListingMissesNothing == browse.phase = "done" => steady \subseteq browse.shown
=============================================================================
