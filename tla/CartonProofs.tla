---------------------------- MODULE CartonProofs ----------------------------
(***************************************************************************)
(* The cartons after the factory: their packing for dispatch               *)
(* (ErvePacking), for any cartons, lists and pages, and their delivery by  *)
(* the credential of their label (CartonDelivery, in the second half), for *)
(* any desks and deliverers, credentials, versions and length of time.     *)
(***************************************************************************)
EXTENDS ErvePacking, CartonDelivery, SumTheorems

-----------------------------------------------------------------------------
(* The inductive invariant *)

ListRow == [status: {"OPEN", "FINALIZED", "DISPATCHED"},
            store: {Goods[c].store : c \in Carton},
            distributor: {Goods[c].distributor : c \in Carton},
            order: {Goods[c].order : c \in Carton} \cup {NoOrder},
            snapshot: {Zero} \cup {Contents(C) : C \in SUBSET Carton},
            handoff: {Zero} \cup {Contents(C) : C \in SUBSET Carton}]

\* Lists and the cartons on them; every quantity is of some set of cartons.
ListsTypeOK ==
    /\ source \in [Carton -> {"packing", "ready", "retired"}]
    /\ lists \in Seq(ListRow)
    /\ on \in [Carton -> 0 .. Len(lists)]

IInv == ListsTypeOK /\ OneOwnerPerList /\ DispatchIsItsSnapshot

-----------------------------------------------------------------------------
(* Lists and their cartons *)

\* A list is of one order when the set of its cartons' orders has one element.
LEMMA SingleOrder ==
    ASSUME NEW C \in SUBSET Carton, NEW first \in C, Cardinality(OrdersOf(C)) = 1
    PROVE  \A c \in C : Goods[c].order = Goods[first].order
<1>1. IsFiniteSet(C)
  BY BoundsAssumption, FS_Subset
<1>2. PICK f : f = [c \in C |-> Goods[c].order]
  OBVIOUS
<1>3. f \in [C -> OrdersOf(C)] /\ \A o \in OrdersOf(C) : \E c \in C : f[c] = o
  BY <1>2 DEF OrdersOf
<1>4. f \in Surjection(C, OrdersOf(C))
  BY <1>3 DEF Surjection
<1>5. IsFiniteSet(OrdersOf(C))
  BY <1>1, <1>4, FS_Surjection DEF ExistsSurjection
<1>6. PICK o : OrdersOf(C) = {o}
  BY <1>5, FS_Singleton
<1> QED
  BY <1>6 DEF OrdersOf

LEMMA ListsAreNumbered ==
    ASSUME ListsTypeOK
    PROVE  /\ lists \in Seq(ListRow) /\ List = 1 .. Len(lists) /\ Len(lists) \in Nat
           /\ \A l \in List : lists[l] \in ListRow /\ l \in Nat \ {0}
           /\ \A c \in Carton : on[c] \in {0} \cup List
<1>1. lists \in Seq(ListRow) /\ \A c \in Carton : on[c] \in 0 .. Len(lists)
  BY DEF ListsTypeOK
<1> HIDE DEF ListRow
<1>2. List = 1 .. Len(lists) /\ Len(lists) \in Nat
  BY <1>1 DEF List
<1> QED
  BY <1>1, <1>2

Rewritten(l, row) ==
    /\ lists' \in Seq(ListRow) /\ Len(lists') = Len(lists) /\ List' = List
    /\ lists'[l] = row /\ \A k \in List \ {l} : lists'[k] = lists[k]

LEMMA RewriteRow ==
    ASSUME ListsTypeOK, NEW l \in List, NEW row \in ListRow, lists' = [lists EXCEPT ![l] = row]
    PROVE  Rewritten(l, row)
<1>1. lists \in Seq(ListRow) /\ List = 1 .. Len(lists)
  BY ListsAreNumbered
<1>2. lists' \in Seq(ListRow) /\ Len(lists') = Len(lists) /\ DOMAIN lists' = DOMAIN lists
      /\ lists'[l] = row /\ \A k \in List \ {l} : lists'[k] = lists[k]
  BY <1>1 DEF List
<1> QED
  BY <1>2 DEF Rewritten, List

-----------------------------------------------------------------------------
(* Every step preserves the invariant *)

LEMMA InitIInv == Init => IInv
<1> SUFFICES ASSUME Init PROVE IInv
  OBVIOUS
<1>1. lists = << >> /\ Len(lists) = 0 /\ List = {} /\ lists \in Seq(ListRow)
  BY DEF Init, List
<1>2. \A c \in Carton : on[c] = 0
  BY DEF Init
<1>3. ListsTypeOK
  BY <1>1 DEF Init, ListsTypeOK
<1> QED
  BY <1>1, <1>2, <1>3 DEF IInv, OneOwnerPerList, DispatchIsItsSnapshot

\* A factory dispatch retires or readies its cartons: what is ready stays so.
LEMMA FactoryKeepsIInv ==
    ASSUME IInv, UNCHANGED <<on, lists>>, source' \in [Carton -> {"packing", "ready", "retired"}],
           \A c \in Carton : source[c] = "ready" => source'[c] = "ready"
    PROVE  IInv'
<1>1. OneOwnerPerList'
  BY DEF IInv, OneOwnerPerList, SameOwner
<1>2. DispatchIsItsSnapshot'
  BY DEF IInv, DispatchIsItsSnapshot, CartonsOn, List
<1> QED
  BY <1>1, <1>2 DEF IInv, ListsTypeOK

\* A list that is finalized or dispatched keeps its owner and its cartons.
LEMMA SettlingKeepsIInv ==
    ASSUME IInv, NEW l \in List, NEW row \in ListRow, lists' = [lists EXCEPT ![l] = row],
           UNCHANGED <<source, on>>,
           row.store = lists[l].store, row.distributor = lists[l].distributor,
           row.order = lists[l].order,
           row.snapshot = Contents(CartonsOn(l)),
           row.status = "DISPATCHED" => row.handoff = row.snapshot
    PROVE  IInv'
<1>1. /\ lists' \in Seq(ListRow) /\ Len(lists') = Len(lists) /\ List' = List
      /\ lists'[l] = row /\ \A k \in List \ {l} : lists'[k] = lists[k]
  BY RewriteRow DEF Rewritten, IInv
<1>2. \A k \in List : /\ lists'[k].store = lists[k].store
                      /\ lists'[k].distributor = lists[k].distributor
                      /\ lists'[k].order = lists[k].order
  BY <1>1
<1>3. OneOwnerPerList'
  <2> SUFFICES ASSUME NEW c \in Carton, on[c] # 0
               PROVE  /\ source[c] = "ready"
                      /\ SameOwner(c, lists'[on[c]].store, lists'[on[c]].distributor)
                      /\ lists'[on[c]].order # NoOrder => Goods[c].order = lists'[on[c]].order
    BY DEF OneOwnerPerList
  <2>1. on[c] \in List
    BY ListsAreNumbered DEF IInv
  <2> QED
    BY <1>2, <2>1 DEF IInv, OneOwnerPerList
<1>4. \A k : CartonsOn(k)' = CartonsOn(k)
  BY DEF CartonsOn
<1>5. DispatchIsItsSnapshot'
  <2> SUFFICES ASSUME NEW k \in List
               PROVE  /\ lists'[k].status # "OPEN" => lists'[k].snapshot = Contents(CartonsOn(k)')
                      /\ lists'[k].status = "DISPATCHED" => lists'[k].handoff = lists'[k].snapshot
    BY <1>1, <1>4 DEF DispatchIsItsSnapshot
  <2>1. CASE k = l
    BY <1>1, <1>4, <2>1
  <2>2. CASE k # l
    BY <1>1, <1>4, <2>2 DEF IInv, DispatchIsItsSnapshot
  <2> QED
    BY <2>1, <2>2
<1> QED
  BY <1>1, <1>3, <1>5 DEF IInv, ListsTypeOK

\* Cartons join or leave an open list; those that join are ready, were on none and
\* are its owner's, and of its order if it still names one.
LEMMA MovingKeepsIInv ==
    ASSUME IInv, NEW l \in List, lists[l].status = "OPEN",
           NEW row \in ListRow, lists' = [lists EXCEPT ![l] = row], UNCHANGED source,
           row.store = lists[l].store, row.distributor = lists[l].distributor,
           row.order \in {lists[l].order, NoOrder}, row.status = "OPEN",
           on' \in [Carton -> 0 .. Len(lists)],
           \A c \in Carton :
             \/ on'[c] = on[c]
             \/ on[c] = l /\ on'[c] = 0
             \/ /\ on[c] = 0 /\ on'[c] = l /\ source[c] = "ready"
                /\ SameOwner(c, row.store, row.distributor)
                /\ row.order # NoOrder => Goods[c].order = row.order
    PROVE  IInv'
<1>1. /\ lists' \in Seq(ListRow) /\ Len(lists') = Len(lists) /\ List' = List
      /\ lists'[l] = row /\ \A k \in List \ {l} : lists'[k] = lists[k]
  BY RewriteRow DEF Rewritten, IInv
<1>2. OneOwnerPerList'
  <2> SUFFICES ASSUME NEW c \in Carton, on'[c] # 0
               PROVE  /\ source[c] = "ready"
                      /\ SameOwner(c, lists'[on'[c]].store, lists'[on'[c]].distributor)
                      /\ lists'[on'[c]].order # NoOrder => Goods[c].order = lists'[on'[c]].order
    BY DEF OneOwnerPerList, SameOwner
  <2>1. CASE on'[c] = on[c]
    <3>1. on[c] \in List
      BY <2>1, ListsAreNumbered DEF IInv
    <3>2. /\ source[c] = "ready" /\ SameOwner(c, lists[on[c]].store, lists[on[c]].distributor)
          /\ lists[on[c]].order # NoOrder => Goods[c].order = lists[on[c]].order
      BY <2>1 DEF IInv, OneOwnerPerList
    <3> QED
      BY <1>1, <2>1, <3>1, <3>2
  <2>2. CASE on'[c] # on[c]
    BY <1>1, <2>2
  <2> QED
    BY <2>1, <2>2
<1>3. l # 0 /\ 0 \notin List
  BY ListsAreNumbered DEF IInv
<1>4. \A k \in List \ {l} : CartonsOn(k)' = CartonsOn(k)
  BY <1>3 DEF CartonsOn
<1>5. DispatchIsItsSnapshot'
  BY <1>1, <1>4 DEF IInv, DispatchIsItsSnapshot
<1> QED
  BY <1>1, <1>2, <1>5 DEF IInv, ListsTypeOK

\* A new list has the owner of its first carton.
LEMMA CreatingKeepsIInv == ASSUME IInv, CreateErvePackingList PROVE IInv'
<1>1. PICK C \in SUBSET Carton, first \in Carton :
        /\ first \in C /\ MayJoin(C, Goods[first].store, Goods[first].distributor)
        /\ lists' = Append(lists,
             [status |-> "OPEN", store |-> Goods[first].store,
              distributor |-> Goods[first].distributor, snapshot |-> Zero, handoff |-> Zero,
              order |-> IF Cardinality(OrdersOf(C)) = 1 THEN Goods[first].order ELSE NoOrder])
        /\ on' = [c \in Carton |-> IF c \in C THEN Len(lists) + 1 ELSE on[c]]
        /\ UNCHANGED source
  BY DEF CreateErvePackingList
<1>2. /\ lists \in Seq(ListRow) /\ List = 1 .. Len(lists) /\ Len(lists) \in Nat
      /\ \A c \in Carton : on[c] \in {0} \cup List
  BY ListsAreNumbered DEF IInv
<1>3. PICK n \in Nat : n = Len(lists) + 1
  BY <1>2
<1>4. PICK row : row =
        [status |-> "OPEN", store |-> Goods[first].store,
         distributor |-> Goods[first].distributor, snapshot |-> Zero, handoff |-> Zero,
         order |-> IF Cardinality(OrdersOf(C)) = 1 THEN Goods[first].order ELSE NoOrder]
  OBVIOUS
<1>5. /\ row \in ListRow /\ row.status = "OPEN" /\ row.store = Goods[first].store
      /\ row.distributor = Goods[first].distributor
      /\ row.order = IF Cardinality(OrdersOf(C)) = 1 THEN Goods[first].order ELSE NoOrder
  BY <1>4 DEF ListRow
<1>6. lists' = Append(lists, row)
  BY <1>1, <1>4
<1>7. /\ lists' \in Seq(ListRow) /\ Len(lists') = n /\ List' = 1 .. n /\ List' = List \cup {n}
      /\ lists'[n] = row /\ n \notin List /\ n # 0 /\ \A k \in List : lists'[k] = lists[k]
  <2>1. /\ lists' \in Seq(ListRow) /\ Len(lists') = n /\ DOMAIN lists' = 1 .. n
        /\ lists'[n] = row /\ \A k \in 1 .. Len(lists) : lists'[k] = lists[k]
    BY <1>2, <1>3, <1>5, <1>6
  <2> QED
    BY <1>2, <1>3, <2>1 DEF List
<1>8. \A c \in Carton : on'[c] = IF c \in C THEN n ELSE on[c]
  BY <1>1, <1>3
<1>9. on' \in [Carton -> 0 .. Len(lists')]
  BY <1>1, <1>2, <1>3, <1>7
<1>10. OneOwnerPerList'
  <2> SUFFICES ASSUME NEW c \in Carton, on'[c] # 0
               PROVE  /\ source[c] = "ready"
                      /\ SameOwner(c, lists'[on'[c]].store, lists'[on'[c]].distributor)
                      /\ lists'[on'[c]].order # NoOrder => Goods[c].order = lists'[on'[c]].order
    BY <1>1 DEF OneOwnerPerList, SameOwner
  <2>1. CASE c \in C
    <3>1. lists'[on'[c]] = row
      BY <1>7, <1>8, <2>1
    <3>2. source[c] = "ready" /\ SameOwner(c, row.store, row.distributor)
      BY <1>1, <1>5, <2>1 DEF MayJoin, Eligible
    <3>3. row.order # NoOrder => Goods[c].order = row.order
      BY <1>1, <1>5, <2>1, SingleOrder
    <3> QED
      BY <3>1, <3>2, <3>3
  <2>2. CASE c \notin C
    <3>1. on'[c] = on[c] /\ on[c] \in List /\ lists'[on[c]] = lists[on[c]]
      BY <1>2, <1>7, <1>8, <2>2
    <3> QED
      BY <3>1 DEF IInv, OneOwnerPerList
  <2> QED
    BY <2>1, <2>2
<1>11. DispatchIsItsSnapshot'
  <2>1. \A k \in List : CartonsOn(k)' = CartonsOn(k)
    <3>1. \A c \in C : on[c] = 0
      BY <1>1 DEF MayJoin
    <3>2. 0 \notin List
      BY <1>2
    <3> QED
      BY <1>7, <1>8, <3>1, <3>2 DEF CartonsOn
  <2> QED
    BY <1>5, <1>7, <2>1 DEF IInv, DispatchIsItsSnapshot
<1> QED
  BY <1>1, <1>7, <1>9, <1>10, <1>11 DEF IInv, ListsTypeOK

LEMMA NextIInv == IInv /\ [Next]_vars => IInv'
<1> SUFFICES ASSUME IInv, [Next]_vars PROVE IInv'
  OBVIOUS
<1>1. CASE UNCHANGED <<source, on, lists>>
  BY <1>1, FactoryKeepsIInv DEF IInv, ListsTypeOK
<1>2. CASE CreateErvePackingList
  BY <1>2, CreatingKeepsIInv
<1>3. ASSUME NEW l \in List, AddErvePackingListCartons(l) PROVE IInv'
  <2>1. PICK C \in SUBSET Carton :
          /\ lists[l].status = "OPEN" /\ MayJoin(C, lists[l].store, lists[l].distributor)
          /\ lists' = [lists EXCEPT ![l].order = Joined(l, C)]
          /\ on' = [c \in Carton |-> IF c \in C THEN l ELSE on[c]] /\ UNCHANGED source
    BY <1>3 DEF AddErvePackingListCartons
  <2>2. lists[l] \in ListRow /\ l \in 1 .. Len(lists)
    BY ListsAreNumbered DEF IInv
  <2>3. PICK row : row = [lists[l] EXCEPT !.order = Joined(l, C)]
    OBVIOUS
  <2>4. Joined(l, C) \in {lists[l].order, NoOrder}
    BY DEF Joined
  <2>5. /\ row \in ListRow /\ row.status = "OPEN" /\ row.store = lists[l].store
        /\ row.distributor = lists[l].distributor /\ row.order = Joined(l, C)
    BY <2>1, <2>2, <2>3, <2>4 DEF ListRow
  <2>6. \A c \in C : row.order # NoOrder => Goods[c].order = row.order
    BY <2>5 DEF Joined, OrdersOf
  <2>7. \A c \in C : on[c] = 0 /\ source[c] = "ready" /\ SameOwner(c, row.store, row.distributor)
    BY <2>1, <2>5 DEF MayJoin, Eligible
  <2>8. on' \in [Carton -> 0 .. Len(lists)]
    BY <2>1, <2>2 DEF IInv, ListsTypeOK
  <2>9. \A c \in Carton : on'[c] = IF c \in C THEN l ELSE on[c]
    BY <2>1
  <2> QED
    <3>1. lists' = [lists EXCEPT ![l] = row] /\ UNCHANGED source /\ lists[l].status = "OPEN"
      BY <2>1, <2>3
    <3>2. row.order \in {lists[l].order, NoOrder}
      BY <2>4, <2>5
    <3>3. \A c \in Carton :
            \/ on'[c] = on[c]
            \/ on[c] = l /\ on'[c] = 0
            \/ /\ on[c] = 0 /\ on'[c] = l /\ source[c] = "ready"
               /\ SameOwner(c, row.store, row.distributor)
               /\ row.order # NoOrder => Goods[c].order = row.order
      BY <2>6, <2>7, <2>9
    <3> QED
      BY <2>5, <2>8, <3>1, <3>2, <3>3, MovingKeepsIInv
<1>4. ASSUME NEW l \in List, RemoveErvePackingListCarton(l) PROVE IInv'
  <2>1. PICK c \in Carton : /\ on[c] = l /\ lists[l].status = "OPEN" /\ on' = [on EXCEPT ![c] = 0]
                            /\ UNCHANGED <<source, lists>>
    BY <1>4 DEF RemoveErvePackingListCarton, CartonsOn
  <2>2. lists[l] \in ListRow /\ lists \in Seq(ListRow) /\ Len(lists) \in Nat
    BY ListsAreNumbered DEF IInv
  <2>3. lists' = [lists EXCEPT ![l] = lists[l]]
    BY <2>1, <2>2
  <2>4. /\ on' \in [Carton -> 0 .. Len(lists)]
        /\ \A d \in Carton : \/ on'[d] = on[d]
                             \/ on[d] = l /\ on'[d] = 0
    <3>1. on \in [Carton -> 0 .. Len(lists)] /\ 0 \in 0 .. Len(lists)
      BY <2>2 DEF IInv, ListsTypeOK
    <3> QED
      BY <2>1, <3>1
  <2> QED
    BY <2>1, <2>2, <2>3, <2>4, MovingKeepsIInv
<1>5. ASSUME NEW l \in List, FinalizeErvePackingList(l) PROVE IInv'
  <2>1. lists[l] \in ListRow
    BY ListsAreNumbered DEF IInv
  <2>2. PICK row : row = [lists[l] EXCEPT !.status = "FINALIZED", !.snapshot = Contents(CartonsOn(l))]
    OBVIOUS
  <2>3. lists' = [lists EXCEPT ![l] = row] /\ UNCHANGED <<source, on>>
    BY <1>5, <2>2 DEF FinalizeErvePackingList
  <2>4. CartonsOn(l) \in SUBSET Carton
    BY DEF CartonsOn
  <2>5. /\ row \in ListRow /\ row.status = "FINALIZED" /\ row.store = lists[l].store
        /\ row.distributor = lists[l].distributor /\ row.order = lists[l].order
        /\ row.snapshot = Contents(CartonsOn(l))
    BY <2>1, <2>2, <2>4 DEF ListRow
  <2> QED
    BY <2>3, <2>5, SettlingKeepsIInv
<1>6. ASSUME NEW l \in List, RecordErveDispatch(l) PROVE IInv'
  <2>1. lists[l] \in ListRow
    BY ListsAreNumbered DEF IInv
  <2>2. PICK row : row = [lists[l] EXCEPT !.status = "DISPATCHED", !.handoff = Contents(CartonsOn(l))]
    OBVIOUS
  <2>3. lists' = [lists EXCEPT ![l] = row] /\ UNCHANGED <<source, on>> /\ lists[l].status = "FINALIZED"
    BY <1>6, <2>2 DEF RecordErveDispatch
  <2>4. CartonsOn(l) \in SUBSET Carton /\ lists[l].snapshot = Contents(CartonsOn(l))
    BY <2>3 DEF CartonsOn, IInv, DispatchIsItsSnapshot
  <2>5. /\ row \in ListRow /\ row.status = "DISPATCHED" /\ row.store = lists[l].store
        /\ row.distributor = lists[l].distributor /\ row.order = lists[l].order
        /\ row.snapshot = lists[l].snapshot /\ row.handoff = Contents(CartonsOn(l))
    BY <2>1, <2>2, <2>4 DEF ListRow
  <2> QED
    BY <2>3, <2>4, <2>5, SettlingKeepsIInv
<1>7. CASE \/ \E c \in Carton : RetireCarton(c)
           \/ \E o \in OrdersOf(Carton) : FinalizeFactoryDispatch(o)
  <2>1. source \in [Carton -> {"packing", "ready", "retired"}]
    BY DEF IInv, ListsTypeOK
  <2> QED
    BY <1>7, <2>1, FactoryKeepsIInv DEF RetireCarton, FinalizeFactoryDispatch
<1> QED
  BY <1>1, <1>2, <1>3, <1>4, <1>5, <1>6, <1>7
     DEF Next, Handlers, StartListing, QueryPage, HydratePage, StopListing, vars

-----------------------------------------------------------------------------
(* The theorems *)

\* The inductive invariant: types of the lists and of the cartons on them, one
\* owner per list, and dispatches that are what was finalized.
THEOREM Invariance == Spec => []IInv
  BY InitIInv, NextIInv, PTL DEF Spec

\* The cartons of a list are ready and of one store, one distributor and the order
\* the list names (loadAndValidateCartonsForConsolidation at every join).
THEOREM ListsHaveOneOwner == Spec => []OneOwnerPerList
  BY Invariance, PTL DEF IInv

\* What was priced at finalization is what was dispatched and handed off
\* (recordErveDispatch reads the cartons again).
THEOREM DispatchesAreTheirSnapshots == Spec => []DispatchIsItsSnapshot
  BY Invariance, PTL DEF IInv

-----------------------------------------------------------------------------
(* The paged listing *)

BrowseRow == [phase: {"off", "query", "hydrate", "done"}, list: Nat, after: Nat,
              picked: SUBSET Carton, more: BOOLEAN, shown: SUBSET Carton]

\* Of the cartons to show, each is shown, or picked for the page being read, or
\* still ahead of the cursor, where there is then more to read.
ListingInv ==
    /\ browse \in BrowseRow /\ steady \subseteq Listed(browse.list)
    /\ browse.phase = "off" => steady = {}
    /\ \A c \in steady :
         \/ c \in browse.shown
         \/ (browse.phase = "query" /\ c > browse.after)
         \/ (browse.phase = "hydrate" /\ (c \in browse.picked \/ (browse.more /\ c > browse.after)))

\* The cartons that a page leaves unexamined all come after those it examines.
LEMMA ExaminedFirst ==
    ASSUME NEW C \in SUBSET Carton, NEW l, NEW c \in C \ Examined(C, l), NEW d \in Examined(C, l)
    PROVE  d < c
<1>1. IsFiniteSet(C) /\ (\A x \in C : x \in Nat) /\ d \in C /\ c # d
  BY BoundsAssumption, FS_Subset DEF Examined
<1> SUFFICES ASSUME c < d PROVE FALSE
  BY <1>1
<1> DEFINE before(x) == {y \in C : y < x}
           found(x) == {y \in before(x) : Matches(y, l)}
<1>2. before(c) \subseteq before(d) /\ found(c) \subseteq found(d)
  BY <1>1
<1>3. IsFiniteSet(before(d)) /\ IsFiniteSet(found(d))
  BY <1>1, FS_Subset
<1>4. Cardinality(before(d)) < ScanBudget /\ Cardinality(found(d)) < PageLimit
  BY DEF Examined
<1>5. ~(Cardinality(before(c)) < ScanBudget /\ Cardinality(found(c)) < PageLimit)
  BY <1>1 DEF Examined
<1> HIDE DEF before, found
<1>6. /\ Cardinality(before(c)) <= Cardinality(before(d)) /\ Cardinality(found(c)) <= Cardinality(found(d))
      /\ Cardinality(before(c)) \in Nat /\ Cardinality(before(d)) \in Nat
      /\ Cardinality(found(c)) \in Nat /\ Cardinality(found(d)) \in Nat
  BY <1>2, <1>3, FS_Subset, FS_CardinalityType
<1>7. ScanBudget \in Nat /\ PageLimit \in Nat
  BY BoundsAssumption
<1> QED
  BY <1>4, <1>5, <1>6, <1>7

LEMMA QueryKeepsListing == ASSUME ListingInv, QueryPage PROVE ListingInv'
<1>1. PICK b : b = browse
  OBVIOUS
<1>2. PICK l, C : l = b.list /\ C = Candidates(l, b.after)
  OBVIOUS
<1>3. PICK E : E = Examined(C, l)
  OBVIOUS
<1>4. PICK after : after = IF E = {} THEN b.after ELSE Cursor(E, C)
  OBVIOUS
<1>5. /\ b.phase = "query" /\ UNCHANGED <<source, on, lists, steady>>
      /\ browse' = [b EXCEPT !.phase = "hydrate", !.more = E # C,
                             !.picked = {c \in E : Matches(c, l)}, !.after = after]
  BY <1>1, <1>2, <1>3, <1>4 DEF QueryPage
<1>6. b \in BrowseRow /\ C \in SUBSET Carton /\ E \in SUBSET C /\ IsFiniteSet(Carton) /\ Carton \subseteq Nat
  BY <1>1, <1>2, <1>3, BoundsAssumption DEF ListingInv, Candidates, Examined
<1>7. /\ after \in Nat
      /\ \A c \in C \ E : c > after
  <2>1. CASE E = {}
    <3>1. after = b.after /\ \A c \in C : c > b.after
      BY <1>2, <1>4, <2>1 DEF Candidates
    <3> QED
      BY <1>6, <3>1 DEF BrowseRow
  <2>2. CASE E # {}
    <3>1. after = Max(E)
      BY <1>4, <2>2 DEF Cursor
    <3>2. E \in SUBSET Nat /\ IsFiniteSet(E)
      <4>1. E \subseteq Carton
        BY <1>6
      <4> QED
        BY <1>6, <4>1, FS_Subset
    <3>3. after \in E
      BY <2>2, <3>1, <3>2, MaxOfFinite
    <3>4. \A c \in C \ E : after < c
      BY <1>3, <1>6, <3>3, ExaminedFirst
    <3> QED
      BY <1>6, <3>2, <3>3, <3>4
  <2> QED
    BY <2>1, <2>2
<1>8. /\ browse'.phase = "hydrate" /\ browse'.list = l /\ browse'.shown = b.shown /\ browse'.after = after
      /\ browse'.more = (E # C) /\ browse'.picked = {c \in E : Matches(c, l)}
  BY <1>2, <1>5, <1>6 DEF BrowseRow
<1>9. browse' \in BrowseRow
  <2>1. {c \in E : Matches(c, l)} \in SUBSET Carton /\ (E # C) \in BOOLEAN
    BY <1>6
  <2> QED
    BY <1>5, <1>6, <1>7, <2>1 DEF BrowseRow
<1>10. steady' \subseteq Listed(browse.list)'
  BY <1>1, <1>2, <1>5, <1>8 DEF ListingInv, Listed, Eligible, SameOwner
<1>11. ASSUME NEW c \in steady, c \notin b.shown
       PROVE  c \in browse'.picked \/ (browse'.more /\ c > browse'.after)
  <2>1. c \in Listed(l) /\ c > b.after /\ c \in Carton
    BY <1>1, <1>2, <1>5, <1>11 DEF ListingInv, Listed
  <2>2. c \in C /\ Matches(c, l)
    BY <1>2, <2>1 DEF Listed, Candidates, Matches, Eligible, SameOwner
  <2>3. CASE c \in E
    BY <1>8, <2>2, <2>3
  <2>4. CASE c \notin E
    BY <1>7, <1>8, <2>2, <2>4
  <2> QED
    BY <2>3, <2>4
<1> QED
  BY <1>5, <1>8, <1>9, <1>10, <1>11 DEF ListingInv

LEMMA NextListing == IInv /\ ListingInv /\ [Next]_vars => ListingInv'
<1> SUFFICES ASSUME IInv, ListingInv, [Next]_vars PROVE ListingInv'
  OBVIOUS
<1>1. PICK b : b = browse
  OBVIOUS
<1>2. b \in BrowseRow
  BY <1>1 DEF ListingInv
<1>3. CASE UNCHANGED browse /\ steady' = steady \cap Listed(browse.list)'
  BY <1>3 DEF ListingInv
<1>4. CASE StartListing
  <2>1. PICK l : /\ l \in {0} \cup List /\ browse' = [NotBrowsing EXCEPT !.phase = "query", !.list = l]
                 /\ steady' = Listed(l) /\ UNCHANGED <<source, on, lists>>
    BY <1>4 DEF StartListing
  <2>2. l \in Nat
    BY <2>1, ListsAreNumbered DEF IInv
  <2>3. browse' = [phase |-> "query", list |-> l, after |-> 0, picked |-> {}, more |-> FALSE, shown |-> {}]
    BY <2>1 DEF NotBrowsing
  <2>4. browse' \in BrowseRow
    BY <2>2, <2>3 DEF BrowseRow
  <2>5. \A c \in Listed(l) : c > 0
    BY BoundsAssumption DEF Listed
  <2>6. Listed(browse.list)' = Listed(l)
    BY <2>1, <2>3 DEF Listed, Eligible, SameOwner
  <2>7. browse'.phase = "query" /\ browse'.after = 0 /\ browse'.list = l
    BY <2>3
  <2>8. \A c \in steady' : browse'.phase = "query" /\ c > browse'.after
    BY <2>1, <2>5, <2>7
  <2>9. steady' \subseteq Listed(browse.list)' /\ browse'.phase # "off"
    BY <2>1, <2>6, <2>7
  <2> QED
    BY <2>4, <2>8, <2>9 DEF ListingInv
<1>5. CASE QueryPage
  BY <1>5, QueryKeepsListing
<1>6. CASE HydratePage
  <2>1. PICK shown, phase : /\ shown = b.shown \cup (b.picked \cap Listed(b.list))
                            /\ phase = IF b.more THEN "query" ELSE "done"
    OBVIOUS
  <2>2. /\ b.phase = "hydrate" /\ UNCHANGED <<source, on, lists, steady>>
        /\ browse' = [b EXCEPT !.phase = phase, !.shown = shown, !.picked = {}]
    BY <1>1, <1>6, <2>1 DEF HydratePage
  <2>3. /\ browse'.phase = phase /\ browse'.list = b.list /\ browse'.after = b.after
        /\ browse'.shown = shown
    BY <1>2, <2>2 DEF BrowseRow
  <2>4. browse' \in BrowseRow
    <3>1. shown \in SUBSET Carton /\ phase \in {"query", "done"}
      BY <1>2, <2>1 DEF BrowseRow
    <3> QED
      BY <1>2, <2>2, <3>1 DEF BrowseRow
  <2>5. Listed(browse.list)' = Listed(b.list)
    BY <2>2, <2>3 DEF Listed, Eligible, SameOwner
  <2>6. ASSUME NEW c \in steady PROVE c \in shown \/ (phase = "query" /\ c > b.after)
    <3>1. c \in Listed(b.list) /\ (c \in b.shown \/ c \in b.picked \/ (b.more /\ c > b.after))
      BY <1>1, <2>2 DEF ListingInv
    <3> QED
      BY <2>1, <3>1
  <2> QED
    BY <1>1, <2>1, <2>2, <2>3, <2>4, <2>5, <2>6 DEF ListingInv
<1>7. CASE StopListing
  <2>1. NotBrowsing \in BrowseRow /\ NotBrowsing.phase = "off"
    BY DEF NotBrowsing, BrowseRow
  <2> QED
    BY <1>7, <2>1 DEF StopListing, ListingInv
<1>8. CASE UNCHANGED vars
  BY <1>8 DEF vars, ListingInv, Listed, Eligible, SameOwner
<1> QED
  BY <1>3, <1>4, <1>5, <1>6, <1>7, <1>8 DEF Next

\* Paging through the listing shows every carton that was eligible all the while,
\* for any page and budget, whatever is claimed, released and finalized meanwhile
\* (getEligibleErveCartons).
THEOREM ListingIsComplete == Spec => []ListingMissesNothing
<1>1. Init => ListingInv
  <2>1. NotBrowsing \in BrowseRow /\ NotBrowsing.phase = "off"
    BY DEF NotBrowsing, BrowseRow
  <2> QED
    BY <2>1 DEF Init, ListingInv
<1>2. ListingInv => ListingMissesNothing
  BY DEF ListingInv, ListingMissesNothing
<1> QED
  BY <1>1, <1>2, NextListing, Invariance, PTL DEF Spec

-----------------------------------------------------------------------------
(* The delivery of one carton *)

-----------------------------------------------------------------------------
(* The inductive invariant *)

\* Who holds the locks is past its reads and before its commit, and what it has
\* read is still so, except that the carton may have been dispatched since.
LockedSeesAll ==
    /\ \A a \in Actor : req[a].phase = "locked" <=> holder = a
    /\ holder # NoOne =>
         LET s == req[holder].seen
         IN  /\ s \in [carton: CartonRow, tokens: Seq(TokenRow), evidence: EvidenceRow]
             /\ s.tokens = tokens /\ s.evidence = evidence
             /\ s.carton.version = carton.version /\ s.carton.audited = carton.audited
             /\ s.carton.retired = carton.retired
             /\ s.carton.dispatched >= 0 => s.carton.dispatched = carton.dispatched

\* Only people delivering confirm, by a credential that was issued.
LabelsWereIssued ==
    \A a \in Actor : req[a].phase # "idle" =>
        /\ req[a].op = "confirm" <=> a \in Person
        /\ req[a].token <= Len(tokens)
        /\ req[a].op = "confirm" => req[a].token > 0

DeliveryIInv ==
    /\ DeliveryTypeOK /\ OneLiveCredential /\ LockedSeesAll /\ LabelsWereIssued /\ AnswersAreTrue

-----------------------------------------------------------------------------
(* Credentials *)

\* OneLiveCredential of any rows
OneLive(ts) == \A i \in DOMAIN ts : ts[i].revoked < 0 => i = Len(ts)
NoneLive(ts) == \A i \in DOMAIN ts : ts[i].revoked >= 0

\* The unrevoked credential, if there is one, is the current one.
LEMMA CurrentIsLive ==
    ASSUME NEW ts \in Seq(TokenRow), OneLive(ts), NEW n \in DOMAIN ts, ts[n].revoked < 0
    PROVE  CurrentToken(ts) = n /\ n = Len(ts) /\ n > 0
<1> DEFINE First(i) == \A j \in DOMAIN ts \ {i} :
             LET a == ts[i].revoked
                 b == ts[j].revoked
             IN  IF a = b THEN j < i ELSE a < 0 \/ (b >= 0 /\ b < a)
<1>1. /\ DOMAIN ts = 1 .. Len(ts) /\ Len(ts) \in Nat /\ n = Len(ts) /\ n > 0 /\ ts # << >>
      /\ \A i \in DOMAIN ts : ts[i].revoked \in Int
  <2>1. DOMAIN ts = 1 .. Len(ts) /\ Len(ts) \in Nat /\ \A i \in DOMAIN ts : ts[i] \in TokenRow
    OBVIOUS
  <2>2. n = Len(ts)
    BY DEF OneLive
  <2> QED
    BY <2>1, <2>2 DEF TokenRow
<1>2. \A j \in DOMAIN ts \ {n} : ts[j].revoked >= 0
  BY <1>1 DEF OneLive
<1>3. First(n)
  BY <1>1, <1>2
<1>4. \A i \in DOMAIN ts : First(i) => i = n
  <2> SUFFICES ASSUME NEW i \in DOMAIN ts, First(i), i # n PROVE FALSE
    OBVIOUS
  <2>1. ts[i].revoked >= 0 /\ ts[i].revoked # ts[n].revoked
    BY <1>1, <1>2
  <2>2. ts[i].revoked < 0 \/ (ts[n].revoked >= 0 /\ ts[n].revoked < ts[i].revoked)
    BY <2>1
  <2> QED
    BY <1>1, <2>1, <2>2
<1>5. CurrentToken(ts) = CHOOSE i \in DOMAIN ts : First(i)
  BY <1>1 DEF CurrentToken
<1> HIDE DEF First
<1> QED
  BY <1>1, <1>3, <1>4, <1>5

\* A revoked row is typed and not live, the others are as they were.
LEMMA RevokedRows ==
    ASSUME NEW ts \in Seq(TokenRow), OneLive(ts), now \in Nat, NEW t \in 0 .. Len(ts)
    PROVE  /\ Revoke(ts, t) \in Seq(TokenRow) /\ Len(Revoke(ts, t)) = Len(ts) /\ OneLive(Revoke(ts, t))
           /\ \A i \in DOMAIN ts : Revoke(ts, t)[i].until = ts[i].until
           /\ t = CurrentToken(ts) => NoneLive(Revoke(ts, t))
<1>1. DOMAIN ts = 1 .. Len(ts) /\ Len(ts) \in Nat /\ \A i \in DOMAIN ts : ts[i] \in TokenRow
  OBVIOUS
<1>2. CASE t > 0 /\ ts[t].revoked < 0
  <2>1. t \in DOMAIN ts /\ [ts[t] EXCEPT !.revoked = now] \in TokenRow
    BY <1>1, <1>2 DEF TokenRow
  <2>2. Revoke(ts, t) = [ts EXCEPT ![t] = [ts[t] EXCEPT !.revoked = now]]
    BY <1>2 DEF Revoke
  <2>3. /\ Revoke(ts, t) \in Seq(TokenRow) /\ Len(Revoke(ts, t)) = Len(ts)
        /\ DOMAIN Revoke(ts, t) = DOMAIN ts
        /\ \A i \in DOMAIN ts \ {t} : Revoke(ts, t)[i] = ts[i]
        /\ Revoke(ts, t)[t] = [ts[t] EXCEPT !.revoked = now]
    BY <1>1, <2>1, <2>2
  <2>4. Revoke(ts, t)[t].revoked = now /\ Revoke(ts, t)[t].until = ts[t].until /\ t = Len(ts)
    BY <1>1, <1>2, <2>1, <2>3 DEF TokenRow, OneLive
  <2>5. NoneLive(Revoke(ts, t))
    BY <1>1, <2>1, <2>3, <2>4 DEF OneLive, NoneLive, TokenRow
  <2> QED
    BY <2>3, <2>4, <2>5 DEF OneLive, NoneLive
<1>3. CASE ~(t > 0 /\ ts[t].revoked < 0)
  <2>1. Revoke(ts, t) = ts
    BY <1>3 DEF Revoke
  <2>2. ASSUME t = CurrentToken(ts), NEW i \in DOMAIN ts PROVE ts[i].revoked >= 0
    <3>1. CASE ts[i].revoked < 0
      BY <1>3, <2>2, <3>1, CurrentIsLive
    <3>2. ts[i].revoked \in Int
      BY <1>1 DEF TokenRow
    <3> QED
      BY <3>1, <3>2
  <2> QED
    BY <2>1, <2>2 DEF NoneLive
<1> QED
  BY <1>2, <1>3

\* A new credential is the only live one.
LEMMA IssuedRows ==
    ASSUME NEW ts \in Seq(TokenRow), NoneLive(ts), now \in Nat, ValidFor \in Nat,
           NEW c, NEW by \in {"print", "reissue"}
    PROVE  /\ Issue(ts, c, by) \in Seq(TokenRow) /\ Len(Issue(ts, c, by)) = Len(ts) + 1
           /\ OneLive(Issue(ts, c, by))
           /\ \A i \in DOMAIN ts : Issue(ts, c, by)[i] = ts[i]
           /\ Issue(ts, c, by)[Len(ts) + 1].until # 0 => c.dispatched >= 0
<1> DEFINE row == [by |-> by, revoked |-> -1,
                   until |-> IF by = "reissue" /\ c.dispatched >= 0 /\ c.dispatched + ValidFor <= now
                             THEN now + ValidFor ELSE 0]
<1>1. row \in TokenRow /\ row.revoked < 0 /\ (row.until # 0 => c.dispatched >= 0)
  BY DEF TokenRow
<1>2. Issue(ts, c, by) = Append(ts, row)
  BY DEF Issue
<1> HIDE DEF row, TokenRow
<1>3. /\ Issue(ts, c, by) \in Seq(TokenRow) /\ Len(Issue(ts, c, by)) = Len(ts) + 1
      /\ \A i \in DOMAIN ts : Issue(ts, c, by)[i] = ts[i]
      /\ Issue(ts, c, by)[Len(ts) + 1] = row
      /\ DOMAIN Issue(ts, c, by) = 1 .. Len(ts) + 1 /\ DOMAIN ts = 1 .. Len(ts) /\ Len(ts) \in Nat
  BY <1>1, <1>2
<1>4. \A i \in DOMAIN Issue(ts, c, by) : i # Len(ts) + 1 => i \in DOMAIN ts
  BY <1>3
<1>5. \A i \in DOMAIN ts : ts[i].revoked >= 0 /\ ts[i].revoked \in Int
  <2>1. \A i \in DOMAIN ts : ts[i] \in TokenRow
    OBVIOUS
  <2> QED
    BY <2>1 DEF NoneLive, TokenRow
<1>6. OneLive(Issue(ts, c, by))
  BY <1>3, <1>4, <1>5 DEF OneLive
<1> QED
  BY <1>1, <1>3, <1>6

-----------------------------------------------------------------------------
(* Every step preserves the invariant *)

LEMMA InitDelivery == DeliveryInit => DeliveryIInv
<1> SUFFICES ASSUME DeliveryInit PROVE DeliveryIInv
  OBVIOUS
<1>1. tokens = << >> /\ Len(tokens) = 0 /\ DOMAIN tokens = {} /\ tokens \in Seq(TokenRow)
  BY DEF DeliveryInit
<1>2. \A a \in Actor : req[a] = Idle
  BY DEF DeliveryInit
<1>3. Idle \in RequestRow /\ Idle.phase = "idle"
  BY DEF Idle, RequestRow
<1>4. carton \in CartonRow /\ evidence \in EvidenceRow
  BY DeliveryAssumption DEF DeliveryInit, CartonRow, EvidenceRow, NoEvidence
<1>5. NoOne \notin Actor
  BY DeliveryAssumption DEF NoOne, Actor
<1>6. DeliveryTypeOK
  <2>1. now \in 0 .. MaxTime /\ holder \in Actor \cup {NoOne} /\ 0 <= MaxToken
    BY DeliveryAssumption DEF DeliveryInit
  <2>2. req \in [Actor -> RequestRow]
    BY <1>3 DEF DeliveryInit
  <2> QED
    BY <1>1, <1>4, <2>1, <2>2 DEF DeliveryTypeOK
<1>7. LockedSeesAll
  BY <1>2, <1>3, <1>5 DEF DeliveryInit, LockedSeesAll
<1>8. AnswersAreTrue /\ LabelsWereIssued /\ OneLiveCredential
  <2>1. AnswersAreTrue
    BY <1>2, <1>3 DEF AnswersAreTrue, Actor
  <2> QED
    BY <1>1, <1>2, <1>3, <2>1 DEF LabelsWereIssued, OneLiveCredential
<1> QED
  BY <1>6, <1>7, <1>8 DEF DeliveryIInv

\* What happens around the requests; a carton changes only while no one holds its
\* locks, and is dispatched once.
LEMMA SurroundingsKeepDelivery ==
    ASSUME DeliveryIInv,
           \/ EditCarton \/ InspectCarton \/ RetireIt \/ FinalizeItsDispatch
           \/ RecordItsDispatch \/ Tick \/ UNCHANGED deliveryVars
    PROVE  DeliveryIInv'
<1> USE DEF DeliveryIInv
<1>1. UNCHANGED <<tokens, evidence, holder, req>>
  BY DEF EditCarton, InspectCarton, RetireIt, FinalizeItsDispatch, ChangeCarton,
     RecordItsDispatch, Tick, deliveryVars
<1>2. now \in 0 .. MaxTime /\ carton \in CartonRow
  BY DEF DeliveryTypeOK
<1>3. /\ carton' \in CartonRow /\ (carton.dispatched >= 0 => carton'.dispatched = carton.dispatched)
      /\ holder # NoOne => /\ carton'.version = carton.version /\ carton'.audited = carton.audited
                           /\ carton'.retired = carton.retired
  <2> HIDE DEF DeliveryIInv
  <2>1. CASE EditCarton
    BY <1>2, <2>1, DeliveryAssumption DEF EditCarton, ChangeCarton, CartonRow
  <2>2. CASE InspectCarton
    BY <1>2, <2>2, DeliveryAssumption DEF InspectCarton, ChangeCarton, CartonRow
  <2>3. CASE RetireIt
    BY <1>2, <2>3 DEF RetireIt, ChangeCarton, CartonRow
  <2>4. CASE FinalizeItsDispatch
    BY <1>2, <2>4 DEF FinalizeItsDispatch, ChangeCarton, CartonRow
  <2>5. CASE RecordItsDispatch
    BY <1>2, <2>5, DeliveryAssumption DEF RecordItsDispatch, CartonRow
  <2>6. CASE Tick \/ UNCHANGED deliveryVars
    BY <1>2, <2>6 DEF Tick, deliveryVars
  <2> QED
    BY <2>1, <2>2, <2>3, <2>4, <2>5, <2>6
<1>4. now' \in 0 .. MaxTime
  BY <1>2, DeliveryAssumption DEF EditCarton, InspectCarton, RetireIt, FinalizeItsDispatch,
     ChangeCarton, RecordItsDispatch, Tick, deliveryVars
<1>5. DeliveryTypeOK'
  <2>1. \A i \in DOMAIN tokens : tokens[i].until # 0 => carton'.dispatched >= 0
    BY <1>3 DEF DeliveryTypeOK
  <2> QED
    BY <1>1, <1>3, <1>4, <2>1 DEF DeliveryTypeOK
<1>6. LockedSeesAll'
  <2>1. \A a \in Actor : req'[a].phase = "locked" <=> holder' = a
    BY <1>1 DEF LockedSeesAll
  <2>2. CASE holder # NoOne
    <3> DEFINE s == req[holder].seen
    <3>1. /\ s \in [carton: CartonRow, tokens: Seq(TokenRow), evidence: EvidenceRow]
          /\ s.tokens = tokens /\ s.evidence = evidence
          /\ s.carton.version = carton.version /\ s.carton.audited = carton.audited
          /\ s.carton.retired = carton.retired
          /\ s.carton.dispatched >= 0 => s.carton.dispatched = carton.dispatched
      BY <2>2 DEF LockedSeesAll
    <3> QED
      BY <1>1, <1>3, <2>1, <2>2, <3>1 DEF LockedSeesAll
  <2> QED
    BY <1>1, <2>1, <2>2 DEF LockedSeesAll
<1> QED
  BY <1>1, <1>5, <1>6 DEF OneLiveCredential, LabelsWereIssued, AnswersAreTrue

LEMMA SendKeepsDelivery == ASSUME DeliveryIInv, NEW a \in Actor, Send(a) PROVE DeliveryIInv'
<1> USE DEF DeliveryIInv
<1>1. /\ req[a].phase = "idle" /\ UNCHANGED <<now, carton, tokens, evidence, holder>>
  BY DEF Send
<1>2. PICK op \in Ops(a), t \in 0 .. Len(tokens), u \in {0, MaxTime, MaxTime + 1} :
        /\ a \in Person => t > 0
        /\ req' = [req EXCEPT ![a] = [phase |-> "sent", op |-> op, token |-> t,
                     version |-> carton.version, until |-> u, seen |-> << >>]]
  BY DEF Send
<1> DEFINE row == [phase |-> "sent", op |-> op, token |-> t,
                   version |-> carton.version, until |-> u, seen |-> << >>]
<1>3. row \in RequestRow
  <2>1. op \in {"confirm", "print", "revoke", "extend", "reissue"}
    BY DEF Ops
  <2>2. t \in Nat /\ u \in Nat /\ carton.version \in Nat
    BY DeliveryAssumption DEF DeliveryTypeOK, CartonRow
  <2> HIDE DEF DeliveryIInv
  <2> QED
    BY <2>1, <2>2 DEF RequestRow
<1>4. req'[a] = row /\ \A b \in Actor : b # a => req'[b] = req[b]
  BY <1>2 DEF DeliveryTypeOK
<1>5. DeliveryTypeOK'
  BY <1>1, <1>2, <1>3 DEF DeliveryTypeOK
<1>6. LockedSeesAll'
  <2>1. holder # a /\ req'[a].phase # "locked"
    BY <1>1, <1>4 DEF LockedSeesAll
  <2>2. \A b \in Actor : req'[b].phase = "locked" <=> holder = b
    BY <1>4, <2>1 DEF LockedSeesAll
  <2>3. holder # NoOne => req'[holder] = req[holder]
    BY <1>4, <2>1 DEF DeliveryTypeOK
  <2> QED
    BY <1>1, <2>2, <2>3 DEF LockedSeesAll
<1>7. LabelsWereIssued'
  <2>1. op = "confirm" <=> a \in Person
    BY DEF Ops
  <2> QED
    BY <1>1, <1>2, <1>4, <2>1 DEF LabelsWereIssued
<1>8. AnswersAreTrue'
  BY <1>1, <1>4 DEF AnswersAreTrue, Actor
<1> QED
  BY <1>1, <1>5, <1>6, <1>7, <1>8 DEF OneLiveCredential

LEMMA LockKeepsDelivery == ASSUME DeliveryIInv, NEW a \in Actor, Lock(a) PROVE DeliveryIInv'
<1> USE DEF DeliveryIInv
<1>1. /\ req[a].phase = "sent" /\ holder = NoOne /\ holder' = a
      /\ UNCHANGED <<now, carton, tokens, evidence>>
  BY DEF Lock, LockFree
<1> DEFINE snapshot == [carton |-> carton, tokens |-> tokens, evidence |-> evidence]
           row == [req[a] EXCEPT !.phase = "locked", !.seen = snapshot]
<1>2. req' = [req EXCEPT ![a] = row]
  BY DEF Lock
<1>3. snapshot \in [carton: CartonRow, tokens: Seq(TokenRow), evidence: EvidenceRow]
  BY DEF DeliveryTypeOK
<1>4. row \in RequestRow /\ row.phase = "locked" /\ row.seen = snapshot
      /\ row.op = req[a].op /\ row.token = req[a].token
  <2>1. req[a] \in RequestRow
    BY DEF DeliveryTypeOK
  <2> HIDE DEF snapshot
  <2> QED
    BY <1>3, <2>1 DEF RequestRow
<1>5. req'[a] = row /\ \A b \in Actor : b # a => req'[b] = req[b]
  BY <1>2 DEF DeliveryTypeOK
<1>6. DeliveryTypeOK'
  BY <1>1, <1>2, <1>4 DEF DeliveryTypeOK
<1>7. LockedSeesAll'
  <2>1. \A b \in Actor : req'[b].phase = "locked" <=> b = a
    <3>1. \A b \in Actor : req[b].phase # "locked"
      BY <1>1, DeliveryAssumption DEF LockedSeesAll, Actor, NoOne
    <3> QED
      BY <1>4, <1>5, <3>1
  <2>2. req'[a].seen = snapshot
    BY <1>4, <1>5
  <2> HIDE DEF row
  <2> QED
    BY <1>1, <1>3, <2>1, <2>2 DEF LockedSeesAll
<1>8. LabelsWereIssued'
  <2>1. /\ tokens' = tokens /\ req[a].phase # "idle"
        /\ req'[a].op = req[a].op /\ req'[a].token = req[a].token
    BY <1>1, <1>4, <1>5
  <2>2. \A b \in Actor : b # a => req'[b] = req[b]
    BY <1>5
  <2> HIDE DEF row
  <2> QED
    BY <2>1, <2>2 DEF LabelsWereIssued
<1>9. AnswersAreTrue'
  BY <1>1, <1>4, <1>5 DEF AnswersAreTrue, Actor
<1> QED
  BY <1>1, <1>6, <1>7, <1>8, <1>9 DEF OneLiveCredential

\* What a request under the locks has read.
LEMMA LockedReads ==
    ASSUME DeliveryIInv, NEW a \in Actor, req[a].phase = "locked"
    PROVE  LET s == req[a].seen
           IN  /\ holder = a /\ s.tokens = tokens /\ s.evidence = evidence
               /\ Inspected(s.carton) <=> Inspected(carton)
               /\ s.carton.dispatched >= 0 => s.carton.dispatched = carton.dispatched
               /\ carton.dispatched \in Int /\ now \in Nat /\ ValidFor \in Nat
               /\ tokens \in Seq(TokenRow) /\ Len(tokens) \in Nat /\ OneLive(tokens)
               /\ req[a].token \in 0 .. Len(tokens)
<1>1. holder = a /\ a # NoOne
  BY DeliveryAssumption DEF DeliveryIInv, LockedSeesAll, Actor, NoOne
<1>2. carton \in CartonRow /\ now \in Nat /\ tokens \in Seq(TokenRow) /\ req[a] \in RequestRow
  BY DeliveryAssumption DEF DeliveryIInv, DeliveryTypeOK
<1>3. carton.dispatched \in Int /\ ValidFor \in Nat /\ req[a].token \in Nat
  BY <1>2, DeliveryAssumption DEF CartonRow, RequestRow
<1>4. req[a].token \in 0 .. Len(tokens)
  BY <1>2, <1>3 DEF DeliveryIInv, LabelsWereIssued
<1> QED
  BY <1>1, <1>2, <1>3, <1>4 DEF DeliveryIInv, LockedSeesAll, Inspected, OneLive, OneLiveCredential

\* A handler that leaves rows like the ones of the invariant and gives up its locks.
LEMMA WritingKeepsDelivery ==
    ASSUME DeliveryIInv, NEW a \in Actor, req[a].phase = "locked", Release(a, Idle), UNCHANGED evidence,
           tokens' \in Seq(TokenRow), Len(tokens') <= MaxToken, Len(tokens) <= Len(tokens'),
           OneLive(tokens'),
           \A i \in DOMAIN tokens' : tokens'[i].until # 0 => carton.dispatched >= 0
    PROVE  DeliveryIInv'
<1> USE DEF DeliveryIInv
<1>1. /\ holder = a /\ holder' = NoOne /\ UNCHANGED <<now, carton>>
      /\ req' = [req EXCEPT ![a] = Idle]
  BY LockedReads DEF Release
<1>2. Idle \in RequestRow /\ Idle.phase = "idle"
  BY DEF Idle, RequestRow
<1>3. req'[a] = Idle /\ \A b \in Actor : b # a => req'[b] = req[b]
  BY <1>1 DEF DeliveryTypeOK
<1>4. DeliveryTypeOK'
  <2>1. req' \in [Actor -> RequestRow]
    BY <1>1, <1>2 DEF DeliveryTypeOK
  <2> QED
    BY <1>1, <2>1 DEF DeliveryTypeOK
<1>5. LockedSeesAll'
  <2>1. \A b \in Actor : req'[b].phase # "locked" /\ b # NoOne
    BY <1>1, <1>2, <1>3, DeliveryAssumption DEF LockedSeesAll, Actor, NoOne
  <2> QED
    BY <1>1, <2>1 DEF LockedSeesAll
<1>6. LabelsWereIssued'
  <2>1. Len(tokens) \in Nat /\ Len(tokens') \in Nat /\ \A b \in Actor : req[b].token \in Nat
    BY DEF DeliveryTypeOK, RequestRow
  <2> QED
    BY <1>2, <1>3, <2>1 DEF LabelsWereIssued
<1>7. AnswersAreTrue'
  BY <1>2, <1>3 DEF AnswersAreTrue, Actor
<1>8. OneLiveCredential'
  BY DEF OneLive, OneLiveCredential
<1> QED
  BY <1>4, <1>5, <1>6, <1>7, <1>8

LEMMA PrepareLabelKeepsDelivery ==
    ASSUME DeliveryIInv, NEW a \in Actor, req[a].phase = "locked", PrepareLabel(a) PROVE DeliveryIInv'
<1> DEFINE s == req[a].seen
<1>1. /\ s.tokens = tokens /\ now \in Nat /\ ValidFor \in Nat /\ OneLive(tokens)
      /\ tokens \in Seq(TokenRow) /\ carton.dispatched \in Int /\ Len(tokens) \in Nat
      /\ s.carton.dispatched >= 0 => s.carton.dispatched = carton.dispatched
  BY LockedReads
<1>2. Release(a, Idle) /\ UNCHANGED evidence
  BY DEF PrepareLabel
<1>3. Len(tokens) <= MaxToken /\ \A i \in DOMAIN tokens : tokens[i].until # 0 => carton.dispatched >= 0
  BY DEF DeliveryIInv, DeliveryTypeOK
<1>4. CASE tokens' = tokens
  BY <1>1, <1>2, <1>3, <1>4, WritingKeepsDelivery
<1>5. CASE tokens' # tokens
  <2>1. /\ tokens' = Issue(tokens, s.carton, "print") /\ Len(tokens) < MaxToken
        /\ CurrentToken(tokens) = 0
    BY <1>1, <1>5 DEF PrepareLabel
  <2>2. NoneLive(tokens)
    <3> SUFFICES ASSUME NEW i \in DOMAIN tokens, tokens[i].revoked < 0 PROVE FALSE
      <4>1. \A i \in DOMAIN tokens : tokens[i].revoked \in Int
        <5>1. \A i \in DOMAIN tokens : tokens[i] \in TokenRow
          BY <1>1
        <5> QED
          BY <5>1 DEF TokenRow
      <4> QED
        BY <4>1 DEF NoneLive
    <3> QED
      BY <1>1, <2>1, CurrentIsLive
  <2>3. /\ tokens' \in Seq(TokenRow) /\ Len(tokens') = Len(tokens) + 1 /\ OneLive(tokens')
        /\ \A i \in DOMAIN tokens : tokens'[i] = tokens[i]
        /\ tokens'[Len(tokens) + 1].until # 0 => s.carton.dispatched >= 0
    <3>1. PICK c, by : c = s.carton /\ by = "print"
      OBVIOUS
    <3>2. tokens' = Issue(tokens, c, by)
      BY <2>1, <3>1
    <3>3. /\ Issue(tokens, c, by) \in Seq(TokenRow) /\ OneLive(Issue(tokens, c, by))
          /\ Len(Issue(tokens, c, by)) = Len(tokens) + 1
          /\ \A i \in DOMAIN tokens : Issue(tokens, c, by)[i] = tokens[i]
          /\ Issue(tokens, c, by)[Len(tokens) + 1].until # 0 => c.dispatched >= 0
      BY ONLY <1>1, <2>2, <3>1, IssuedRows
    <3> QED
      BY <3>1, <3>2, <3>3
  <2>4. \A i \in DOMAIN tokens' : i = Len(tokens) + 1 \/ i \in DOMAIN tokens
    BY <1>1, <2>3
  <2>5. \A i \in DOMAIN tokens' : tokens'[i].until # 0 => carton.dispatched >= 0
    BY <1>1, <1>3, <2>3, <2>4
  <2>6. Len(tokens') <= MaxToken /\ Len(tokens) <= Len(tokens')
    BY <1>1, <2>1, <2>3, DeliveryAssumption
  <2> QED
    BY <1>2, <2>3, <2>5, <2>6, WritingKeepsDelivery
<1> QED
  BY <1>4, <1>5

LEMMA ManageCredentialKeepsDelivery ==
    ASSUME DeliveryIInv, NEW a \in Actor, req[a].phase = "locked", ManageCredential(a) PROVE DeliveryIInv'
<1> DEFINE s == req[a].seen
           t == req[a].token
<1>1. /\ s.tokens = tokens /\ now \in Nat /\ ValidFor \in Nat /\ OneLive(tokens)
      /\ tokens \in Seq(TokenRow) /\ carton.dispatched \in Int /\ Len(tokens) \in Nat
      /\ s.carton.dispatched >= 0 => s.carton.dispatched = carton.dispatched
      /\ t \in 0 .. Len(tokens)
  BY LockedReads
<1>2. Release(a, Idle) /\ UNCHANGED evidence
  BY DEF ManageCredential
<1>3. Len(tokens) <= MaxToken /\ (\A i \in DOMAIN tokens : tokens[i].until # 0 => carton.dispatched >= 0)
      /\ req[a].until \in Nat /\ MaxToken \in Nat
  BY DeliveryAssumption DEF DeliveryIInv, DeliveryTypeOK, RequestRow
<1>4. CASE tokens' = tokens
  BY <1>1, <1>2, <1>3, <1>4, WritingKeepsDelivery
<1>5. CASE tokens' # tokens
  <2>1. tokens' = Managed(s, t, req[a].op, req[a].until) /\ CurrentToken(tokens) = t
        /\ req[a].op \in {"extend", "revoke", "reissue"}
    BY <1>1, <1>5 DEF ManageCredential
  <2>2. CASE req[a].op = "extend"
    <3>1. t \in DOMAIN tokens /\ Inspected(s.carton) /\ s.carton.dispatched >= 0
          /\ tokens' = [tokens EXCEPT ![t] = [tokens[t] EXCEPT !.until = req[a].until]]
      BY <1>1, <1>5, <2>1, <2>2 DEF Managed, Extendable
    <3>2. tokens[t] \in TokenRow /\ [tokens[t] EXCEPT !.until = req[a].until] \in TokenRow
          /\ [tokens[t] EXCEPT !.until = req[a].until].revoked = tokens[t].revoked
      <4>1. tokens[t] \in TokenRow
        BY <1>1, <3>1
      <4> QED
        BY <1>3, <4>1 DEF TokenRow
    <3>3. /\ tokens' \in Seq(TokenRow) /\ Len(tokens') = Len(tokens) /\ DOMAIN tokens' = DOMAIN tokens
          /\ tokens'[t].revoked = tokens[t].revoked /\ \A i \in DOMAIN tokens \ {t} : tokens'[i] = tokens[i]
      <4> DEFINE row == [tokens[t] EXCEPT !.until = req[a].until]
      <4>1. row \in TokenRow /\ row.revoked = tokens[t].revoked /\ tokens' = [tokens EXCEPT ![t] = row]
            /\ t \in 1 .. Len(tokens) /\ DOMAIN tokens = 1 .. Len(tokens)
        BY <1>1, <3>1, <3>2
      <4> HIDE DEF TokenRow, row, t
      <4>2. tokens'[t] = row /\ tokens' \in Seq(TokenRow) /\ Len(tokens') = Len(tokens)
        BY <1>1, <4>1
      <4> QED
        BY <1>1, <4>1, <4>2
    <3>4. OneLive(tokens')
      BY <1>1, <3>3 DEF OneLive
    <3>5. Len(tokens') <= MaxToken /\ Len(tokens) <= Len(tokens') /\ carton.dispatched >= 0
      BY <1>1, <1>3, <3>1, <3>3
    <3> QED
      BY <1>2, <3>3, <3>4, <3>5, WritingKeepsDelivery
  <2>3. CASE req[a].op = "revoke"
    <3>1. tokens' = Revoke(tokens, t)
      BY <1>1, <2>1, <2>3 DEF Managed
    <3>2. /\ tokens' \in Seq(TokenRow) /\ Len(tokens') = Len(tokens) /\ OneLive(tokens')
          /\ \A i \in DOMAIN tokens : tokens'[i].until = tokens[i].until
      BY <1>1, <3>1, RevokedRows
    <3>3. DOMAIN tokens' = DOMAIN tokens
      BY <1>1, <3>2
    <3> QED
      BY <1>1, <1>2, <1>3, <3>2, <3>3, WritingKeepsDelivery
  <2>4. CASE req[a].op = "reissue"
    <3> DEFINE rs == Revoke(tokens, t)
    <3>1. tokens' = Issue(rs, s.carton, "reissue") /\ Len(tokens) < MaxToken
      BY <1>1, <1>5, <2>1, <2>4 DEF Managed
    <3>2. /\ rs \in Seq(TokenRow) /\ Len(rs) = Len(tokens) /\ NoneLive(rs)
          /\ \A i \in DOMAIN tokens : rs[i].until = tokens[i].until
      BY <1>1, <2>1, RevokedRows
    <3> HIDE DEF rs
    <3>3. /\ tokens' \in Seq(TokenRow) /\ Len(tokens') = Len(tokens) + 1 /\ OneLive(tokens')
          /\ \A i \in DOMAIN rs : tokens'[i] = rs[i]
          /\ tokens'[Len(tokens) + 1].until # 0 => s.carton.dispatched >= 0
      <4>1. /\ Issue(rs, s.carton, "reissue") \in Seq(TokenRow) /\ OneLive(Issue(rs, s.carton, "reissue"))
            /\ Len(Issue(rs, s.carton, "reissue")) = Len(rs) + 1
            /\ \A i \in DOMAIN rs : Issue(rs, s.carton, "reissue")[i] = rs[i]
            /\ Issue(rs, s.carton, "reissue")[Len(rs) + 1].until # 0 => s.carton.dispatched >= 0
        <5>1. PICK c, by : c = s.carton /\ by = "reissue"
          OBVIOUS
        <5>2. /\ Issue(rs, c, by) \in Seq(TokenRow) /\ OneLive(Issue(rs, c, by))
              /\ Len(Issue(rs, c, by)) = Len(rs) + 1
              /\ \A i \in DOMAIN rs : Issue(rs, c, by)[i] = rs[i]
              /\ Issue(rs, c, by)[Len(rs) + 1].until # 0 => c.dispatched >= 0
          BY ONLY <1>1, <3>2, <5>1, IssuedRows
        <5> QED
          BY <5>1, <5>2
      <4> QED
        BY <3>1, <3>2, <4>1
    <3>4. DOMAIN rs = DOMAIN tokens /\ \A i \in DOMAIN tokens' : i = Len(tokens) + 1 \/ i \in DOMAIN tokens
      BY <1>1, <3>2, <3>3
    <3>5. \A i \in DOMAIN tokens' : tokens'[i].until # 0 => carton.dispatched >= 0
      BY <1>1, <1>3, <3>2, <3>3, <3>4
    <3>6. Len(tokens') <= MaxToken /\ Len(tokens) <= Len(tokens')
      BY <1>1, <1>3, <3>1, <3>3
    <3> QED
      BY <1>2, <3>3, <3>5, <3>6, WritingKeepsDelivery
  <2> QED
    BY <2>1, <2>2, <2>3, <2>4
<1> QED
  BY <1>4, <1>5

\* A delivery: its evidence is written once, by a good credential.
LEMMA ConfirmKeepsDelivery ==
    ASSUME DeliveryIInv, NEW a \in Actor, req[a].phase = "locked", Confirm(a)
    PROVE  DeliveryIInv' /\ (evidence' # evidence =>
                       /\ evidence = NoEvidence
                       /\ tokens[evidence'.token].revoked < 0 /\ ~Expired(tokens[evidence'.token], carton)
                       /\ Inspected(carton) /\ carton.dispatched >= 0)
<1> USE DEF DeliveryIInv
<1> DEFINE s == req[a].seen
           t == req[a].token
           open == Opens(s, t) /\ s.carton.dispatched >= 0
           own == [token |-> t, by |-> a]
<1>1. /\ holder = a /\ s.tokens = tokens /\ s.evidence = evidence
      /\ Inspected(s.carton) <=> Inspected(carton)
      /\ s.carton.dispatched >= 0 => s.carton.dispatched = carton.dispatched
  BY LockedReads
<1>2. PICK answer :
        /\ Release(a, answer)
        /\ \/ answer = Idle
           \/ answer = [req[a] EXCEPT !.seen = << >>, !.phase = "sent"]
           \/ /\ open /\ Answer(a, s) = "new"
              /\ answer = [req[a] EXCEPT !.seen = << >>, !.phase = "confirmed"]
           \/ /\ open /\ Answer(a, s) # "new"
              /\ answer = [req[a] EXCEPT !.seen = << >>, !.phase = Answer(a, s)]
  BY DEF Confirm
<1>3. /\ evidence' = (IF open /\ Answer(a, s) = "new" THEN own ELSE evidence)
      /\ req[a].op = "confirm" /\ UNCHANGED <<tokens, now, carton>>
      /\ holder' = NoOne /\ req' = [req EXCEPT ![a] = answer]
  BY <1>2 DEF Confirm, Release
<1>4. /\ Answer(a, s) = "new" <=> evidence = NoEvidence
      /\ Answer(a, s) = "confirmed" <=> evidence # NoEvidence /\ evidence = own
      /\ Answer(a, s) = "refused" <=> evidence \notin {NoEvidence, own}
      /\ Answer(a, s) \in {"new", "confirmed", "refused"}
  BY <1>1 DEF Answer
<1>5. a \in Person /\ t > 0 /\ t <= Len(tokens) /\ a # NoOne
  BY <1>3, DeliveryAssumption DEF LabelsWereIssued, NoOne
<1>6. own # NoEvidence /\ own \in EvidenceRow
  <2>1. t \in 0 .. MaxToken
    BY <1>5, DeliveryAssumption DEF DeliveryTypeOK, RequestRow
  <2> QED
    BY <1>5, <2>1 DEF NoEvidence, EvidenceRow
<1>7. /\ answer \in RequestRow /\ answer.phase # "locked"
      /\ answer.phase # "idle" => answer.op = "confirm" /\ answer.token = t
      /\ answer.phase = "confirmed" => open /\ Answer(a, s) \in {"new", "confirmed"}
      /\ answer.phase = "refused" => open /\ Answer(a, s) = "refused"
  <2>1. req[a] \in RequestRow
    BY DEF DeliveryTypeOK
  <2> HIDE DEF DeliveryIInv, open, s
  <2>2. CASE answer = Idle
    BY <2>2 DEF RequestRow, Idle
  <2>3. ASSUME NEW p \in {"sent", "confirmed", "refused"},
               answer = [req[a] EXCEPT !.seen = << >>, !.phase = p]
        PROVE  answer \in RequestRow /\ answer.phase = p /\ answer.op = "confirm" /\ answer.token = t
    BY <1>3, <2>1, <2>3 DEF RequestRow
  <2>4. \/ answer = [req[a] EXCEPT !.seen = << >>, !.phase = "sent"]
        \/ /\ open /\ Answer(a, s) = "new"
           /\ answer = [req[a] EXCEPT !.seen = << >>, !.phase = "confirmed"]
        \/ /\ open /\ Answer(a, s) = "confirmed"
           /\ answer = [req[a] EXCEPT !.seen = << >>, !.phase = "confirmed"]
        \/ /\ open /\ Answer(a, s) = "refused"
           /\ answer = [req[a] EXCEPT !.seen = << >>, !.phase = "refused"]
        \/ answer = Idle
    BY <1>2, <1>4
  <2> QED
    BY <2>2, <2>3, <2>4 DEF Idle
<1>8. req'[a] = answer /\ \A b \in Actor : b # a => req'[b] = req[b]
  BY <1>3 DEF DeliveryTypeOK
<1>9. DeliveryTypeOK'
  <2>1. req' \in [Actor -> RequestRow] /\ evidence' \in EvidenceRow
    BY <1>3, <1>6, <1>7 DEF DeliveryTypeOK
  <2> QED
    BY <1>3, <2>1 DEF DeliveryTypeOK
<1>10. LockedSeesAll'
  <2>1. \A b \in Actor : req'[b].phase # "locked" /\ b # NoOne
    BY <1>1, <1>7, <1>8, DeliveryAssumption DEF LockedSeesAll, Actor, NoOne
  <2> QED
    BY <1>3, <2>1 DEF LockedSeesAll
<1>11. LabelsWereIssued'
  BY <1>3, <1>5, <1>7, <1>8 DEF LabelsWereIssued
<1>12. AnswersAreTrue'
  <2>1. evidence # NoEvidence => evidence' = evidence
    BY <1>3, <1>4
  <2>2. answer.phase = "confirmed" => evidence' = own
    BY <1>3, <1>4, <1>7
  <2>3. answer.phase = "refused" => evidence' \notin {NoEvidence, own}
    BY <1>3, <1>4, <1>7
  <2>4. ASSUME NEW p \in Person, p # a
        PROVE  /\ req'[p].phase = "confirmed" => evidence' = [token |-> req'[p].token, by |-> p]
               /\ req'[p].phase = "refused" =>
                     evidence' \notin {NoEvidence, [token |-> req'[p].token, by |-> p]}
    <3>1. req'[p] = req[p] /\ p # NoOne
      BY <1>8, <2>4, DeliveryAssumption DEF Actor, NoOne
    <3>2. [token |-> req[p].token, by |-> p] # NoEvidence
      BY <3>1 DEF NoEvidence
    <3> QED
      BY <2>1, <3>1, <3>2 DEF AnswersAreTrue
  <2> QED
    BY <1>7, <1>8, <2>2, <2>3, <2>4 DEF AnswersAreTrue
<1>13. ASSUME evidence' # evidence
       PROVE  /\ evidence = NoEvidence
              /\ tokens[evidence'.token].revoked < 0 /\ ~Expired(tokens[evidence'.token], carton)
              /\ Inspected(carton) /\ carton.dispatched >= 0
  <2>1. open /\ evidence = NoEvidence /\ evidence'.token = t
    BY <1>3, <1>4, <1>13
  <2>2. s.carton.dispatched = carton.dispatched /\ carton.dispatched >= 0
    BY <1>1, <2>1
  <2>3. Expired(s.tokens[t], s.carton) <=> Expired(tokens[t], carton)
    BY <1>1, <2>2 DEF Expired
  <2> QED
    BY <1>1, <2>1, <2>2, <2>3 DEF Opens
<1> QED
  BY <1>3, <1>9, <1>10, <1>11, <1>12, <1>13 DEF OneLiveCredential

-----------------------------------------------------------------------------
(* The theorems *)

LEMMA NextDelivery == DeliveryIInv /\ [DeliveryNext]_deliveryVars => DeliveryIInv'
<1> SUFFICES ASSUME DeliveryIInv, [DeliveryNext]_deliveryVars PROVE DeliveryIInv'
  OBVIOUS
<1>1. CASE \/ EditCarton \/ InspectCarton \/ RetireIt \/ FinalizeItsDispatch
           \/ RecordItsDispatch \/ Tick \/ UNCHANGED deliveryVars
  BY <1>1, SurroundingsKeepDelivery
<1>2. ASSUME NEW a \in Actor, Send(a) \/ Lock(a) \/ Commit(a) PROVE DeliveryIInv'
  BY <1>2, SendKeepsDelivery, LockKeepsDelivery, PrepareLabelKeepsDelivery, ManageCredentialKeepsDelivery,
     ConfirmKeepsDelivery DEF Commit
<1> QED
  BY <1>1, <1>2 DEF DeliveryNext

\* The inductive invariant: types, one live credential, the holder of the locks has
\* read what is so, labels carry issued credentials, and answers are true.
THEOREM DeliveryInvariance == DeliverySpec => []DeliveryIInv
  BY InitDelivery, NextDelivery, PTL DEF DeliverySpec

\* Types, for any number of desks, deliverers and credentials (the carton row,
\* CartonDeliveryToken and CartonDeliveryConfirmation).
THEOREM DeliveryTypeCorrect == DeliverySpec => []DeliveryTypeOK
  BY DeliveryInvariance, PTL DEF DeliveryIInv

\* Printing, revoking and replacing at any number of desks leaves at most one label
\* that works (prepareLabel and manage).
THEOREM OneCredentialLives == DeliverySpec => []OneLiveCredential
  BY DeliveryInvariance, PTL DEF DeliveryIInv

\* Nobody is told an untruth about his delivery, whatever answers were lost
\* (confirm).
THEOREM AnswersStayTrue == DeliverySpec => []AnswersAreTrue
  BY DeliveryInvariance, PTL DEF DeliveryIInv

\* Evidence is written once, by a credential that is good at that moment, of an
\* inspected and dispatched carton (confirm under the locks of the carton).
THEOREM DeliveriesAreByGoodLabels == DeliverySpec => DeliveredByAGoodLabel
<1>1. ASSUME DeliveryIInv, [DeliveryNext]_deliveryVars, evidence' # evidence
      PROVE  /\ evidence = NoEvidence
             /\ tokens[evidence'.token].revoked < 0 /\ ~Expired(tokens[evidence'.token], carton)
             /\ Inspected(carton) /\ carton.dispatched >= 0
  <2>1. PICK a \in Actor : Commit(a)
    BY <1>1 DEF DeliveryNext, deliveryVars, EditCarton, InspectCarton, RetireIt, FinalizeItsDispatch,
       ChangeCarton, RecordItsDispatch, Tick, Send, Lock
  <2>2. Confirm(a) /\ req[a].phase = "locked"
    BY <1>1, <2>1 DEF Commit, PrepareLabel, ManageCredential
  <2> QED
    BY <1>1, <2>2, ConfirmKeepsDelivery
<1> QED
  BY <1>1, DeliveryInvariance, PTL DEF DeliverySpec, DeliveredByAGoodLabel
=============================================================================
