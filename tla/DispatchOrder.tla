---------------------------- MODULE DispatchOrder ----------------------------
(***************************************************************************)
(* Dispatch Orders: pooled reservation of QA-released stock, the surgical  *)
(* edit of an order's lines, and factory packing in cartons up to the     *)
(* READY_FOR_ERVE fact that locks the order.                               *)
(*                                                                         *)
(* Every handler modelled here runs in one database transaction that holds *)
(* the advisory lock sale-order-{id} from before its first read to its     *)
(* commit (and the pool locks while it reserves), so a handler is one      *)
(* action.  PoolReservation.tla opens the reservation up, statement by     *)
(* statement.  A request that is refused writes nothing and is no step.    *)
(***************************************************************************)
EXTENDS Integers, FiniteSets, Sequences, SequencesExt, Sums

CONSTANTS
    Order,          \* dispatch order ids
    Factory,        \* factories
    Dest,           \* destination ids, natural numbers: ids are compared
    Style, Size,    \* a pool is one factory's stock of one style and size
    Configured,     \* [Style -> SUBSET Size], the ACTIVE StyleSize rows
    Inspector,      \* QA users
    Total,          \* the style totals a merchandiser may enter
    ReleaseQty,     \* the quantities a final inspection may release
    MaxRelease,     \* bound on the number of QA release lines
    MaxLine,        \* bound on the line ids ever in use at once
    MaxCarton,      \* bound on the cartons alive at once
    MaxVersion      \* bound on a carton's version

VARIABLES
    releases,       \* QaReleaseLine rows, oldest first
    orders,         \* order -> its factory and destinations, or NoOrder
    lines,          \* line id -> SaleOrderLine with its StockAllocation rows
    dispatch,       \* order -> the status of its one FactoryDispatch
    cartons,        \* carton id -> FactoryPackingCarton
    inspecting      \* inspector -> the carton and version on the screen

vars == <<releases, orders, lines, dispatch, cartons, inspecting>>

NoOrder  == [factory |-> "none", dests |-> {}]
NoScreen == [carton |-> 0, version |-> 0]

LineId   == 1 .. MaxLine
CartonId == 1 .. MaxCarton
Release  == DOMAIN releases
Item     == Style \X Size

ASSUME BoundsAssumption ==
    /\ {MaxRelease, MaxLine, MaxCarton, MaxVersion} \subseteq Nat \ {0}
    /\ Dest \subseteq Nat /\ IsFiniteSet(Dest) /\ IsFiniteSet(Style) /\ IsFiniteSet(Size)
    /\ Total \subseteq Nat \ {0}
    /\ ReleaseQty \subseteq Nat \ {0}
    /\ Configured \in [Style -> SUBSET Size]
    /\ "none" \notin Factory

-----------------------------------------------------------------------------
(* Types *)

QaReleaseLine == [factory: Factory, item: Item, quantity: ReleaseQty]

\* A line has at most one allocation per release line, so allocations are a
\* function of the release line.  Ids are given in the order of creation; packed
\* is the packedQuantity of the FactoryDispatchLine that attributes packed pieces
\* to the allocation, 0 for no such row.
StockAllocation == [id: Nat \ {0}, quantity: Nat \ {0}, active: BOOLEAN, packed: Nat]

IsLine(l) ==
    /\ DOMAIN l = {"order", "dest", "item", "quantity", "allocations"}
    /\ l.order \in Order /\ l.dest \in Dest /\ l.item \in Item
    /\ l.quantity \in Nat \ {0}
    /\ DOMAIN l.allocations \subseteq Release
    /\ \A r \in DOMAIN l.allocations : l.allocations[r] \in StockAllocation

\* contents maps a line id to the pieces of it in the carton; weighed says
\* that net weight, gross weight and dimensions are all filled in; audited is
\* the latest version with a FactoryPackingCartonAudit row, 0 for none.
IsCarton(c) ==
    /\ DOMAIN c = {"order", "dest", "contents", "weighed", "version",
                   "audited", "retired"}
    /\ c.order \in Order /\ c.dest \in Dest
    /\ DOMAIN c.contents \subseteq DOMAIN lines
    /\ \A l \in DOMAIN c.contents : c.contents[l] \in Nat \ {0}
    /\ c.weighed \in BOOLEAN /\ c.retired \in BOOLEAN
    /\ c.version \in 1 .. MaxVersion /\ c.audited \in 0 .. c.version

TypeOK ==
    /\ releases \in Seq(QaReleaseLine)
    /\ orders \in [Order -> {NoOrder} \cup [factory: Factory, dests: SUBSET Dest]]
    /\ DOMAIN lines \subseteq LineId /\ \A l \in DOMAIN lines : IsLine(lines[l])
    /\ dispatch \in [Order -> {"none", "DRAFT", "READY_FOR_ERVE"}]
    /\ DOMAIN cartons \subseteq CartonId
    /\ \A c \in DOMAIN cartons : IsCarton(cartons[c])
    /\ inspecting \in [Inspector -> [carton: 0 .. MaxCarton, version: 0 .. MaxVersion]]

-----------------------------------------------------------------------------
(* Quantities *)

\* the entries of old with those of new written over them
Over(new, old) ==
    [x \in DOMAIN new \cup DOMAIN old |-> IF x \in DOMAIN new THEN new[x] ELSE old[x]]

LinesOf(L, o)   == {l \in DOMAIN L : L[l].order = o}
CartonsOf(C, o) == {c \in DOMAIN C : C[c].order = o}

Allocated(line) == DOMAIN line.allocations
Active(line)    == {r \in Allocated(line) : line.allocations[r].active}
Pieces(line)    == [r \in Allocated(line) |-> line.allocations[r].quantity]
Packed(line)    == [r \in Allocated(line) |-> line.allocations[r].packed]

Reserved(line)   == Sum(Pieces(line), Active(line))
Attributed(line) == Sum(Packed(line), Active(line))

\* pieces of release line r committed to a line, and to every line of any order
Held(line, r)   == IF r \in Active(line) THEN line.allocations[r].quantity ELSE 0
Committed(L, r) == Sum([l \in DOMAIN L |-> Held(L[l], r)], DOMAIN L)

Available_of_the_release_alone(L, r) == releases[r].quantity
Available(L, r) == releases[r].quantity - Committed(L, r)

InCarton(carton, l) ==
    IF ~ carton.retired /\ l \in DOMAIN carton.contents THEN carton.contents[l] ELSE 0
PhysicalPacked(C, l) == Sum([c \in DOMAIN C |-> InCarton(C[c], l)], DOMAIN C)

Locked(o) == dispatch[o] = "READY_FOR_ERVE"

-----------------------------------------------------------------------------
(* Reservation: reserveAcrossPools, planPoolAllocation and the writing of its *)
(* plan by createOrMergeAllocations *)

PoolOf(f, item) ==
    {r \in Release : releases[r].factory = f /\ releases[r].item = item}

\* What the planner may take of each release line of a pool.  planned is what
\* the same edit releases: the code adds it to an availability it has read
\* AFTER those releases were written.
Candidates(L, f, item, planned) ==
    [r \in PoolOf(f, item) |-> Max({0, Available(L, r) + planned[r]})]

\* The length of the overlap of [a, a + m) and [b, b + n).
Overlap(a, m, b, n) == Max({0, Min({a + m, b + n}) - Max({a, b})})

\* The demand D of a request maps lines to the pieces they still need.  The
\* planner walks the lines of a pool by destination and the candidates by age,
\* consuming both monotonically: laid end to end, a line takes what it overlaps.
Before(L, D, l) == {k \in DOMAIN D : L[k].item = L[l].item /\ L[k].dest < L[l].dest}

Share(L, D, free, l, r) ==
    Overlap(Sum(D, Before(L, D, l)), D[l], Sum(free, {b \in DOMAIN free : b < r}), free[r])

Granted(L, D, free, l) ==
    [r \in {r \in DOMAIN free : Share(L, D, free, l, r) > 0} |-> Share(L, D, free, l, r)]

Rank(x, S) == Cardinality({y \in S : y <= x})

\* An ACTIVE row of the same line and release line is incremented, a RELEASED
\* one is revived, otherwise a row is created.
Merge(rows, grants) ==
    LET fresh == DOMAIN grants \ DOMAIN rows
        last  == Max({0} \cup {rows[r].id : r \in DOMAIN rows})
        row(r) == IF r \in fresh
                  THEN [id |-> last + Rank(r, fresh), quantity |-> grants[r],
                        active |-> TRUE, packed |-> 0]
                  ELSE [rows[r] EXCEPT !.active = TRUE,
                                       !.quantity = grants[r] + IF rows[r].active THEN @ ELSE 0]
    IN  Over([r \in DOMAIN grants |-> row(r)], rows)

Sufficient(L, f, D, planned) ==
    \A l \in DOMAIN D :
        LET free == Candidates(L, f, L[l].item, planned)
        IN  Sum(D, {k \in DOMAIN D : L[k].item = L[l].item}) <= Sum(free, DOMAIN free)

Reserve(L, f, D, planned) ==
    Over([l \in DOMAIN D |->
            [L[l] EXCEPT !.allocations =
               Merge(@, Granted(L, D, Candidates(L, f, L[l].item, planned), l))]], L)

NothingPlanned == [r \in Release |-> 0]

-----------------------------------------------------------------------------
(* The lines a request asks for: expandStyleTotalsToLines *)

\* A request gives one total per destination and style; every destination it
\* names has at least one.
Requests == {want \in UNION {[W -> Total] : W \in SUBSET (Dest \X Style)} :
               want # <<>>}
DestsOf(want) == {w[1] : w \in DOMAIN want}

\* a size that ever had stock in the factory stays in the split
EligibleSizes(f, s) ==
    Configured[s] \cup {z \in Size : PoolOf(f, <<s, z>>) # {}}

Splits(f, want) ==
    \A w \in DOMAIN want :
        LET n == Cardinality(EligibleSizes(f, w[2]))
        IN  n > 0 /\ want[w] % n = 0

\* the wanted lines; an order has one line per destination and item
Expand(f, want) ==
    UNION {{[dest |-> w[1], item |-> <<w[2], z>>,
             quantity |-> want[w] \div Cardinality(EligibleSizes(f, w[2]))] :
            z \in EligibleSizes(f, w[2])} : w \in DOMAIN want}

\* First the line with the very same destination and item.  A wanted line
\* without one takes over an unclaimed line of its item, lowest id first: a
\* line that MOVES keeps its id and with it its allocations and cartons.
SameGrain(line, e) == line.dest = e.dest /\ line.item = e.item
Exact(L, o, e)     == {l \in LinesOf(L, o) : SameGrain(L[l], e)}

Continued(L, o, E, e) ==
    LET waiting   == {d.dest : d \in {d \in E : d.item = e.item /\ Exact(L, o, d) = {}}}
        unclaimed == {l \in LinesOf(L, o) :
                        L[l].item = e.item /\ ~ \E d \in E : SameGrain(L[l], d)}
    IN  IF Exact(L, o, e) # {} THEN Exact(L, o, e)
        ELSE {l \in unclaimed : Rank(l, unclaimed) = Rank(e.dest, waiting)}

\* Targets: the wanted lines by their ids; new ids follow the ones in use.
Fresh(L, E) ==
    LET new  == SetToSeq(E)
        last == Max({0} \cup DOMAIN L)
    IN  [l \in last + 1 .. last + Len(new) |-> new[l - last]]

Targets(L, o, E) ==
    Over([l \in UNION {Continued(L, o, E, e) : e \in E} |->
            CHOOSE e \in E : l \in Continued(L, o, E, e)],
         Fresh(L, {e \in E : Continued(L, o, E, e) = {}}))

Quantities(T) == [l \in DOMAIN T |-> T[l].quantity]

NewLines(o, T) ==
    [l \in DOMAIN T |->
       [order |-> o, dest |-> T[l].dest, item |-> T[l].item,
        quantity |-> T[l].quantity, allocations |-> <<>>]]

-----------------------------------------------------------------------------
(* createDispatchOrder *)

CreateDispatchOrder(o, f, want) ==
    LET T == Fresh(lines, Expand(f, want))
        D == Quantities(T)
        L == Over(NewLines(o, T), lines)
    IN  /\ orders[o] = NoOrder
        /\ Splits(f, want)
        /\ DOMAIN T \subseteq LineId
        /\ Sufficient(L, f, D, NothingPlanned)
        /\ orders' = [orders EXCEPT ![o] = [factory |-> f, dests |-> DestsOf(want)]]
        /\ lines' = Reserve(L, f, D, NothingPlanned)
        /\ UNCHANGED <<releases, dispatch, cartons, inspecting>>

-----------------------------------------------------------------------------
(* updateDispatchOrder, the factory unchanged *)

\* Attribution is re-checked against the cartons before anything is planned.
Consistent(o) ==
    \A l \in LinesOf(lines, o) : Attributed(lines[l]) = PhysicalPacked(cartons, l)

Kept(o, T)    == LinesOf(lines, o) \cap DOMAIN T
Removed(o, T) == LinesOf(lines, o) \ DOMAIN T

\* What a kept line loses is taken from its newest allocations first, never
\* below what is attributed as packed.
Drop(T, l) == Max({0, lines[l].quantity - T[l].quantity})

Releasable_below_packed(line) ==
    [r \in Allocated(line) |-> IF line.allocations[r].active THEN line.allocations[r].quantity ELSE 0]
Releasable(line) ==
    [r \in Allocated(line) |-> IF line.allocations[r].active
                               THEN line.allocations[r].quantity - line.allocations[r].packed ELSE 0]

Newer(line, r) ==
    {s \in Allocated(line) : line.allocations[s].id > line.allocations[r].id}

Taken(line, drop) ==
    [r \in Allocated(line) |->
       Max({0, Min({Releasable(line)[r], drop - Sum(Releasable(line), Newer(line, r))})})]

\* A row released in full keeps its quantity and becomes RELEASED.
Reduced(line, drop) ==
    [r \in Allocated(line) |->
       LET a == line.allocations[r]
           n == Taken(line, drop)[r]
       IN  IF n = 0 THEN a
           ELSE IF n = a.quantity THEN [a EXCEPT !.active = FALSE]
           ELSE [a EXCEPT !.quantity = @ - n]]

\* The lines once the releases and deletions of an edit are written and before
\* it reserves anything.
Edited(o, T) ==
    LET kept  == [l \in Kept(o, T) |->
                    [lines[l] EXCEPT !.dest = T[l].dest, !.quantity = T[l].quantity,
                                     !.allocations = Reduced(lines[l], Drop(T, l))]]
        added == NewLines(o, [l \in DOMAIN T \ DOMAIN lines |-> T[l]])
    IN  Over(kept, Over(added, [l \in DOMAIN lines \ Removed(o, T) |-> lines[l]]))

ReleasedFrom(T, l, r) ==
    IF r \notin Active(lines[l]) THEN 0
    ELSE IF l \in DOMAIN T THEN Taken(lines[l], Drop(T, l))[r] ELSE lines[l].allocations[r].quantity

PlannedRelease(o, T) ==
    [r \in Release |->
       Sum([l \in LinesOf(lines, o) |-> ReleasedFrom(T, l, r)], LinesOf(lines, o))]

\* measured against the allocations as loaded, before the releases
ExtraDemand(o, T) ==
    LET held(l) == IF l \in Kept(o, T) THEN Reserved(lines[l]) ELSE 0
    IN  [l \in {l \in DOMAIN T : T[l].quantity > held(l)} |-> T[l].quantity - held(l)]

DroppedDests(o, want) == orders[o].dests \ DestsOf(want)

EditAllowed_below_packed(o, want, T) ==
    /\ ~ Locked(o) /\ Consistent(o)
    /\ Splits(orders[o].factory, want)
    /\ \A l \in Removed(o, T) : PhysicalPacked(cartons, l) = 0
    /\ \A c \in CartonsOf(cartons, o) : cartons[c].dest \notin DroppedDests(o, want)

EditAllowed(o, want, T) ==
    /\ ~ Locked(o) /\ Consistent(o)
    /\ Splits(orders[o].factory, want)
    /\ \A l \in Removed(o, T) : PhysicalPacked(cartons, l) = 0
    /\ \A l \in Kept(o, T) : T[l].quantity < lines[l].quantity
                               => T[l].quantity >= PhysicalPacked(cartons, l)
    /\ \A c \in CartonsOf(cartons, o) : cartons[c].dest \notin DroppedDests(o, want)

\* The rows that still reference a line when it is deleted: only its ACTIVE
\* allocations are deleted with it, and a retired carton keeps its contents.
\* Both foreign keys are ON DELETE RESTRICT.
StillReferenced(l) ==
    \/ Allocated(lines[l]) # Active(lines[l])
    \/ \E c \in DOMAIN cartons : l \in DOMAIN cartons[c].contents

Moved(o, T) == {l \in Kept(o, T) : T[l].dest # lines[l].dest}

Touched_by_address_only(o, T, corrected) ==
    {c \in CartonsOf(cartons, o) : ~ cartons[c].retired /\ cartons[c].dest \in corrected}

\* a corrected address or a moved line invalidates the audit of a carton
Touched(o, T, corrected) ==
    {c \in CartonsOf(cartons, o) :
       /\ ~ cartons[c].retired
       /\ \/ cartons[c].dest \in corrected
          \/ DOMAIN cartons[c].contents \cap Moved(o, T) # {}}

Bumped(cs) == Over([c \in cs |-> [cartons[c] EXCEPT !.version = @ + 1]], cartons)

UpdateDispatchOrder(o, want) ==
    LET f == orders[o].factory
        T == Targets(lines, o, Expand(f, want))
        L == Edited(o, T)
        D == ExtraDemand(o, T)
        planned == PlannedRelease(o, T)
    IN  /\ orders[o] # NoOrder
        /\ EditAllowed(o, want, T)
        /\ ~ \E l \in Removed(o, T) : StillReferenced(l)
        /\ DOMAIN T \subseteq LineId
        /\ Sufficient(L, f, D, planned)
        /\ lines' = Reserve(L, f, D, planned)
        /\ orders' = [orders EXCEPT ![o].dests = DestsOf(want)]
        /\ \E corrected \in SUBSET (orders[o].dests \cap DestsOf(want)) :
              /\ \A c \in Touched(o, T, corrected) : cartons[c].version < MaxVersion
              /\ cartons' = Bumped(Touched(o, T, corrected))
        /\ UNCHANGED <<releases, dispatch, inspecting>>

-----------------------------------------------------------------------------
(* updateDispatchOrder, the factory changed *)

DropDispatch(o) ==
    /\ dispatch' = [dispatch EXCEPT ![o] = "none"]
    /\ cartons' = [c \in DOMAIN cartons \ CartonsOf(cartons, o) |-> cartons[c]]
    /\ inspecting' = [i \in Inspector |->
                        IF inspecting[i].carton \in CartonsOf(cartons, o)
                        THEN NoScreen ELSE inspecting[i]]

Unpacked(line) ==
    [line EXCEPT !.allocations = [r \in DOMAIN @ |-> [@[r] EXCEPT !.packed = 0]]]

Unreserved_but_active(line) == Unpacked(line)
Unreserved(line) ==
    [line EXCEPT !.allocations =
       [r \in DOMAIN @ |-> [@[r] EXCEPT !.active = FALSE, !.packed = 0]]]

FactoryChangeAllowed(o, g, want) ==
    /\ ~ Locked(o) /\ Consistent(o)
    /\ g # orders[o].factory
    /\ Splits(g, want)
    /\ \A l \in LinesOf(lines, o) : PhysicalPacked(cartons, l) = 0

\* The full replacement creates every wanted line and deletes none of the old
\* ones: a wanted line an old one matches violates the grain key, and a
\* dropped destination is still referenced by its old lines.
Collides(o, g, want) ==
    \E l \in LinesOf(lines, o) :
        \/ \E e \in Expand(g, want) : SameGrain(lines[l], e)
        \/ lines[l].dest \in DroppedDests(o, want)

ChangeFactory(o, g, want) ==
    LET T == Fresh(lines, Expand(g, want))
        D == Quantities(T)
        L == Over([l \in LinesOf(lines, o) |-> Unreserved(lines[l])],
                  Over(NewLines(o, T), lines))
    IN  /\ orders[o] # NoOrder
        /\ FactoryChangeAllowed(o, g, want)
        /\ ~ Collides(o, g, want)
        /\ DOMAIN T \subseteq LineId
        /\ Sufficient(L, g, D, NothingPlanned)
        /\ lines' = Reserve(L, g, D, NothingPlanned)
        /\ orders' = [orders EXCEPT ![o] = [factory |-> g, dests |-> DestsOf(want)]]
        /\ DropDispatch(o)
        /\ UNCHANGED releases

-----------------------------------------------------------------------------
(* Packing: the FactoryDispatch of an order and its cartons *)

\* reconcileFactoryDispatchLineAttribution: the packed pieces of a line are
\* attributed to its ACTIVE allocations, oldest release first.
Attribute(line, packed) ==
    LET rest(r) == packed - Sum(Pieces(line), {s \in Active(line) : s < r})
    IN  [line EXCEPT !.allocations =
           [r \in DOMAIN @ |->
              IF r \in Active(line)
              THEN [@[r] EXCEPT !.packed = Max({0, Min({line.allocations[r].quantity, rest(r)})})]
              ELSE @[r]]]

Reconcile(C, ls) ==
    lines' = [l \in DOMAIN lines |->
                IF l \in ls THEN Attribute(lines[l], PhysicalPacked(C, l)) ELSE lines[l]]

\* pieces that no ACTIVE allocation can own abort the transaction
Attributable(C, ls) == \A l \in ls : PhysicalPacked(C, l) <= Reserved(lines[l])

\* what may go into a carton of order o for destination d
Contents(o, d) ==
    LET own == {l \in LinesOf(lines, o) : lines[l].dest = d}
    IN  UNION {[S -> 1 .. Max({lines[l].quantity : l \in S})] :
               S \in (SUBSET own) \ {{}}}

WithinOrder(C, ls) == \A l \in ls : PhysicalPacked(C, l) <= lines[l].quantity

AddFactoryPackingCarton(o, d, contents, weighed) ==
    \E c \in CartonId :
      LET new == [order |-> o, dest |-> d, contents |-> contents,
                  weighed |-> weighed, version |-> 1, audited |-> 0,
                  retired |-> FALSE]
          C   == [x \in DOMAIN cartons \cup {c} |->
                    IF x = c THEN new ELSE cartons[x]]
      IN  /\ orders[o] # NoOrder /\ d \in orders[o].dests
          /\ ~ Locked(o)
          /\ c \notin DOMAIN cartons /\ 1 .. c - 1 \subseteq DOMAIN cartons
          /\ WithinOrder(C, DOMAIN contents)
          /\ Attributable(C, DOMAIN contents)
          /\ dispatch' = [dispatch EXCEPT ![o] = "DRAFT"]
          /\ cartons' = C
          /\ Reconcile(C, DOMAIN contents)
          /\ UNCHANGED <<releases, orders, inspecting>>

\* A request that changes nothing is inert and no step; one that changes only
\* what is not modelled (package details, a weight's value) is a new version.
UpdateFactoryPackingCarton(c, d, contents, weighed) ==
    LET old == cartons[c]
        o   == old.order
        ls  == DOMAIN old.contents \cup DOMAIN contents
        C   == [cartons EXCEPT ![c].dest = d, ![c].contents = contents,
                               ![c].weighed = weighed, ![c].version = @ + 1]
    IN  /\ dispatch[o] = "DRAFT" /\ ~ old.retired
        /\ d \in orders[o].dests
        /\ old.version < MaxVersion
        /\ WithinOrder(C, DOMAIN contents)
        /\ Attributable(C, ls)
        /\ cartons' = C
        /\ Reconcile(C, ls)
        /\ UNCHANGED <<releases, orders, dispatch, inspecting>>

\* A carton that was ever audited is retired and kept; any other is deleted.
RemoveFactoryPackingCarton(c) ==
    LET old == cartons[c]
        C   == IF old.audited > 0
               THEN [cartons EXCEPT ![c].retired = TRUE]
               ELSE [x \in DOMAIN cartons \ {c} |-> cartons[x]]
    IN  /\ dispatch[old.order] = "DRAFT" /\ ~ old.retired
        /\ cartons' = C
        /\ Reconcile(C, DOMAIN old.contents)
        /\ inspecting' = [i \in Inspector |->
                            IF inspecting[i].carton = c /\ c \notin DOMAIN C
                            THEN NoScreen ELSE inspecting[i]]
        /\ UNCHANGED <<releases, orders, dispatch>>

\* abandoning a DRAFT dispatch takes every carton and audit with it
DeleteFactoryDispatch(o) ==
    /\ dispatch[o] = "DRAFT"
    /\ DropDispatch(o)
    /\ lines' = [l \in DOMAIN lines |->
                   IF lines[l].order = o THEN Unpacked(lines[l]) ELSE lines[l]]
    /\ UNCHANGED <<releases, orders>>

\* the inspector reads a carton of the audit queue, outside any transaction
OpenCarton(i, c) ==
    /\ inspecting[i] = NoScreen
    /\ dispatch[cartons[c].order] = "DRAFT" /\ ~ cartons[c].retired
    /\ inspecting' = [inspecting EXCEPT
                        ![i] = [carton |-> c, version |-> cartons[c].version]]
    /\ UNCHANGED <<releases, orders, lines, dispatch, cartons>>

Mismatched(c) ==
    \E l \in DOMAIN cartons[c].contents : lines[l].dest # cartons[c].dest

\* The request carries no version: the sign-off is recorded for the version
\* the carton has when the request is handled.
ConfirmCartonPackingAudit(i) ==
    LET c == inspecting[i].carton
    IN  /\ inspecting[i] # NoScreen
        /\ ~ cartons[c].retired /\ ~ Mismatched(c)
        /\ cartons' = [cartons EXCEPT ![c].audited = cartons[c].version]
        /\ inspecting' = [inspecting EXCEPT ![i] = NoScreen]
        /\ UNCHANGED <<releases, orders, lines, dispatch>>

CloseScreen(i) ==
    /\ inspecting[i] # NoScreen
    /\ inspecting' = [inspecting EXCEPT ![i] = NoScreen]
    /\ UNCHANGED <<releases, orders, lines, dispatch, cartons>>

FinalizeFactoryDispatch_on_any_audit(o) ==
    /\ dispatch[o] = "DRAFT"
    /\ LinesOf(lines, o) # {}
    /\ \A c \in CartonsOf(cartons, o) :
          ~ cartons[c].retired => /\ cartons[c].weighed
                                  /\ ~ Mismatched(c)
                                  /\ cartons[c].audited > 0
    /\ \A l \in LinesOf(lines, o) :
          /\ PhysicalPacked(cartons, l) = lines[l].quantity
          /\ Attributed(lines[l]) = PhysicalPacked(cartons, l)
    /\ dispatch' = [dispatch EXCEPT ![o] = "READY_FOR_ERVE"]
    /\ UNCHANGED <<releases, orders, lines, cartons, inspecting>>

FinalizeFactoryDispatch(o) ==
    /\ dispatch[o] = "DRAFT"
    /\ LinesOf(lines, o) # {}
    /\ \A c \in CartonsOf(cartons, o) :
          ~ cartons[c].retired => /\ cartons[c].weighed
                                  /\ ~ Mismatched(c)
                                  /\ cartons[c].audited = cartons[c].version
    /\ \A l \in LinesOf(lines, o) :
          /\ PhysicalPacked(cartons, l) = lines[l].quantity
          /\ Attributed(lines[l]) = PhysicalPacked(cartons, l)
    /\ dispatch' = [dispatch EXCEPT ![o] = "READY_FOR_ERVE"]
    /\ UNCHANGED <<releases, orders, lines, cartons, inspecting>>

\* a PASSed final inspection adds a release line to its factory's pool
QaRelease(f, item, quantity) ==
    /\ Len(releases) < MaxRelease
    /\ releases' = Append(releases, [factory |-> f, item |-> item, quantity |-> quantity])
    /\ UNCHANGED <<orders, lines, dispatch, cartons, inspecting>>

-----------------------------------------------------------------------------
(* Specification *)

Init ==
    /\ releases = <<>>
    /\ orders = [o \in Order |-> NoOrder]
    /\ lines = <<>>
    /\ dispatch = [o \in Order |-> "none"]
    /\ cartons = <<>>
    /\ inspecting = [i \in Inspector |-> NoScreen]

Merchandise ==
    \E o \in Order, want \in Requests :
       \/ \E f \in Factory : CreateDispatchOrder(o, f, want)
       \/ UpdateDispatchOrder(o, want)
       \/ \E g \in Factory : ChangeFactory(o, g, want)

Pack ==
    \/ \E o \in Order : \E d \in orders[o].dests, weighed \in BOOLEAN :
         \E contents \in Contents(o, d) : AddFactoryPackingCarton(o, d, contents, weighed)
    \/ \E c \in DOMAIN cartons :
         \/ \E d \in orders[cartons[c].order].dests, weighed \in BOOLEAN :
              \E contents \in Contents(cartons[c].order, d) :
                 UpdateFactoryPackingCarton(c, d, contents, weighed)
         \/ RemoveFactoryPackingCarton(c)
    \/ \E o \in Order : DeleteFactoryDispatch(o) \/ FinalizeFactoryDispatch(o)

Inspect ==
    \E i \in Inspector :
       \/ \E c \in DOMAIN cartons : OpenCarton(i, c)
       \/ ConfirmCartonPackingAudit(i)
       \/ CloseScreen(i)

Produce == \E f \in Factory, item \in Item, q \in ReleaseQty : QaRelease(f, item, q)

Next == Merchandise \/ Pack \/ Inspect \/ Produce

Spec == Init /\ [][Next]_vars

-----------------------------------------------------------------------------
(* Safety *)

\* No release line is committed beyond what final inspection released.
CommittedWithinReleased ==
    \A r \in Release : Committed(lines, r) <= releases[r].quantity

\* Every line is reserved in full, whatever edits the order has seen.
FullyReserved ==
    \A l \in DOMAIN lines : Reserved(lines[l]) = lines[l].quantity

\* A reservation is always of the order's own factory and of the line's own
\* style and size, also after the factory or the destinations were changed.
ReservedFromItsPool ==
    \A l \in DOMAIN lines :
        Active(lines[l]) \subseteq PoolOf(orders[lines[l].order].factory, lines[l].item)

\* The derived attribution always equals the cartons, row by row within an
\* ACTIVE allocation: edits and carton changes, in any order, keep the ledger
\* that finalize and edits re-check in step.
AttributionExact ==
    /\ \A o \in Order : Consistent(o)
    /\ \A l \in DOMAIN lines : \A r \in Allocated(lines[l]) :
          LET a == lines[l].allocations[r] IN
          a.packed <= IF a.active THEN a.quantity ELSE 0

\* Goods in cartons are always covered by a reservation, and a reservation
\* never exceeds the order: no edit releases stock that is packed.
PackedIsReserved ==
    \A l \in DOMAIN lines :
        /\ PhysicalPacked(cartons, l) <= Reserved(lines[l])
        /\ Reserved(lines[l]) <= lines[l].quantity

\* A carton that counts as inspected holds only lines of its own destination:
\* moving a line between destinations costs its cartons their audit.
AuditedCartonMatches ==
    \A c \in DOMAIN cartons :
        ~ cartons[c].retired /\ cartons[c].audited = cartons[c].version
          => ~ Mismatched(c)

\* An order handed to Erve is packed to the piece, every carton inspected in
\* its last state, and still is at any later time.
ReadyIsComplete ==
    \A o \in Order : Locked(o) =>
        /\ LinesOf(lines, o) # {}
        /\ \A l \in LinesOf(lines, o) :
              /\ PhysicalPacked(cartons, l) = lines[l].quantity
              /\ Reserved(lines[l]) = lines[l].quantity
        /\ \A c \in CartonsOf(cartons, o) : ~ cartons[c].retired =>
              /\ cartons[c].weighed
              /\ cartons[c].audited = cartons[c].version
              /\ ~ Mismatched(c)

\* No edit that passes every validation fails on a foreign key or a unique key.
NoConstraintError ==
    \A o \in Order, want \in Requests : orders[o] # NoOrder =>
        LET T == Targets(lines, o, Expand(orders[o].factory, want))
        IN  EditAllowed(o, want, T) => ~ \E l \in Removed(o, T) : StillReferenced(l)

-----------------------------------------------------------------------------
(* Action properties *)

\* Apart from an edit that gives pieces of a release line back, no step commits
\* more of it than is left: not a new order, a growing one, one that moves to
\* another factory, or one that takes over what another order gave back.
OnlyReleasingEditsOverAllocate ==
    [][\A r \in Release :
          Committed(lines', r) > Max({releases[r].quantity, Committed(lines, r)})
            => \E l \in DOMAIN lines :
                  l \notin DOMAIN lines' \/ Held(lines'[l], r) < Held(lines[l], r)]_vars

\* A sign-off is for the version the inspector looked at.
AuditCertifiesWhatWasSeen ==
    [][\A i \in Inspector :
          ConfirmCartonPackingAudit(i)
            => inspecting[i].version = cartons[inspecting[i].carton].version]_vars
=============================================================================
