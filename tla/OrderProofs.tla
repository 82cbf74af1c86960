----------------------------- MODULE OrderProofs -----------------------------
(***************************************************************************)
(* Orders: what is packed stays reserved, attributed and inspected through *)
(* every edit (DispatchOrder), and creating an order, statement by         *)
(* statement, never takes more than is there (PoolReservation), for any    *)
(* orders, pools, quantities and bounds.                                   *)
(***************************************************************************)
EXTENDS DispatchOrder, PoolReservation, SumTheorems

-----------------------------------------------------------------------------
(* The inductive invariant *)

\* The allocation rows of a line that belongs to an order of factory f and of which
\* p pieces lie in cartons.
RowsGood(f, line, p) ==
    /\ \A r \in Allocated(line) :
          line.allocations[r].packed <= IF line.allocations[r].active
                                        THEN line.allocations[r].quantity ELSE 0
    /\ \A r, s \in Allocated(line) : line.allocations[r].id = line.allocations[s].id => r = s
    /\ Active(line) \subseteq PoolOf(f, line.item)
    /\ Attributed(line) = p

\* A line is reserved in full, or not at all after its order moved to another factory.
LinesGood ==
    \A l \in DOMAIN lines :
       /\ RowsGood(orders[lines[l].order].factory, lines[l], PhysicalPacked(cartons, l))
       /\ Reserved(lines[l]) \in {0, lines[l].quantity}

NothingWithoutOrder ==
    \A o \in Order : orders[o] = NoOrder =>
       LinesOf(lines, o) = {} /\ CartonsOf(cartons, o) = {} /\ dispatch[o] = "none"

ContentsOfOrder ==
    \A c \in DOMAIN cartons : \A l \in DOMAIN cartons[c].contents :
       lines[l].order = cartons[c].order

\* the unique key (saleOrderId, destinationId, style, size)
OneLinePerGrain ==
    \A k, l \in DOMAIN lines :
       lines[k].order = lines[l].order /\ SameGrain(lines[k], lines[l]) => k = l

ScreensOpen ==
    \A i \in Inspector : inspecting[i] # NoScreen => inspecting[i].carton \in DOMAIN cartons

IInv ==
    /\ TypeOK /\ LinesGood /\ NothingWithoutOrder /\ ContentsOfOrder /\ OneLinePerGrain
    /\ ScreensOpen /\ AuditedCartonMatches /\ ReadyIsComplete

-----------------------------------------------------------------------------
(* The rows of a line *)

LEMMA ReleasesFinite ==
    ASSUME releases \in Seq(QaReleaseLine)
    PROVE  IsFiniteSet(Release) /\ Release \subseteq Nat
<1>1. Release = 1 .. Len(releases) /\ Len(releases) \in Nat
  BY DEF Release
<1> QED
  BY <1>1, FS_Interval

LEMMA IdsFinite ==
    /\ IsFiniteSet(LineId) /\ LineId \subseteq Nat
    /\ IsFiniteSet(CartonId) /\ CartonId \subseteq Nat
<1>1. MaxLine \in Nat /\ MaxCarton \in Nat
  BY BoundsAssumption
<1>2. LineId = 1 .. MaxLine /\ CartonId = 1 .. MaxCarton
  BY DEF LineId, CartonId
<1> QED
  BY <1>1, <1>2, FS_Interval

\* A line is a record with finitely many typed rows.
LEMMA LineTyped ==
    ASSUME releases \in Seq(QaReleaseLine), NEW line, IsLine(line)
    PROVE  /\ IsFiniteSet(Allocated(line)) /\ Allocated(line) \subseteq Nat
           /\ IsFiniteSet(Active(line)) /\ Active(line) \subseteq Allocated(line)
           /\ Allocated(line) \subseteq Release
           /\ \A r \in Allocated(line) :
                 /\ line.allocations[r] \in StockAllocation
                 /\ line.allocations[r].id \in Nat \ {0}
                 /\ line.allocations[r].quantity \in Nat \ {0}
                 /\ line.allocations[r].active \in BOOLEAN
                 /\ line.allocations[r].packed \in Nat
           /\ line.quantity \in Nat \ {0}
           /\ Reserved(line) \in Nat /\ Attributed(line) \in Nat
<1>2. IsFiniteSet(Release) /\ Release \subseteq Nat
  BY ReleasesFinite
<1>3. Allocated(line) \subseteq Release /\ Active(line) \subseteq Allocated(line)
  BY DEF IsLine, Allocated, Active
<1>4. IsFiniteSet(Allocated(line)) /\ IsFiniteSet(Active(line))
  BY <1>2, <1>3, FS_Subset
<1>5. \A r \in Allocated(line) : line.allocations[r] \in StockAllocation
  BY DEF IsLine, Allocated
<1>6. \A r \in Allocated(line) :
         /\ line.allocations[r].id \in Nat \ {0}
         /\ line.allocations[r].quantity \in Nat \ {0}
         /\ line.allocations[r].active \in BOOLEAN
         /\ line.allocations[r].packed \in Nat
  BY <1>5 DEF StockAllocation
<1>7. Reserved(line) \in Nat
  <2>1. \A r \in Active(line) : Pieces(line)[r] \in Nat
    BY <1>3, <1>6 DEF Pieces
  <2> QED
    BY <1>4, <2>1, SumNat DEF Reserved
<1>8. Attributed(line) \in Nat
  <2>1. \A r \in Active(line) : Packed(line)[r] \in Nat
    BY <1>3, <1>6 DEF Packed
  <2> QED
    BY <1>4, <2>1, SumNat DEF Attributed
<1> QED
  BY <1>2, <1>3, <1>4, <1>5, <1>6, <1>7, <1>8 DEF IsLine

\* New rows in a line leave the rest of it as it is.
LEMMA LineWithRows ==
    ASSUME NEW line, IsLine(line), NEW rows, NEW new, new = [line EXCEPT !.allocations = rows],
           DOMAIN rows \subseteq Release, \A r \in DOMAIN rows : rows[r] \in StockAllocation
    PROVE  /\ IsLine(new) /\ new.allocations = rows
           /\ new.order = line.order /\ new.dest = line.dest
           /\ new.item = line.item /\ new.quantity = line.quantity
  BY DEF IsLine

\* What is attributed to the rows is covered by them.
LEMMA AttributedIsReserved ==
    ASSUME releases \in Seq(QaReleaseLine), NEW line, IsLine(line), NEW f, NEW p,
           RowsGood(f, line, p)
    PROVE  p \in Nat /\ p <= Reserved(line)
<1>1. \A r \in Active(line) : /\ Packed(line)[r] \in Int /\ Pieces(line)[r] \in Int
                              /\ Packed(line)[r] <= Pieces(line)[r]
  <2> SUFFICES ASSUME NEW r \in Active(line)
               PROVE  /\ Packed(line)[r] \in Int /\ Pieces(line)[r] \in Int
                      /\ Packed(line)[r] <= Pieces(line)[r]
    OBVIOUS
  <2>1. r \in Allocated(line) /\ line.allocations[r].active
    BY DEF Active
  <2>2. line.allocations[r].packed <= line.allocations[r].quantity
    BY <2>1 DEF RowsGood
  <2> QED
    BY <2>1, <2>2, LineTyped DEF Packed, Pieces
<1>2. Attributed(line) <= Reserved(line)
  BY <1>1, LineTyped, SumMonotone DEF Attributed, Reserved
<1> QED
  BY <1>2, LineTyped DEF RowsGood

-----------------------------------------------------------------------------
(* Attribution of packed pieces *)

\* Attribution changes what is packed of each ACTIVE row, and all of it finds a row.
LEMMA AttributeGood ==
    ASSUME releases \in Seq(QaReleaseLine), NEW line, IsLine(line), NEW f, NEW old,
           RowsGood(f, line, old), NEW p \in Nat, p <= Reserved(line)
    PROVE  /\ IsLine(Attribute(line, p))
           /\ RowsGood(f, Attribute(line, p), p)
           /\ Reserved(Attribute(line, p)) = Reserved(line)
           /\ \A r \in Release : Held(Attribute(line, p), r) = Held(line, r)
           /\ Attribute(line, p).order = line.order /\ Attribute(line, p).dest = line.dest
           /\ Attribute(line, p).item = line.item
           /\ Attribute(line, p).quantity = line.quantity
<1> DEFINE rest(r) == p - Sum(Pieces(line), {s \in Active(line) : s < r})
           share(r) == Pour(line.allocations[r].quantity, rest(r))
           rows == [r \in Allocated(line) |->
                      IF r \in Active(line)
                      THEN [line.allocations[r] EXCEPT !.packed = share(r)]
                      ELSE line.allocations[r]]
<1>1. PICK new : new = Attribute(line, p)
  OBVIOUS
<1>2. new = [line EXCEPT !.allocations = rows]
  BY <1>1 DEF Attribute, Allocated, IsLine, Pour
<1>3. \A r \in Active(line) : share(r) \in Nat /\ share(r) <= line.allocations[r].quantity
  <2> SUFFICES ASSUME NEW r \in Active(line)
               PROVE  share(r) \in Nat /\ share(r) <= line.allocations[r].quantity
    OBVIOUS
  <2>1. r \in Allocated(line) /\ line.allocations[r].quantity \in Nat
    BY LineTyped
  <2>2. rest(r) \in Int
    <3>1. {s \in Active(line) : s < r} \subseteq Active(line)
      OBVIOUS
    <3>2. IsFiniteSet({s \in Active(line) : s < r})
      BY <3>1, LineTyped, FS_Subset
    <3>3. \A s \in {s \in Active(line) : s < r} : Pieces(line)[s] \in Int
      BY LineTyped DEF Pieces
    <3>4. Sum(Pieces(line), {s \in Active(line) : s < r}) \in Int
      BY <3>2, <3>3, SumInt
    <3> QED
      BY <3>4
  <2> HIDE DEF rest
  <2>3. PICK room, left : room = line.allocations[r].quantity /\ left = rest(r)
    OBVIOUS
  <2>4. room \in Nat /\ left \in Int
    BY <2>1, <2>2, <2>3
  <2>5. Pour(room, left) =
           IF left <= 0 THEN 0 ELSE IF left <= room THEN left ELSE room
    BY ONLY <2>4, Pouring
  <2>6. Pour(room, left) \in Nat /\ Pour(room, left) <= room
    BY <2>4, <2>5
  <2> QED
    BY <2>3, <2>6
<1>4. \A r \in Allocated(line) :
        /\ rows[r] \in StockAllocation
        /\ rows[r].id = line.allocations[r].id
        /\ rows[r].quantity = line.allocations[r].quantity
        /\ rows[r].active = line.allocations[r].active
        /\ rows[r].packed = IF r \in Active(line) THEN share(r) ELSE line.allocations[r].packed
  <2> SUFFICES ASSUME NEW r \in Allocated(line)
               PROVE  /\ rows[r] \in StockAllocation
                      /\ rows[r].id = line.allocations[r].id
                      /\ rows[r].quantity = line.allocations[r].quantity
                      /\ rows[r].active = line.allocations[r].active
                      /\ rows[r].packed = IF r \in Active(line) THEN share(r)
                                          ELSE line.allocations[r].packed
    OBVIOUS
  <2>1. line.allocations[r] \in StockAllocation
    BY LineTyped
  <2>2. rows[r] = IF r \in Active(line)
                  THEN [line.allocations[r] EXCEPT !.packed = share(r)] ELSE line.allocations[r]
    OBVIOUS
  <2>3. r \in Active(line) => share(r) \in Nat
    BY <1>3
  <2> HIDE DEF rows, share
  <2> QED
    BY <2>1, <2>2, <2>3 DEF StockAllocation
<1>5. DOMAIN rows = Allocated(line) /\ DOMAIN rows \subseteq Release
  BY LineTyped
<1> HIDE DEF rows, share
<1>6. /\ IsLine(new) /\ new.allocations = rows
      /\ new.order = line.order /\ new.dest = line.dest
      /\ new.item = line.item /\ new.quantity = line.quantity
  BY <1>2, <1>4, <1>5, LineWithRows
<1>7. Allocated(new) = Allocated(line) /\ Active(new) = Active(line) /\ Pieces(new) = Pieces(line)
  BY <1>4, <1>5, <1>6 DEF Allocated, Active, Pieces
<1>8. Reserved(new) = Reserved(line)
  BY <1>7 DEF Reserved
<1>9. \A r \in Release : Held(new, r) = Held(line, r)
  BY <1>4, <1>6, <1>7, LineTyped DEF Held
<1>10. Attributed(new) = p
  <2>1. \A r \in Active(line) : Pieces(line)[r] \in Nat /\ Packed(new)[r] = share(r)
    BY <1>4, <1>6, <1>7, LineTyped DEF Pieces, Packed
  <2>2. \A r \in Active(line) :
           Packed(new)[r] = Pour(Pieces(line)[r], rest(r))
    BY <2>1, LineTyped DEF share, Pieces
  <2> DEFINE before == [r \in Active(line) |-> {s \in Active(line) : s < r}]
             key == [r \in Active(line) |-> r]
  <2>3. \A r \in Active(line) :
           Packed(new)[r] = Pour(Pieces(line)[r], p - Sum(Pieces(line), before[r]))
    BY <2>2 DEF rest
  <2>4. /\ \A r \in Active(line) : before[r] \subseteq Active(line)
        /\ \A r, s \in Active(line) : s \in before[r] <=> key[s] < key[r]
    OBVIOUS
  <2>5. /\ IsFiniteSet(Active(line))
        /\ \A r \in Active(line) : Pieces(line)[r] \in Nat /\ key[r] \in Int
        /\ \A r, s \in Active(line) : key[r] = key[s] => r = s
    BY <2>1, LineTyped
  <2>6. PICK room, k, b, drawn, S :
           room = Pieces(line) /\ k = key /\ b = before /\ drawn = Packed(new) /\ S = Active(line)
    OBVIOUS
  <2> HIDE DEF key, before
  <2>7. Fills(drawn, room, k, b, p, S)
    BY <2>3, <2>4, <2>5, <2>6 DEF Fills
  <2>8. Sum(drawn, S) = IF p <= Sum(room, S) THEN p ELSE Sum(room, S)
    BY <2>7, Filling
  <2>9. Sum(drawn, S) = Attributed(new) /\ Sum(room, S) = Reserved(line)
    BY <1>7, <2>6 DEF Attributed, Reserved
  <2> QED
    BY <2>8, <2>9
<1>11. RowsGood(f, new, p)
  <2>1. \A r \in Allocated(new) :
           new.allocations[r].packed <= IF new.allocations[r].active
                                        THEN new.allocations[r].quantity ELSE 0
    BY <1>3, <1>4, <1>6, <1>7 DEF RowsGood, Active
  <2>2. \A r, s \in Allocated(new) : new.allocations[r].id = new.allocations[s].id => r = s
    BY <1>4, <1>6, <1>7 DEF RowsGood
  <2> QED
    BY <1>6, <1>7, <1>10, <2>1, <2>2 DEF RowsGood
<1> QED
  BY <1>1, <1>6, <1>8, <1>9, <1>11

-----------------------------------------------------------------------------
(* Rows that are given up *)

\* Abandoning a dispatch leaves the reservation and attributes nothing.
LEMMA UnpackedGood ==
    ASSUME releases \in Seq(QaReleaseLine), NEW line, IsLine(line), NEW f, NEW p,
           RowsGood(f, line, p)
    PROVE  /\ IsLine(Unpacked(line))
           /\ RowsGood(f, Unpacked(line), 0)
           /\ Reserved(Unpacked(line)) = Reserved(line)
           /\ \A r \in Release : Held(Unpacked(line), r) = Held(line, r)
           /\ Unpacked(line).order = line.order /\ Unpacked(line).dest = line.dest
           /\ Unpacked(line).item = line.item
           /\ Unpacked(line).quantity = line.quantity
<1> DEFINE rows == [r \in Allocated(line) |-> [line.allocations[r] EXCEPT !.packed = 0]]
<1>1. PICK new : new = Unpacked(line)
  OBVIOUS
<1>2. new = [line EXCEPT !.allocations = rows]
  BY <1>1 DEF Unpacked, Allocated, IsLine
<1>3. \A r \in Allocated(line) :
        /\ rows[r] \in StockAllocation
        /\ rows[r].id = line.allocations[r].id
        /\ rows[r].quantity = line.allocations[r].quantity
        /\ rows[r].active = line.allocations[r].active
        /\ rows[r].packed = 0
  <2> SUFFICES ASSUME NEW r \in Allocated(line)
               PROVE  /\ rows[r] \in StockAllocation
                      /\ rows[r].id = line.allocations[r].id
                      /\ rows[r].quantity = line.allocations[r].quantity
                      /\ rows[r].active = line.allocations[r].active
                      /\ rows[r].packed = 0
    OBVIOUS
  <2>1. line.allocations[r] \in StockAllocation
    BY LineTyped
  <2>2. rows[r] = [line.allocations[r] EXCEPT !.packed = 0]
    OBVIOUS
  <2> HIDE DEF rows
  <2> QED
    BY <2>1, <2>2 DEF StockAllocation
<1>4. DOMAIN rows = Allocated(line) /\ DOMAIN rows \subseteq Release
  BY LineTyped
<1> HIDE DEF rows
<1>5. /\ IsLine(new) /\ new.allocations = rows
      /\ new.order = line.order /\ new.dest = line.dest
      /\ new.item = line.item /\ new.quantity = line.quantity
  BY <1>2, <1>3, <1>4, LineWithRows
<1>6. Allocated(new) = Allocated(line) /\ Active(new) = Active(line) /\ Pieces(new) = Pieces(line)
  BY <1>3, <1>4, <1>5 DEF Allocated, Active, Pieces
<1>7. Reserved(new) = Reserved(line)
  BY <1>6 DEF Reserved
<1>8. \A r \in Release : Held(new, r) = Held(line, r)
  BY <1>3, <1>5, <1>6, LineTyped DEF Held
<1>9. Attributed(new) = 0
  <2>1. IsFiniteSet(Active(new)) /\ \A r \in Active(new) : Packed(new)[r] = 0
    BY <1>3, <1>5, <1>6, LineTyped DEF Packed
  <2> QED
    BY <2>1, SumZero DEF Attributed
<1>10. RowsGood(f, new, 0)
  <2>1. \A r \in Allocated(new) :
           new.allocations[r].packed <= IF new.allocations[r].active
                                        THEN new.allocations[r].quantity ELSE 0
    BY <1>3, <1>5, <1>6, LineTyped
  <2>2. \A r, s \in Allocated(new) : new.allocations[r].id = new.allocations[s].id => r = s
    BY <1>3, <1>5, <1>6 DEF RowsGood
  <2> QED
    BY <1>5, <1>6, <1>9, <2>1, <2>2 DEF RowsGood
<1> QED
  BY <1>1, <1>5, <1>7, <1>8, <1>10

\* A RELEASED row keeps its quantity.
LEMMA RowReleased ==
    ASSUME NEW a \in StockAllocation, NEW b, b = [a EXCEPT !.active = FALSE]
    PROVE  /\ b \in StockAllocation /\ ~ b.active
           /\ b.id = a.id /\ b.quantity = a.quantity /\ b.packed = a.packed
<1>1. DOMAIN a = {"id", "quantity", "active", "packed"}
  BY DEF StockAllocation
<1>2. b = [k \in {"id", "quantity", "active", "packed"} |-> IF k = "active" THEN FALSE ELSE a[k]]
  BY <1>1
<1>3. b.id = a.id /\ b.quantity = a.quantity /\ b.packed = a.packed
  BY <1>2
<1>4. ~ b.active
  BY <1>2, Zenon
<1>5. b.active \in BOOLEAN
  BY <1>4
<1>6. b = [id |-> b.id, quantity |-> b.quantity, active |-> b.active, packed |-> b.packed]
  BY <1>2
<1> QED
  BY <1>3, <1>4, <1>5, <1>6 DEF StockAllocation

\* So does a row that is revived, or that was ACTIVE all along.
LEMMA RowRevived ==
    ASSUME NEW a \in StockAllocation, NEW b, b = [a EXCEPT !.active = TRUE]
    PROVE  /\ b \in StockAllocation /\ b.active
           /\ b.id = a.id /\ b.quantity = a.quantity /\ b.packed = a.packed
<1>1. DOMAIN a = {"id", "quantity", "active", "packed"}
  BY DEF StockAllocation
<1>2. b = [k \in {"id", "quantity", "active", "packed"} |-> IF k = "active" THEN TRUE ELSE a[k]]
  BY <1>1
<1>3. b.id = a.id /\ b.quantity = a.quantity /\ b.packed = a.packed
  BY <1>2
<1>4. b.active
  BY <1>2, Zenon
<1>5. b.active \in BOOLEAN
  BY <1>4
<1>6. b = [id |-> b.id, quantity |-> b.quantity, active |-> b.active, packed |-> b.packed]
  BY <1>2
<1> QED
  BY <1>3, <1>4, <1>5, <1>6 DEF StockAllocation

\* A move to another factory gives up the whole reservation; what is left of the
\* line suits any factory.
LEMMA UnreservedGood ==
    ASSUME releases \in Seq(QaReleaseLine), NEW line, IsLine(line), NEW f, NEW g, NEW p,
           RowsGood(f, line, p)
    PROVE  /\ IsLine(Unreserved(line))
           /\ RowsGood(g, Unreserved(line), 0)
           /\ Reserved(Unreserved(line)) = 0
           /\ \A r \in Release : Held(Unreserved(line), r) = 0
           /\ Unreserved(line).order = line.order /\ Unreserved(line).dest = line.dest
           /\ Unreserved(line).item = line.item
           /\ Unreserved(line).quantity = line.quantity
<1> DEFINE rows == [r \in Allocated(line) |->
                      [line.allocations[r] EXCEPT !.active = FALSE, !.packed = 0]]
<1>1. PICK new : new = Unreserved(line)
  OBVIOUS
<1>2. new = [line EXCEPT !.allocations = rows]
  BY <1>1 DEF Unreserved, Allocated, IsLine
<1>3. \A r \in Allocated(line) :
        /\ rows[r] \in StockAllocation
        /\ rows[r].id = line.allocations[r].id
        /\ ~ rows[r].active
        /\ rows[r].packed = 0
  <2> SUFFICES ASSUME NEW r \in Allocated(line)
               PROVE  /\ rows[r] \in StockAllocation
                      /\ rows[r].id = line.allocations[r].id
                      /\ ~ rows[r].active
                      /\ rows[r].packed = 0
    OBVIOUS
  <2>1. line.allocations[r] \in StockAllocation
    BY LineTyped
  <2>2. PICK b : b = [line.allocations[r] EXCEPT !.active = FALSE]
    OBVIOUS
  <2>3. rows[r] = [b EXCEPT !.packed = 0]
    BY <2>2
  <2>4. b \in StockAllocation /\ ~ b.active /\ b.id = line.allocations[r].id
    BY <2>1, <2>2, RowReleased
  <2> HIDE DEF rows
  <2> QED
    BY <2>3, <2>4 DEF StockAllocation
<1>4. DOMAIN rows = Allocated(line) /\ DOMAIN rows \subseteq Release
  BY LineTyped
<1> HIDE DEF rows
<1>5. /\ IsLine(new) /\ new.allocations = rows
      /\ new.order = line.order /\ new.dest = line.dest
      /\ new.item = line.item /\ new.quantity = line.quantity
  BY <1>2, <1>3, <1>4, LineWithRows
<1>6. Allocated(new) = Allocated(line) /\ Active(new) = {}
  BY <1>3, <1>4, <1>5 DEF Allocated, Active
<1>7. Reserved(new) = 0 /\ Attributed(new) = 0
  BY <1>6, SumEmpty DEF Reserved, Attributed
<1>8. \A r \in Release : Held(new, r) = 0
  BY <1>6 DEF Held
<1>9. RowsGood(g, new, 0)
  <2>1. \A r \in Allocated(new) :
           new.allocations[r].packed <= IF new.allocations[r].active
                                        THEN new.allocations[r].quantity ELSE 0
    BY <1>3, <1>5, <1>6
  <2>2. \A r, s \in Allocated(new) : new.allocations[r].id = new.allocations[s].id => r = s
    BY <1>3, <1>5, <1>6 DEF RowsGood
  <2> QED
    BY <1>6, <1>7, <2>1, <2>2 DEF RowsGood
<1> QED
  BY <1>1, <1>5, <1>7, <1>8, <1>9

-----------------------------------------------------------------------------
(* Releasing what a kept line loses *)

\* Each row gives at most what is not attributed to it.
LEMMA TakenRow ==
    ASSUME releases \in Seq(QaReleaseLine), NEW line, IsLine(line), NEW f, NEW p,
           RowsGood(f, line, p), NEW drop \in Nat, NEW r \in Allocated(line)
    PROVE  /\ Releasable(line)[r] \in Nat
           /\ r \notin Active(line) => Releasable(line)[r] = 0
           /\ r \in Active(line) =>
                 Releasable(line)[r] = line.allocations[r].quantity - line.allocations[r].packed
           /\ Taken(line, drop)[r] \in Nat /\ Taken(line, drop)[r] <= Releasable(line)[r]
           /\ drop = 0 => Taken(line, drop)[r] = 0
<1>1. \A s \in Allocated(line) :
        /\ Releasable(line)[s] \in Nat
        /\ s \notin Active(line) => Releasable(line)[s] = 0
        /\ s \in Active(line) =>
              Releasable(line)[s] = line.allocations[s].quantity - line.allocations[s].packed
  <2> SUFFICES ASSUME NEW s \in Allocated(line)
               PROVE  /\ Releasable(line)[s] \in Nat
                      /\ s \notin Active(line) => Releasable(line)[s] = 0
                      /\ s \in Active(line) =>
                            Releasable(line)[s] =
                               line.allocations[s].quantity - line.allocations[s].packed
    OBVIOUS
  <2>1. line.allocations[s].quantity \in Nat /\ line.allocations[s].packed \in Nat
    BY LineTyped
  <2>2. CASE line.allocations[s].active
    <3>1. s \in Active(line) /\ line.allocations[s].packed <= line.allocations[s].quantity
      BY <2>2 DEF Active, RowsGood
    <3>2. Releasable(line)[s] = line.allocations[s].quantity - line.allocations[s].packed
      BY <2>2 DEF Releasable
    <3> QED
      BY <2>1, <3>1, <3>2
  <2>3. CASE ~ line.allocations[s].active
    BY <2>3 DEF Active, Releasable
  <2> QED
    BY <2>2, <2>3
<1>2. Newer(line, r) \subseteq Allocated(line) /\ IsFiniteSet(Newer(line, r))
  <2>1. Newer(line, r) \subseteq Allocated(line)
    BY DEF Newer
  <2> QED
    BY <2>1, LineTyped, FS_Subset
<1>3. Sum(Releasable(line), Newer(line, r)) \in Nat
  <2>1. \A s \in Newer(line, r) : Releasable(line)[s] \in Nat
    BY <1>1, <1>2
  <2> QED
    BY <1>2, <2>1, SumNat
<1>4. PICK room, left : /\ room = Releasable(line)[r]
                        /\ left = drop - Sum(Releasable(line), Newer(line, r))
  OBVIOUS
<1>5. Taken(line, drop)[r] = Pour(room, left)
  BY <1>4 DEF Taken, Pour
<1>6. room \in Nat /\ left \in Int /\ (drop = 0 => left <= 0)
  BY <1>1, <1>3, <1>4
<1>7. Pour(room, left) = IF left <= 0 THEN 0 ELSE IF left <= room THEN left ELSE room
  BY ONLY <1>6, Pouring
<1> QED
  BY <1>1, <1>4, <1>5, <1>6, <1>7

\* Together the rows give the drop, or all that is not attributed.
LEMMA TakenInAll ==
    ASSUME releases \in Seq(QaReleaseLine), NEW line, IsLine(line), NEW f, NEW p,
           RowsGood(f, line, p), NEW drop \in Nat
    PROVE  Sum(Taken(line, drop), Active(line)) =
              IF drop <= Reserved(line) - p THEN drop ELSE Reserved(line) - p
<1> DEFINE S == Allocated(line)
           A == Active(line)
           key == [r \in S |-> 0 - line.allocations[r].id]
           newer == [r \in S |-> Newer(line, r)]
<1>1. IsFiniteSet(S) /\ IsFiniteSet(A) /\ A \subseteq S
  BY LineTyped
<1>2. \A r \in S : Releasable(line)[r] \in Nat /\ Taken(line, drop)[r] \in Nat
  BY TakenRow
<1>3. Sum(Taken(line, drop), S) =
         IF drop <= Sum(Releasable(line), S) THEN drop ELSE Sum(Releasable(line), S)
  <2>1. \A r \in S : line.allocations[r].id \in Nat
    BY LineTyped
  <2>2. /\ \A r \in S : key[r] \in Int
        /\ \A r, s \in S : key[r] = key[s] => r = s
    BY <2>1 DEF RowsGood
  <2>3. /\ \A r \in S : newer[r] \subseteq S
        /\ \A r, s \in S : s \in newer[r] <=> key[s] < key[r]
    BY <2>1 DEF Newer
  <2>4. \A r \in S : Taken(line, drop)[r] =
           Pour(Releasable(line)[r], drop - Sum(Releasable(line), newer[r]))
    BY DEF Taken, Pour
  <2>5. PICK drawn, room, k, n, V : /\ drawn = Taken(line, drop) /\ room = Releasable(line)
                                    /\ k = key /\ n = newer /\ V = S
    OBVIOUS
  <2> HIDE DEF S, key, newer
  <2>6. Fills(drawn, room, k, n, drop, V)
    BY <1>1, <1>2, <2>2, <2>3, <2>4, <2>5 DEF Fills
  <2>7. Sum(drawn, V) = IF drop <= Sum(room, V) THEN drop ELSE Sum(room, V)
    BY <2>6, Filling
  <2> QED
    BY <2>5, <2>7
<1>4. Sum(Taken(line, drop), S) = Sum(Taken(line, drop), A)
  <2>1. \A r \in S \ A : Taken(line, drop)[r] = 0
    <3> SUFFICES ASSUME NEW r \in S \ A PROVE Taken(line, drop)[r] = 0
      OBVIOUS
    <3>1. Releasable(line)[r] = 0 /\ Taken(line, drop)[r] \in Nat
          /\ Taken(line, drop)[r] <= Releasable(line)[r]
      BY TakenRow
    <3> QED
      BY <3>1
  <2>2. \A r \in A : Taken(line, drop)[r] \in Int
    BY <1>1, <1>2
  <2> HIDE DEF S, A
  <2> QED
    BY <1>1, <2>1, <2>2, SumWhere
<1>5. Sum(Releasable(line), S) = Sum(Releasable(line), A)
  <2>1. \A r \in S \ A : Releasable(line)[r] = 0
    BY TakenRow
  <2>2. \A r \in A : Releasable(line)[r] \in Int
    BY <1>1, <1>2
  <2> HIDE DEF S, A
  <2> QED
    BY <1>1, <2>1, <2>2, SumWhere
<1>6. Reserved(line) = Attributed(line) + Sum(Releasable(line), A)
  <2>1. \A r \in A : /\ Packed(line)[r] \in Int /\ Releasable(line)[r] \in Int
                     /\ Pieces(line)[r] = Packed(line)[r] + Releasable(line)[r]
    <3> SUFFICES ASSUME NEW r \in A
                 PROVE  /\ Packed(line)[r] \in Int /\ Releasable(line)[r] \in Int
                        /\ Pieces(line)[r] = Packed(line)[r] + Releasable(line)[r]
      OBVIOUS
    <3>1. r \in Allocated(line)
      BY <1>1
    <3>2. line.allocations[r].quantity \in Nat /\ line.allocations[r].packed \in Nat
      BY <3>1, LineTyped
    <3>3. Releasable(line)[r] = line.allocations[r].quantity - line.allocations[r].packed
      BY <3>1, TakenRow
    <3> QED
      BY <3>1, <3>2, <3>3 DEF Packed, Pieces
  <2> HIDE DEF A
  <2> QED
    BY <1>1, <2>1, SumPlus DEF A, Reserved, Attributed
<1>7. Attributed(line) = p /\ Attributed(line) \in Nat /\ Reserved(line) \in Nat
  BY LineTyped DEF RowsGood
<1>8. Sum(Releasable(line), A) \in Int
  <2>1. \A r \in A : Releasable(line)[r] \in Int
    BY <1>1, <1>2
  <2> QED
    BY <1>1, <2>1, SumInt
<1> QED
  BY <1>3, <1>4, <1>5, <1>6, <1>7, <1>8

\* An edit of a kept line leaves its packed pieces covered and attributed.
LEMMA ReducedGood ==
    ASSUME releases \in Seq(QaReleaseLine), NEW line, IsLine(line), NEW f, NEW p,
           RowsGood(f, line, p), NEW drop \in Nat, NEW new, IsLine(new), new.item = line.item,
           new.allocations = Reduced(line, drop)
    PROVE  /\ RowsGood(f, new, p)
           /\ Reserved(new) = IF drop <= Reserved(line) - p THEN Reserved(line) - drop ELSE p
           /\ \A r \in Release : Held(new, r) =
                 IF r \in Active(line) THEN Held(line, r) - Taken(line, drop)[r] ELSE 0
<1> DEFINE S == Allocated(line)
           A == Active(line)
           drawn == Taken(line, drop)
           rows == Reduced(line, drop)
<1>1. /\ IsFiniteSet(S) /\ IsFiniteSet(A) /\ A \subseteq S /\ S \subseteq Release
      /\ \A r \in S : /\ line.allocations[r] \in StockAllocation
                      /\ line.allocations[r].id \in Nat \ {0}
                      /\ line.allocations[r].quantity \in Nat \ {0}
                      /\ line.allocations[r].packed \in Nat
  BY LineTyped
<1>2. \A r \in S : /\ drawn[r] \in Nat
                   /\ r \notin A => drawn[r] = 0
                   /\ r \in A => drawn[r] <= line.allocations[r].quantity - line.allocations[r].packed
  <2> SUFFICES ASSUME NEW r \in S
               PROVE  /\ drawn[r] \in Nat
                      /\ r \notin A => drawn[r] = 0
                      /\ r \in A => drawn[r] <=
                            line.allocations[r].quantity - line.allocations[r].packed
    OBVIOUS
  <2>1. /\ Releasable(line)[r] \in Nat
        /\ r \notin Active(line) => Releasable(line)[r] = 0
        /\ r \in Active(line) =>
              Releasable(line)[r] = line.allocations[r].quantity - line.allocations[r].packed
        /\ Taken(line, drop)[r] \in Nat /\ Taken(line, drop)[r] <= Releasable(line)[r]
    BY TakenRow
  <2> QED
    BY <2>1
<1>3. \A r \in S : /\ rows[r].id = line.allocations[r].id
                   /\ rows[r].packed = line.allocations[r].packed
                   /\ r \notin A => ~ rows[r].active
                   /\ r \in A /\ drawn[r] = line.allocations[r].quantity
                         => ~ rows[r].active /\ line.allocations[r].packed = 0
                   /\ r \in A /\ drawn[r] # line.allocations[r].quantity
                         => /\ rows[r].active
                            /\ rows[r].quantity = line.allocations[r].quantity - drawn[r]
  <2> SUFFICES ASSUME NEW r \in S
               PROVE  /\ rows[r].id = line.allocations[r].id
                      /\ rows[r].packed = line.allocations[r].packed
                      /\ r \notin A => ~ rows[r].active
                      /\ r \in A /\ drawn[r] = line.allocations[r].quantity
                            => ~ rows[r].active /\ line.allocations[r].packed = 0
                      /\ r \in A /\ drawn[r] # line.allocations[r].quantity
                            => /\ rows[r].active
                               /\ rows[r].quantity = line.allocations[r].quantity - drawn[r]
    OBVIOUS
  <2> DEFINE a == line.allocations[r]
             n == drawn[r]
  <2>1. rows[r] = IF n = 0 THEN a
                  ELSE IF n = a.quantity THEN [a EXCEPT !.active = FALSE]
                  ELSE [a EXCEPT !.quantity = @ - n]
    BY DEF Reduced
  <2>2. a \in StockAllocation /\ a.quantity \in Nat \ {0} /\ a.packed \in Nat /\ n \in Nat
    BY <1>1, <1>2
  <2>3. (r \in A <=> a.active) /\ (r \notin A => n = 0) /\ (r \in A => n <= a.quantity - a.packed)
    BY <1>2 DEF Active
  <2> HIDE DEF rows, drawn, n, a, A
  <2>4. CASE n = 0
    BY <2>1, <2>2, <2>3, <2>4 DEF n, a
  <2>5. CASE n # 0 /\ n = a.quantity
    <3>1. rows[r] = [a EXCEPT !.active = FALSE]
      BY <2>1, <2>5
    <3>2. ~ rows[r].active /\ rows[r].id = a.id /\ rows[r].packed = a.packed
      BY <2>2, <3>1, RowReleased
    <3>3. a.packed = 0
      BY <2>2, <2>3, <2>5
    <3> QED
      BY <2>3, <2>5, <3>2, <3>3 DEF n, a
  <2>6. CASE n # 0 /\ n # a.quantity
    <3>1. rows[r] = [a EXCEPT !.quantity = @ - n]
      BY <2>1, <2>6
    <3>2. /\ rows[r].id = a.id /\ rows[r].packed = a.packed
          /\ rows[r].quantity = a.quantity - n
      BY <2>2, <3>1 DEF StockAllocation
    <3>3. rows[r].active = a.active
      BY <2>2, <3>1 DEF StockAllocation
    <3> QED
      BY <2>3, <2>6, <3>2, <3>3 DEF n, a
  <2> QED
    BY <2>4, <2>5, <2>6
<1>4. DOMAIN rows = S
  BY DEF Reduced
<1> HIDE DEF rows, drawn
<1>5. Allocated(new) = S
  BY <1>4 DEF Allocated, rows
<1>6. Active(new) = {r \in A : drawn[r] # line.allocations[r].quantity}
  BY <1>1, <1>3, <1>5 DEF Active, rows
<1>7. Active(new) \subseteq A
  BY <1>6
<1>8. Sum(drawn, A) = IF drop <= Reserved(line) - p THEN drop ELSE Reserved(line) - p
  BY TakenInAll DEF drawn
<1> DEFINE left == [r \in A |-> line.allocations[r].quantity - drawn[r]]
<1>9. \A r \in A : left[r] \in Int /\ drawn[r] \in Int /\ Pieces(line)[r] = left[r] + drawn[r]
  BY <1>1, <1>2 DEF Pieces
<1>10. Reserved(line) = Sum(left, A) + Sum(drawn, A)
  <2> HIDE DEF A, left
  <2> QED
    BY <1>1, <1>9, SumPlus DEF A, Reserved
<1>11. Reserved(new) = Sum(left, A)
  <2>1. \A r \in Active(new) : Pieces(new)[r] \in Int /\ left[r] = Pieces(new)[r]
    <3> SUFFICES ASSUME NEW r \in Active(new) PROVE Pieces(new)[r] \in Int /\ left[r] = Pieces(new)[r]
      OBVIOUS
    <3>1. r \in A /\ r \in S /\ r \in Allocated(new) /\ drawn[r] # line.allocations[r].quantity
      BY <1>1, <1>5, <1>6
    <3>2. new.allocations[r].quantity = line.allocations[r].quantity - drawn[r]
      BY <1>3, <3>1 DEF rows
    <3>3. Pieces(new)[r] = left[r]
      BY <3>1, <3>2 DEF Pieces
    <3> QED
      BY <1>9, <3>1, <3>3
  <2>2. \A r \in A \ Active(new) : left[r] = 0
    BY <1>1, <1>6
  <2> HIDE DEF A, left
  <2>3. PICK g, h, T, U : g = left /\ h = Pieces(new) /\ T = Active(new) /\ U = A
    OBVIOUS
  <2>4. /\ IsFiniteSet(U) /\ T \in SUBSET U
        /\ \A r \in T : h[r] \in Int /\ g[r] = h[r]
        /\ \A r \in U \ T : g[r] = 0
    BY <1>1, <1>7, <2>1, <2>2, <2>3
  <2>5. Sum(g, U) = Sum(h, T)
    BY ONLY <2>4, SumWhere
  <2> QED
    BY <2>3, <2>5 DEF Reserved
<1>12. Attributed(new) = Attributed(line)
  <2>1. \A r \in Active(new) : Packed(new)[r] \in Int /\ Packed(line)[r] = Packed(new)[r]
    BY <1>1, <1>3, <1>5, <1>7 DEF Packed, rows
  <2>2. \A r \in A \ Active(new) : Packed(line)[r] = 0
    BY <1>1, <1>3, <1>6 DEF Packed
  <2> HIDE DEF A
  <2> QED
    BY <1>1, <1>7, <2>1, <2>2, SumWhere DEF A, Attributed
<1>13. RowsGood(f, new, p)
  <2>1. \A r \in Allocated(new) :
           new.allocations[r].packed <= IF new.allocations[r].active
                                        THEN new.allocations[r].quantity ELSE 0
    <3> SUFFICES ASSUME NEW r \in Allocated(new)
                 PROVE  new.allocations[r].packed <= IF new.allocations[r].active
                                                     THEN new.allocations[r].quantity ELSE 0
      OBVIOUS
    <3>1. r \in S /\ new.allocations[r] = rows[r]
      BY <1>5 DEF rows
    <3>2. CASE r \notin A
      <4>1. ~ rows[r].active /\ rows[r].packed = line.allocations[r].packed
        BY <1>3, <3>1, <3>2
      <4>2. line.allocations[r].packed <= 0
        BY <3>1, <3>2 DEF RowsGood, Active
      <4> QED
        BY <3>1, <4>1, <4>2
    <3>3. CASE r \in A /\ drawn[r] = line.allocations[r].quantity
      <4>1. ~ rows[r].active /\ rows[r].packed = 0
        BY <1>3, <3>1, <3>3
      <4> QED
        BY <3>1, <4>1
    <3>4. CASE r \in A /\ drawn[r] # line.allocations[r].quantity
      <4>1. /\ rows[r].active /\ rows[r].packed = line.allocations[r].packed
            /\ rows[r].quantity = line.allocations[r].quantity - drawn[r]
        BY <1>3, <3>1, <3>4
      <4>2. drawn[r] <= line.allocations[r].quantity - line.allocations[r].packed /\ drawn[r] \in Nat
            /\ line.allocations[r].quantity \in Nat /\ line.allocations[r].packed \in Nat
        BY <1>1, <1>2, <3>1, <3>4
      <4>3. rows[r].packed <= rows[r].quantity
        BY <4>1, <4>2
      <4> QED
        BY <3>1, <4>1, <4>3
    <3> QED
      BY <3>2, <3>3, <3>4
  <2>2. \A r, s \in Allocated(new) : new.allocations[r].id = new.allocations[s].id => r = s
    BY <1>3, <1>5 DEF RowsGood, rows
  <2> QED
    BY <1>7, <1>12, <2>1, <2>2 DEF RowsGood
<1>14. \A r \in Release : Held(new, r) =
          IF r \in Active(line) THEN Held(line, r) - Taken(line, drop)[r] ELSE 0
  <2> SUFFICES ASSUME NEW r \in Release
               PROVE  Held(new, r) = IF r \in A THEN Held(line, r) - drawn[r] ELSE 0
    BY DEF drawn
  <2>1. CASE r \notin A
    BY <1>7, <2>1 DEF Held
  <2>2. CASE r \in A /\ drawn[r] = line.allocations[r].quantity
    <3>1. r \notin Active(new) /\ Held(line, r) = line.allocations[r].quantity /\ r \in S
      BY <1>1, <1>6, <2>2 DEF Held
    <3> QED
      BY <1>1, <2>2, <3>1 DEF Held
  <2>3. CASE r \in A /\ drawn[r] # line.allocations[r].quantity
    <3>1. r \in Active(new) /\ r \in S /\ Held(line, r) = line.allocations[r].quantity
      BY <1>1, <1>6, <2>3 DEF Held
    <3>2. new.allocations[r].quantity = line.allocations[r].quantity - drawn[r]
      BY <1>3, <2>3, <3>1 DEF rows
    <3> QED
      BY <2>3, <3>1, <3>2 DEF Held
  <2> QED
    BY <2>1, <2>2, <2>3
<1>15. Reserved(new) = IF drop <= Reserved(line) - p THEN Reserved(line) - drop ELSE p
  <2>1. Reserved(line) \in Nat /\ p \in Nat
    BY LineTyped, AttributedIsReserved
  <2>2. Sum(left, A) \in Int
    <3> HIDE DEF A, left
    <3> QED
      BY <1>1, <1>9, SumInt
  <2> HIDE DEF A, left
  <2> QED
    BY <1>8, <1>10, <1>11, <2>1, <2>2
<1> QED
  BY <1>13, <1>14, <1>15

-----------------------------------------------------------------------------
(* Finite sets of ids *)

LEMMA FiniteImage ==
    ASSUME NEW g, NEW S, IsFiniteSet(S), NEW T, \A t \in T : \E x \in S : t = g[x]
    PROVE  IsFiniteSet(T)
<1>1. PICK h, U : h = [x \in S |-> g[x]] /\ U = {g[x] : x \in S}
  OBVIOUS
<1>2. h \in [S -> U] /\ \A t \in U : \E s \in S : h[s] = t
  BY <1>1
<1>3. h \in Surjection(S, U)
  BY <1>2 DEF Surjection
<1>4. IsFiniteSet(U)
  BY <1>3, FS_Surjection DEF ExistsSurjection
<1>5. T \in SUBSET U
  BY <1>1
<1> QED
  BY <1>4, <1>5, FS_Subset

\* The rank of a member of a set of numbers, counted from 1, tells members apart.
LEMMA Ranked ==
    ASSUME NEW S, IsFiniteSet(S), S \subseteq Nat, NEW x \in S, NEW y \in S
    PROVE  /\ Rank(x, S) \in Nat \ {0}
           /\ Rank(x, S) = Rank(y, S) => x = y
<1> DEFINE upto(z) == {s \in S : s <= z}
<1>1. \A z \in S : IsFiniteSet(upto(z)) /\ Cardinality(upto(z)) \in Nat /\ z \in upto(z)
  <2> SUFFICES ASSUME NEW z \in S
               PROVE  IsFiniteSet(upto(z)) /\ Cardinality(upto(z)) \in Nat /\ z \in upto(z)
    OBVIOUS
  <2>1. upto(z) \in SUBSET S /\ z \in upto(z)
    OBVIOUS
  <2> HIDE DEF upto
  <2>2. IsFiniteSet(upto(z))
    BY <2>1, FS_Subset
  <2> QED
    BY <2>1, <2>2, FS_CardinalityType
<1>2. Rank(x, S) # 0
  <2>1. upto(x) # {}
    BY <1>1
  <2> QED
    BY <1>1, <2>1, FS_EmptySet DEF Rank
<1>3. \A u, v \in S : u < v => Cardinality(upto(u)) # Cardinality(upto(v))
  <2> SUFFICES ASSUME NEW u \in S, NEW v \in S, u < v,
                      Cardinality(upto(u)) = Cardinality(upto(v))
               PROVE  FALSE
    OBVIOUS
  <2>1. upto(u) \in SUBSET upto(v)
    <3>1. u \in Nat /\ v \in Nat /\ \A s \in S : s \in Nat
      OBVIOUS
    <3>2. \A s \in S : s <= u => s <= v
      BY <3>1
    <3> QED
      BY <3>2
  <2>2. v \in upto(v) /\ v \notin upto(u)
    OBVIOUS
  <2> HIDE DEF upto
  <2> QED
    BY <1>1, <2>1, <2>2, FS_Subset
<1>4. ASSUME Rank(x, S) = Rank(y, S) PROVE x = y
  <2>1. Cardinality(upto(x)) = Cardinality(upto(y))
    BY <1>4 DEF Rank
  <2>2. ~(x < y) /\ ~(y < x) /\ x \in Nat /\ y \in Nat
    <3> HIDE DEF upto
    <3> QED
      BY <1>3, <2>1
  <2> QED
    BY <2>2
<1> QED
  BY <1>1, <1>2, <1>4 DEF Rank

-----------------------------------------------------------------------------
(* Laid end to end: what the lines take of the release lines *)

LEMMA OverlapValue ==
    \A a, m, b, n \in Nat : \A up, down \in Int : up = (a + m) - b /\ down = a - b =>
       /\ Overlap(a, m, b, n) \in Nat
       /\ Overlap(a, m, b, n) = Overlap(b, n, a, m)
       /\ Overlap(a, m, b, n) = Pour(n, up) - Pour(n, down)
<1> SUFFICES ASSUME NEW a \in Nat, NEW m \in Nat, NEW b \in Nat, NEW n \in Nat,
                    NEW up \in Int, NEW down \in Int, up = (a + m) - b, down = a - b
             PROVE  /\ Overlap(a, m, b, n) \in Nat
                    /\ Overlap(a, m, b, n) = Overlap(b, n, a, m)
                    /\ Overlap(a, m, b, n) = Pour(n, up) - Pour(n, down)
  OBVIOUS
<1>1. PICK top, low : /\ top = Min({a + m, b + n}) /\ low = Max({a, b})
  OBVIOUS
<1>2. /\ top = IF a + m <= b + n THEN a + m ELSE b + n
      /\ low = IF a <= b THEN b ELSE a
  <2>1. a + m \in Int /\ b + n \in Int /\ a \in Int /\ b \in Int
    OBVIOUS
  <2>2. Min({a + m, b + n}) = IF a + m <= b + n THEN a + m ELSE b + n
    BY ONLY <2>1, MinOfPair
  <2>3. Max({a, b}) = IF a <= b THEN b ELSE a
    BY ONLY <2>1, MaxOfPair
  <2> QED
    BY <1>1, <2>2, <2>3
<1>3. top \in Int /\ low \in Int /\ top - low \in Int /\ up \in Int /\ down \in Int /\ 0 \in Int
  BY <1>1, <1>2
<1>4. Max({0, top - low}) = IF 0 <= top - low THEN top - low ELSE 0
  BY ONLY <1>3, MaxOfPair
<1>5. Overlap(a, m, b, n) = IF 0 <= top - low THEN top - low ELSE 0
  BY <1>1, <1>4 DEF Overlap
<1>6. {a + m, b + n} = {b + n, a + m} /\ {a, b} = {b, a}
  OBVIOUS
<1>7. Overlap(a, m, b, n) = Overlap(b, n, a, m)
  BY <1>6 DEF Overlap
<1>8. /\ Pour(n, up) = IF up <= 0 THEN 0 ELSE IF up <= n THEN up ELSE n
      /\ Pour(n, down) = IF down <= 0 THEN 0 ELSE IF down <= n THEN down ELSE n
  BY <1>3, Pouring
<1>9. Overlap(a, m, b, n) = Pour(n, up) - Pour(n, down)
  BY <1>1, <1>2, <1>5, <1>8
<1> QED
  BY <1>1, <1>3, <1>5, <1>7, <1>9

\* The rooms of S are laid end to end by their keys, and part[x] is what [a, a + m)
\* overlaps of the room of x.
Laid(part, a, m, room, key, before, S) ==
    /\ IsFiniteSet(S) /\ a \in Nat /\ m \in Nat
    /\ \A x \in S : room[x] \in Nat /\ key[x] \in Int
    /\ \A x, y \in S : key[x] = key[y] => x = y
    /\ \A x \in S : before[x] \subseteq S
    /\ \A x, y \in S : y \in before[x] <=> key[y] < key[x]
    /\ \A x \in S : part[x] = Overlap(a, m, Sum(room, before[x]), room[x])

\* The parts add up to what it overlaps of all of them.
LEMMA Overlaps ==
    ASSUME NEW part, NEW a, NEW m, NEW room, NEW key, NEW before, NEW S,
           Laid(part, a, m, room, key, before, S)
    PROVE  /\ Sum(room, S) \in Nat
           /\ Sum(part, S) = (IF a + m <= Sum(room, S) THEN a + m ELSE Sum(room, S))
                             - (IF a <= Sum(room, S) THEN a ELSE Sum(room, S))
<1> USE DEF Laid
<1>1. Sum(room, S) \in Nat /\ \A x \in S : Sum(room, before[x]) \in Nat
  <2>1. Sum(room, S) \in Nat
    BY SumNat
  <2>2. ASSUME NEW x \in S PROVE Sum(room, before[x]) \in Nat
    <3>1. IsFiniteSet(before[x]) /\ \A y \in before[x] : room[y] \in Nat
      BY FS_Subset
    <3> QED
      BY <3>1, SumNat
  <2> QED
    BY <2>1, <2>2
<1>2. PICK b : b = a + m /\ b \in Nat
  OBVIOUS
<1>3. PICK up, down : 
        /\ up = [x \in S |-> Pour(room[x], b - Sum(room, before[x]))]
        /\ down = [x \in S |-> Pour(room[x], a - Sum(room, before[x]))]
  OBVIOUS
<1>4. Fills(up, room, key, before, b, S) /\ Fills(down, room, key, before, a, S)
  BY <1>2, <1>3 DEF Fills
<1>5. /\ Sum(up, S) = IF b <= Sum(room, S) THEN b ELSE Sum(room, S)
      /\ Sum(down, S) = IF a <= Sum(room, S) THEN a ELSE Sum(room, S)
  BY <1>4, Filling
<1>6. \A x \in S : part[x] \in Int /\ down[x] \in Int /\ up[x] = part[x] + down[x]
  <2> SUFFICES ASSUME NEW x \in S
               PROVE  part[x] \in Int /\ down[x] \in Int /\ up[x] = part[x] + down[x]
    OBVIOUS
  <2>1. PICK s, n : s = Sum(room, before[x]) /\ n = room[x]
    OBVIOUS
  <2>2. s \in Nat /\ n \in Nat
    BY <1>1, <2>1
  <2>3. PICK u, d : u = (a + m) - s /\ d = a - s
    OBVIOUS
  <2>4. Overlap(a, m, s, n) \in Nat
        /\ Overlap(a, m, s, n) = Pour(n, u) - Pour(n, d)
    <3>1. u \in Int /\ d \in Int /\ a \in Nat /\ m \in Nat
      BY <2>2, <2>3
    <3> QED
      BY ONLY <2>2, <2>3, <3>1, OverlapValue
  <2>5. part[x] = Overlap(a, m, s, n)
    BY <2>1
  <2>6. up[x] = Pour(n, u) /\ down[x] = Pour(n, d)
    BY <1>2, <1>3, <2>1, <2>3
  <2>7. up[x] \in Int /\ down[x] \in Int
    <3>1. u \in Int /\ d \in Int
      BY <2>2, <2>3
    <3>2. /\ Pour(n, u) = IF u <= 0 THEN 0 ELSE IF u <= n THEN u ELSE n
          /\ Pour(n, d) = IF d <= 0 THEN 0 ELSE IF d <= n THEN d ELSE n
      BY <2>2, <3>1, Pouring
    <3> QED
      BY <2>2, <2>6, <3>1, <3>2
  <2> QED
    BY <2>4, <2>5, <2>6, <2>7
<1>7. Sum(up, S) = Sum(part, S) + Sum(down, S)
  BY <1>6, SumPlus
<1>8. Sum(part, S) \in Int
  BY <1>6, SumInt
<1> QED
  BY <1>1, <1>2, <1>5, <1>7, <1>8

-----------------------------------------------------------------------------
(* Writing what was granted *)

\* Granted pieces come on top of what a line holds; what is packed stays as it is.
LEMMA MergeGood ==
    ASSUME releases \in Seq(QaReleaseLine), NEW line, IsLine(line), NEW f, NEW p,
           RowsGood(f, line, p), NEW grants, DOMAIN grants \subseteq PoolOf(f, line.item),
           \A r \in DOMAIN grants : grants[r] \in Nat \ {0},
           NEW new, new = [line EXCEPT !.allocations = Merge(@, grants)]
    PROVE  /\ IsLine(new) /\ RowsGood(f, new, p)
           /\ new.order = line.order /\ new.dest = line.dest
           /\ new.item = line.item /\ new.quantity = line.quantity
           /\ Reserved(new) = Reserved(line) + Sum(grants, DOMAIN grants)
           /\ \A r \in Release : Held(new, r) =
                 Held(line, r) + IF r \in DOMAIN grants THEN grants[r] ELSE 0
<1> DEFINE old == line.allocations
           G == DOMAIN grants
           S == Allocated(line)
           A == Active(line)
           fresh == G \ S
           last == Max({0} \cup {old[r].id : r \in S})
           rows == Merge(old, grants)
           kept(r) == IF r \in A THEN old[r].quantity ELSE 0
           got(r) == IF r \in G THEN grants[r] ELSE 0
<1>1. /\ IsFiniteSet(S) /\ IsFiniteSet(A) /\ A \subseteq S /\ S \subseteq Release
      /\ S \subseteq Nat
      /\ \A r \in S : /\ old[r] \in StockAllocation
                      /\ old[r].id \in Nat \ {0}
                      /\ old[r].quantity \in Nat \ {0}
                      /\ old[r].packed \in Nat
  BY LineTyped
<1>2. G \subseteq Release /\ IsFiniteSet(G) /\ G \subseteq Nat
  <2>2. IsFiniteSet(Release) /\ Release \subseteq Nat
    BY ReleasesFinite
  <2>3. G \subseteq Release
    BY DEF PoolOf
  <2> QED
    BY <2>2, <2>3, FS_Subset
<1>3. last \in Nat /\ \A r \in S : old[r].id <= last
  <2>1. PICK g : g = [r \in S |-> old[r].id]
    OBVIOUS
  <2>2. PICK I, J, U : I = {0} \cup {old[r].id : r \in S} /\ J = {old[r].id : r \in S} /\ U = S
    OBVIOUS
  <2>3. IsFiniteSet(J)
    <3>1. IsFiniteSet(U) /\ \A t \in J : \E r \in U : t = g[r]
      BY <1>1, <2>1, <2>2
    <3> QED
      BY ONLY <3>1, FiniteImage
  <2>4. IsFiniteSet(I)
    <3>1. I = J \cup {0}
      BY <2>2
    <3> QED
      BY <2>3, <3>1, FS_AddElement
  <2>5. I \in SUBSET Nat /\ I # {}
    BY <1>1, <2>2
  <2>6. Max(I) \in I /\ \A y \in I : y <= Max(I)
    BY <2>4, <2>5, MaxOfFinite
  <2>7. I = {0} \cup {old[r].id : r \in S}
    BY <2>2
  <2>8. last = Max(I)
    BY <2>7
  <2>9. \A r \in S : old[r].id \in I
    BY <2>7
  <2> QED
    BY <2>5, <2>6, <2>8, <2>9
<1>4. /\ IsFiniteSet(fresh) /\ fresh \subseteq Nat
      /\ \A r \in fresh : Rank(r, fresh) \in Nat \ {0}
      /\ \A r, s \in fresh : Rank(r, fresh) = Rank(s, fresh) => r = s
  <2>1. IsFiniteSet(fresh) /\ fresh \subseteq Nat
    BY <1>2, FS_Difference
  <2> HIDE DEF fresh
  <2> QED
    BY <2>1, Ranked
<1>5. DOMAIN rows = S \cup G
  BY DEF Merge, Over, Allocated
<1>6. \A r \in fresh : rows[r] =
         [id |-> last + Rank(r, fresh), quantity |-> grants[r], active |-> TRUE, packed |-> 0]
  BY DEF Merge, Over, Allocated, Rank
<1>7. \A r \in G \cap S : rows[r] =
         [old[r] EXCEPT !.active = TRUE, !.quantity = grants[r] + IF old[r].active THEN @ ELSE 0]
  BY DEF Merge, Over, Allocated
<1>8. \A r \in S \ G : rows[r] = old[r]
  BY DEF Merge, Over, Allocated
<1> HIDE DEF rows, last, fresh
<1>9. \A r \in G : /\ rows[r] \in StockAllocation /\ rows[r].active
                   /\ rows[r].quantity = kept(r) + got(r)
                   /\ r \in S => rows[r].id = old[r].id /\ rows[r].packed = old[r].packed
                   /\ r \notin S => rows[r].id = last + Rank(r, fresh) /\ rows[r].packed = 0
  <2> SUFFICES ASSUME NEW r \in G
               PROVE  /\ rows[r] \in StockAllocation /\ rows[r].active
                      /\ rows[r].quantity = kept(r) + got(r)
                      /\ r \in S => rows[r].id = old[r].id /\ rows[r].packed = old[r].packed
                      /\ r \notin S => rows[r].id = last + Rank(r, fresh) /\ rows[r].packed = 0
    OBVIOUS
  <2>1. CASE r \notin S
    <3>1. r \in fresh
      BY <2>1 DEF fresh
    <3>2. rows[r] =
         [id |-> last + Rank(r, fresh), quantity |-> grants[r], active |-> TRUE, packed |-> 0]
      BY <1>6, <3>1
    <3>3. last + Rank(r, fresh) \in Nat \ {0} /\ grants[r] \in Nat \ {0}
      BY <1>3, <1>4, <3>1
    <3>4. r \notin A
      BY <1>1, <2>1
    <3>5. kept(r) + got(r) = grants[r]
      BY <3>3, <3>4
    <3> HIDE DEF kept, got
    <3> QED
      BY <2>1, <3>2, <3>3, <3>5 DEF StockAllocation
  <2>2. CASE r \in S
    <3>1. rows[r] = [old[r] EXCEPT !.active = TRUE,
                                   !.quantity = grants[r] + IF old[r].active THEN @ ELSE 0]
      BY <1>7, <2>2
    <3>2. /\ old[r] \in StockAllocation /\ old[r].quantity \in Nat \ {0}
          /\ grants[r] \in Nat \ {0} /\ (r \in A <=> old[r].active)
      BY <1>1, <2>2 DEF Active
    <3>3. PICK q : q = kept(r) + got(r)
      OBVIOUS
    <3>4. q \in Nat \ {0} /\ q = grants[r] + IF old[r].active THEN old[r].quantity ELSE 0
      BY <3>2, <3>3
    <3>5. PICK a : a = old[r] /\ a \in StockAllocation
      BY <3>2
    <3>6. PICK b : b = [a EXCEPT !.active = TRUE]
      OBVIOUS
    <3>7. /\ b \in StockAllocation /\ b.active
          /\ b.id = a.id /\ b.quantity = a.quantity /\ b.packed = a.packed
      BY <3>5, <3>6, RowRevived
    <3>8. rows[r] = [b EXCEPT !.quantity = q]
      BY <3>1, <3>4, <3>5, <3>6, <3>7 DEF StockAllocation
    <3>9. rows[r] \in StockAllocation /\ rows[r].id = b.id /\ rows[r].packed = b.packed
          /\ rows[r].quantity = q
      BY <3>4, <3>7, <3>8 DEF StockAllocation
    <3>10. rows[r].active
      BY <3>7, <3>8, Zenon DEF StockAllocation
    <3> QED
      BY <2>2, <3>3, <3>5, <3>7, <3>9, <3>10
  <2> QED
    BY <2>1, <2>2
<1>10. \A r \in DOMAIN rows : rows[r] \in StockAllocation
  BY <1>1, <1>5, <1>8, <1>9
<1>11. DOMAIN rows \subseteq Release
  BY <1>1, <1>2, <1>5
<1>12. new = [line EXCEPT !.allocations = rows]
  BY DEF rows, IsLine
<1>13. /\ IsLine(new) /\ new.allocations = rows
       /\ new.order = line.order /\ new.dest = line.dest
       /\ new.item = line.item /\ new.quantity = line.quantity
  <2>1. IsLine(line)
    OBVIOUS
  <2> QED
    BY ONLY <1>10, <1>11, <1>12, <2>1, LineWithRows
<1>14. Allocated(new) = S \cup G /\ Active(new) = A \cup G
  <2>1. Allocated(new) = S \cup G
    BY <1>5, <1>13 DEF Allocated
  <2>2. \A r \in S \ G : rows[r].active <=> r \in A
    BY <1>8 DEF Active
  <2> QED
    BY <1>1, <1>9, <1>13, <2>1, <2>2 DEF Active
<1>15. \A r \in A \cup G : /\ new.allocations[r].quantity = kept(r) + got(r)
                           /\ kept(r) \in Nat /\ got(r) \in Nat
  BY <1>1, <1>8, <1>9, <1>13
<1>16. IsFiniteSet(A \cup G)
  BY <1>1, <1>2, FS_Union
<1>17. Reserved(new) = Reserved(line) + Sum(grants, G)
  <2>1. PICK k, g, h, U, V, W : /\ k = [r \in A \cup G |-> kept(r)] /\ g = [r \in A \cup G |-> got(r)]
                             /\ h = Pieces(new) /\ U = A \cup G /\ V = A /\ W = G
    OBVIOUS
  <2>2. \A r \in U : k[r] \in Int /\ g[r] \in Int /\ h[r] = k[r] + g[r]
    BY <1>1, <1>14, <1>15, <2>1 DEF Pieces
  <2>3. Sum(h, U) = Sum(k, U) + Sum(g, U)
    <3>1. IsFiniteSet(U)
      BY <1>16, <2>1
    <3> QED
      BY ONLY <2>2, <3>1, SumPlus
  <2>4. Sum(k, U) = Sum(Pieces(line), V)
    <3>4. PICK m : m = Pieces(line)
      OBVIOUS
    <3>1. \A r \in V : m[r] \in Int /\ k[r] = m[r]
      BY <1>1, <2>1, <3>4 DEF Pieces
    <3>2. \A r \in U \ V : k[r] = 0
      BY <2>1
    <3>3. IsFiniteSet(U) /\ V \in SUBSET U
      BY <1>16, <2>1
    <3>5. Sum(k, U) = Sum(m, V)
      BY ONLY <3>1, <3>2, <3>3, SumWhere
    <3> QED
      BY <3>4, <3>5
  <2>5. Sum(g, U) = Sum(grants, W)
    <3>1. \A r \in W : grants[r] \in Int /\ g[r] = grants[r]
      BY <2>1
    <3>2. \A r \in U \ W : g[r] = 0
      BY <2>1
    <3>3. IsFiniteSet(U) /\ W \in SUBSET U
      BY <1>16, <2>1
    <3> QED
      BY ONLY <3>1, <3>2, <3>3, SumWhere
  <2> QED
    BY <1>14, <2>1, <2>3, <2>4, <2>5 DEF Reserved
<1>18. Attributed(new) = Attributed(line)
  <2>1. \A r \in A : Packed(line)[r] \in Int /\ Packed(new)[r] = Packed(line)[r]
    <3> SUFFICES ASSUME NEW r \in A
                 PROVE  Packed(line)[r] \in Int /\ Packed(new)[r] = Packed(line)[r]
      OBVIOUS
    <3>1. r \in S /\ old[r].packed \in Nat /\ r \in Allocated(new)
      BY <1>1, <1>14
    <3>2. rows[r].packed = old[r].packed
      BY <1>8, <1>9, <3>1
    <3> QED
      BY <1>13, <3>1, <3>2 DEF Packed
  <2>2. \A r \in (A \cup G) \ A : Packed(new)[r] = 0
    <3> SUFFICES ASSUME NEW r \in G, r \notin A PROVE Packed(new)[r] = 0
      OBVIOUS
    <3>1. Packed(new)[r] = rows[r].packed
      BY <1>13, <1>14 DEF Packed
    <3>2. CASE r \in S
      <4>1. old[r].packed <= 0 /\ old[r].packed \in Nat
        BY <1>1, <3>2 DEF RowsGood, Active
      <4> QED
        BY <1>9, <3>1, <3>2, <4>1
    <3>3. CASE r \notin S
      BY <1>9, <3>1, <3>3
    <3> QED
      BY <3>2, <3>3
  <2>3. PICK g, h, U, V : g = Packed(new) /\ h = Packed(line) /\ U = A \cup G /\ V = A
    OBVIOUS
  <2>4. /\ IsFiniteSet(U) /\ V \in SUBSET U /\ \A r \in V : h[r] \in Int /\ g[r] = h[r]
        /\ \A r \in U \ V : g[r] = 0
    BY <1>16, <2>1, <2>2, <2>3
  <2>5. Sum(g, U) = Sum(h, V)
    BY ONLY <2>4, SumWhere
  <2> QED
    BY <1>14, <2>3, <2>5 DEF Attributed
<1>19. RowsGood(f, new, p)
  <2>1. \A r \in Allocated(new) :
           new.allocations[r].packed <= IF new.allocations[r].active
                                        THEN new.allocations[r].quantity ELSE 0
    <3> SUFFICES ASSUME NEW r \in S \cup G
                 PROVE  rows[r].packed <= IF rows[r].active THEN rows[r].quantity ELSE 0
      BY <1>13, <1>14
    <3>1. CASE r \in S \ G
      BY <1>8, <3>1 DEF RowsGood
    <3>2. CASE r \in G \ S
      <4>1. rows[r].packed = 0 /\ rows[r].active /\ rows[r].quantity = kept(r) + got(r)
        BY <1>9, <3>2
      <4>2. kept(r) \in Nat /\ got(r) \in Nat
        BY <1>15
      <4> HIDE DEF kept, got
      <4> QED
        BY <4>1, <4>2
    <3>3. CASE r \in G \cap S
      <4>1. rows[r].packed = old[r].packed /\ rows[r].active /\ rows[r].quantity = kept(r) + got(r)
        BY <1>9, <3>3
      <4>2. kept(r) \in Nat /\ got(r) \in Nat /\ old[r].packed \in Nat
        BY <1>1, <1>15, <3>3
      <4>3. old[r].packed <= kept(r)
        BY <3>3 DEF RowsGood, Active
      <4> HIDE DEF kept, got
      <4> QED
        BY <4>1, <4>2, <4>3
    <3> QED
      BY <3>1, <3>2, <3>3
  <2>2. \A r, s \in Allocated(new) : new.allocations[r].id = new.allocations[s].id => r = s
    <3> SUFFICES ASSUME NEW r \in S \cup G, NEW s \in S \cup G, rows[r].id = rows[s].id PROVE r = s
      BY <1>13, <1>14
    <3>1. \A t \in S : rows[t].id = old[t].id /\ old[t].id <= last /\ old[t].id \in Nat
      BY <1>1, <1>3, <1>8, <1>9
    <3>2. \A t \in G \ S : /\ rows[t].id = last + Rank(t, fresh) /\ t \in fresh
                           /\ Rank(t, fresh) \in Nat \ {0}
      BY <1>4, <1>9 DEF fresh
    <3>3. CASE r \in S /\ s \in S
      BY <3>1, <3>3 DEF RowsGood
    <3>4. CASE r \in S /\ s \notin S
      BY <1>3, <3>1, <3>2, <3>4
    <3>5. CASE r \notin S /\ s \in S
      BY <1>3, <3>1, <3>2, <3>5
    <3>6. CASE r \notin S /\ s \notin S
      <4>1. Rank(r, fresh) = Rank(s, fresh)
        BY <1>3, <3>2, <3>6
      <4> QED
        BY <1>4, <3>2, <3>6, <4>1
    <3> QED
      BY <3>3, <3>4, <3>5, <3>6
  <2>3. Active(new) \subseteq PoolOf(f, new.item)
    BY <1>13, <1>14 DEF RowsGood
  <2> QED
    BY <1>18, <2>1, <2>2, <2>3 DEF RowsGood
<1>20. \A r \in Release : Held(new, r) = Held(line, r) + IF r \in G THEN grants[r] ELSE 0
  <2> SUFFICES ASSUME NEW r \in Release PROVE Held(new, r) = kept(r) + got(r)
    BY DEF Held
  <2>1. CASE r \in A \cup G
    BY <1>14, <1>15, <2>1 DEF Held
  <2>2. CASE r \notin A \cup G
    <3>1. kept(r) = 0 /\ got(r) = 0 /\ Held(new, r) = 0
      BY <1>14, <2>2 DEF Held
    <3> QED
      BY <3>1
  <2> QED
    BY <2>1, <2>2
<1> QED
  BY <1>13, <1>17, <1>19, <1>20

-----------------------------------------------------------------------------
(* The plan of a reservation *)

\* A request D for pieces of the lines L, on top of what an edit plans to release.
Request(L, D, planned) ==
    /\ IsFiniteSet(DOMAIN L) /\ \A l \in DOMAIN L : IsLine(L[l])
    /\ DOMAIN D \subseteq DOMAIN L /\ \A l \in DOMAIN D : D[l] \in Nat \ {0}
    /\ \A r \in Release : planned[r] \in Nat

LEMMA HeldTyped ==
    ASSUME releases \in Seq(QaReleaseLine), NEW line, IsLine(line), NEW r
    PROVE  Held(line, r) \in Nat
  BY LineTyped DEF Held

LEMMA CommittedTyped ==
    ASSUME releases \in Seq(QaReleaseLine), NEW L, IsFiniteSet(DOMAIN L),
           \A l \in DOMAIN L : IsLine(L[l]), NEW r
    PROVE  Committed(L, r) \in Nat
<1>1. PICK h : h = [l \in DOMAIN L |-> Held(L[l], r)]
  OBVIOUS
<1>2. \A l \in DOMAIN L : h[l] \in Nat
  BY <1>1, HeldTyped
<1>3. Sum(h, DOMAIN L) \in Nat
  BY <1>2, SumNat
<1> QED
  BY <1>1, <1>3 DEF Committed

LEMMA CandidatesTyped ==
    ASSUME releases \in Seq(QaReleaseLine), NEW L, NEW D, NEW planned, Request(L, D, planned),
           NEW f, NEW item, NEW free, free = Candidates(L, f, item, planned)
    PROVE  /\ DOMAIN free = PoolOf(f, item) /\ IsFiniteSet(DOMAIN free)
           /\ DOMAIN free \subseteq Release /\ DOMAIN free \subseteq Nat
           /\ \A r \in DOMAIN free :
                 /\ Available(L, r) \in Int /\ free[r] \in Nat
                 /\ free[r] = IF 0 <= Available(L, r) + planned[r]
                              THEN Available(L, r) + planned[r] ELSE 0
<1>1. DOMAIN free = PoolOf(f, item) /\ PoolOf(f, item) \subseteq Release
  BY DEF Candidates, PoolOf
<1>2. IsFiniteSet(DOMAIN free) /\ DOMAIN free \subseteq Nat
  BY <1>1, ReleasesFinite, FS_Subset
<1>3. ASSUME NEW r \in DOMAIN free
      PROVE  /\ Available(L, r) \in Int /\ free[r] \in Nat
             /\ free[r] = IF 0 <= Available(L, r) + planned[r]
                          THEN Available(L, r) + planned[r] ELSE 0
  <2>1. r \in Release /\ planned[r] \in Nat
    BY <1>1, <1>3 DEF Request
  <2>2. releases[r] \in QaReleaseLine
    BY <2>1 DEF Release
  <2>3. releases[r].quantity \in Int
    <3>1. releases[r].quantity \in ReleaseQty
      BY <2>2 DEF QaReleaseLine
    <3>2. ReleaseQty \subseteq Int
      BY BoundsAssumption
    <3> QED
      BY ONLY <3>1, <3>2
  <2>4. Committed(L, r) \in Nat
    BY CommittedTyped DEF Request
  <2>5. Available(L, r) \in Int
    BY <2>3, <2>4 DEF Available
  <2>6. PICK v : v = Available(L, r) + planned[r]
    OBVIOUS
  <2>7. v \in Int
    BY <2>1, <2>5, <2>6
  <2>8. Max({0, v}) = IF 0 <= v THEN v ELSE 0
    BY <2>7, MaxOfPair
  <2>9. free[r] = Max({0, v})
    BY <1>1, <1>3, <2>6 DEF Candidates
  <2> QED
    BY <2>5, <2>6, <2>7, <2>8, <2>9
<1> QED
  BY <1>1, <1>2, <1>3

\* The lines of a pool ask one after the other, each in its place.
LEMMA PlaceOfLine ==
    ASSUME releases \in Seq(QaReleaseLine), NEW L, NEW D, NEW planned, Request(L, D, planned),
           NEW l \in DOMAIN D, NEW same, same = {k \in DOMAIN D : L[k].item = L[l].item}
    PROVE  /\ IsFiniteSet(same) /\ \A k \in same : D[k] \in Nat
           /\ Before(L, D, l) \subseteq same
           /\ Sum(D, Before(L, D, l)) \in Nat
           /\ Sum(D, same) \in Nat
           /\ Sum(D, Before(L, D, l)) + D[l] <= Sum(D, same)
<1>1. IsFiniteSet(same) /\ \A k \in same : D[k] \in Nat /\ IsLine(L[k])
  <2>1. same \in SUBSET DOMAIN L
    BY DEF Request
  <2> QED
    BY <2>1, FS_Subset DEF Request
<1>2. PICK B : B = Before(L, D, l)
  OBVIOUS
<1>3. B \subseteq same /\ l \in same /\ IsFiniteSet(B)
  <2>1. B \in SUBSET same /\ l \in same
    BY <1>2 DEF Before
  <2> QED
    BY <1>1, <2>1, FS_Subset
<1>4. l \notin B
  <2>1. L[l].dest \in Nat
    BY <1>1, <1>3, BoundsAssumption DEF IsLine
  <2> QED
    BY <1>2, <2>1 DEF Before
<1>5. Sum(D, B \cup {l}) = D[l] + Sum(D, B) /\ Sum(D, B) \in Nat
  <2>1. \A k \in B \cup {l} : D[k] \in Int
    BY <1>1, <1>3
  <2>2. \A k \in B : D[k] \in Nat
    BY <1>1, <1>3
  <2> QED
    BY <1>3, <1>4, <2>1, <2>2, SumAdd, SumNat
<1>6. Sum(D, B \cup {l}) <= Sum(D, same) /\ Sum(D, same) \in Nat
  <2>1. B \cup {l} \in SUBSET same /\ \A k \in same : D[k] \in Nat
    BY <1>1, <1>3
  <2> QED
    BY <1>1, <2>1, SumSubset, SumNat
<1>7. D[l] \in Nat
  BY <1>1, <1>3
<1> QED
  BY <1>1, <1>2, <1>3, <1>5, <1>6, <1>7

\* A sufficient plan gives a line all it needs.
LEMMA GrantedInFull ==
    ASSUME releases \in Seq(QaReleaseLine), NEW L, NEW D, NEW planned, Request(L, D, planned),
           NEW f, Sufficient(L, f, D, planned), NEW l \in DOMAIN D,
           NEW free, free = Candidates(L, f, L[l].item, planned),
           NEW grants, grants = Granted(L, D, free, l)
    PROVE  /\ DOMAIN grants \subseteq PoolOf(f, L[l].item)
           /\ \A r \in DOMAIN grants : grants[r] \in Nat \ {0}
           /\ Sum(grants, DOMAIN grants) = D[l]
           /\ \A r \in Release : (IF r \in DOMAIN grants THEN grants[r] ELSE 0) =
                 IF r \in PoolOf(f, L[l].item) THEN Share(L, D, free, l, r) ELSE 0
<1>1. /\ DOMAIN free = PoolOf(f, L[l].item) /\ IsFiniteSet(DOMAIN free)
      /\ DOMAIN free \subseteq Release /\ DOMAIN free \subseteq Nat
      /\ \A r \in DOMAIN free : free[r] \in Nat
  BY CandidatesTyped
<1>2. PICK same : same = {k \in DOMAIN D : L[k].item = L[l].item}
  OBVIOUS
<1>3. PICK a, m : a = Sum(D, Before(L, D, l)) /\ m = D[l]
  OBVIOUS
<1>4. a \in Nat /\ m \in Nat /\ Sum(D, same) \in Nat /\ a + m <= Sum(D, same)
  <2>1. m \in Nat
    BY <1>3 DEF Request
  <2> QED
    BY <1>2, <1>3, <2>1, PlaceOfLine
<1>5. Sum(D, same) <= Sum(free, DOMAIN free)
  BY <1>2 DEF Sufficient
<1>6. PICK P : P = DOMAIN free
  OBVIOUS
<1>7. PICK key, before, part :
        /\ key = [r \in P |-> r] /\ before = [r \in P |-> {b \in P : b < r}]
        /\ part = [r \in P |-> Share(L, D, free, l, r)]
  OBVIOUS
<1>8. /\ \A x \in P : free[x] \in Nat /\ key[x] \in Int
      /\ \A x, y \in P : key[x] = key[y] => x = y
      /\ \A x \in P : before[x] \subseteq P
      /\ \A x, y \in P : y \in before[x] <=> key[y] < key[x]
  BY <1>1, <1>6, <1>7
<1>9. \A r \in P : part[r] = Overlap(a, m, Sum(free, before[r]), free[r])
  BY <1>3, <1>6, <1>7 DEF Share
<1>10. \A r \in P : part[r] \in Nat
  <2> SUFFICES ASSUME NEW r \in P PROVE part[r] \in Nat
    OBVIOUS
  <2>1. PICK s, n : s = Sum(free, before[r]) /\ n = free[r]
    OBVIOUS
  <2>2. s \in Nat /\ n \in Nat
    <3>1. IsFiniteSet(before[r]) /\ \A x \in before[r] : free[x] \in Nat
      BY <1>1, <1>6, <1>8, FS_Subset
    <3> QED
      BY <1>8, <2>1, <3>1, SumNat
  <2>3. PICK u, d : u = (a + m) - s /\ d = a - s
    OBVIOUS
  <2>4. u \in Int /\ d \in Int
    BY <1>4, <2>2, <2>3
  <2>5. Overlap(a, m, s, n) \in Nat
    BY ONLY <1>4, <2>2, <2>3, <2>4, OverlapValue
  <2> QED
    BY <1>9, <2>1, <2>5
<1>11. Sum(part, P) = m
  <2>1. IsFiniteSet(P)
    BY <1>1, <1>6
  <2>2. /\ Sum(free, P) \in Nat
        /\ Sum(part, P) = (IF a + m <= Sum(free, P) THEN a + m ELSE Sum(free, P))
                          - (IF a <= Sum(free, P) THEN a ELSE Sum(free, P))
    <3>1. Laid(part, a, m, free, key, before, P)
      BY <1>4, <1>8, <1>9, <2>1 DEF Laid
    <3> QED
      BY <3>1, Overlaps
  <2> QED
    BY <1>4, <1>5, <1>6, <2>2
<1>12. /\ DOMAIN grants = {r \in P : part[r] > 0}
       /\ \A r \in DOMAIN grants : grants[r] = part[r]
  BY <1>6, <1>7 DEF Granted
<1>13. Sum(grants, DOMAIN grants) = m
  <2>1. PICK G : G = DOMAIN grants
    OBVIOUS
  <2>2. /\ IsFiniteSet(P) /\ G \in SUBSET P
        /\ \A r \in G : grants[r] \in Int /\ part[r] = grants[r]
    BY <1>1, <1>6, <1>10, <1>12, <2>1
  <2>3. \A r \in P \ G : part[r] = 0
    BY <1>10, <1>12, <2>1
  <2>4. Sum(part, P) = Sum(grants, G)
    BY ONLY <2>2, <2>3, SumWhere
  <2> QED
    BY <1>11, <2>1, <2>4
<1>14. \A r \in DOMAIN grants : grants[r] \in Nat \ {0}
  BY <1>10, <1>12
<1>15. ASSUME NEW r \in Release
       PROVE  (IF r \in DOMAIN grants THEN grants[r] ELSE 0) =
                 IF r \in PoolOf(f, L[l].item) THEN Share(L, D, free, l, r) ELSE 0
  <2>1. CASE r \in DOMAIN grants
    BY <1>1, <1>6, <1>7, <1>12, <2>1
  <2>2. CASE r \in P /\ r \notin DOMAIN grants
    <3>1. part[r] = 0
      BY <1>10, <1>12, <2>2
    <3> QED
      BY <1>1, <1>6, <1>7, <2>2, <3>1
  <2>3. CASE r \notin P
    BY <1>1, <1>6, <1>12, <2>3
  <2> QED
    BY <2>1, <2>2, <2>3
<1> QED
  BY <1>1, <1>3, <1>6, <1>12, <1>13, <1>14, <1>15

\* The lines of a request take of a release line at most what is free of it.
LEMMA SharesFit ==
    ASSUME releases \in Seq(QaReleaseLine), NEW L, NEW D, NEW planned, Request(L, D, planned),
           NEW f, NEW item, NEW free, free = Candidates(L, f, item, planned),
           NEW same, same = {k \in DOMAIN D : L[k].item = item},
           \A k, l \in same : L[k].dest = L[l].dest => k = l,
           NEW r \in DOMAIN free, NEW part, \A l \in same : part[l] = Share(L, D, free, l, r)
    PROVE  Sum(part, same) <= free[r]
<1>1. /\ IsFiniteSet(DOMAIN free) /\ \A b \in DOMAIN free : free[b] \in Nat
  BY CandidatesTyped
<1>2. IsFiniteSet(same) /\ \A k \in same : D[k] \in Nat /\ L[k].dest \in Nat
  <2>1. same \in SUBSET DOMAIN L
    BY DEF Request
  <2>2. \A k \in same : IsLine(L[k]) /\ D[k] \in Nat
    BY <2>1 DEF Request
  <2>3. \A k \in same : L[k].dest \in Nat
    BY <2>2, BoundsAssumption DEF IsLine
  <2> QED
    BY <2>1, <2>2, <2>3, FS_Subset DEF Request
<1>3. PICK a, m : a = Sum(free, {b \in DOMAIN free : b < r}) /\ m = free[r]
  OBVIOUS
<1>4. a \in Nat /\ m \in Nat
  <2>1. PICK B : B = {b \in DOMAIN free : b < r}
    OBVIOUS
  <2>2. B \in SUBSET DOMAIN free
    BY <2>1
  <2>3. IsFiniteSet(B) /\ \A b \in B : free[b] \in Nat
    BY <1>1, <2>2, FS_Subset
  <2> QED
    BY <1>1, <1>3, <2>1, <2>3, SumNat
<1>5. PICK key, before : /\ key = [k \in same |-> L[k].dest]
                         /\ before = [k \in same |-> Before(L, D, k)]
  OBVIOUS
<1>6. /\ \A x \in same : D[x] \in Nat /\ key[x] \in Int
      /\ \A x, y \in same : key[x] = key[y] => x = y
      /\ \A x \in same : before[x] \subseteq same
      /\ \A x, y \in same : y \in before[x] <=> key[y] < key[x]
  BY <1>2, <1>5 DEF Before
<1>7. \A x \in same : Sum(D, before[x]) \in Nat
  <2> SUFFICES ASSUME NEW x \in same PROVE Sum(D, before[x]) \in Nat
    OBVIOUS
  <2>1. IsFiniteSet(before[x]) /\ \A y \in before[x] : D[y] \in Nat
    BY <1>2, <1>6, FS_Subset
  <2> QED
    BY <2>1, SumNat
<1>8. \A x \in same : part[x] = Overlap(a, m, Sum(D, before[x]), D[x])
  <2> SUFFICES ASSUME NEW x \in same PROVE part[x] = Overlap(a, m, Sum(D, before[x]), D[x])
    OBVIOUS
  <2>1. PICK s, n : s = Sum(D, before[x]) /\ n = D[x]
    OBVIOUS
  <2>2. s \in Nat /\ n \in Nat
    BY <1>2, <1>7, <2>1
  <2>3. part[x] = Overlap(s, n, a, m)
    BY <1>3, <1>5, <2>1 DEF Share
  <2>4. PICK u, d : u = (s + n) - a /\ d = s - a
    OBVIOUS
  <2>5. u \in Int /\ d \in Int
    BY <1>4, <2>2, <2>4
  <2>6. Overlap(s, n, a, m) = Overlap(a, m, s, n)
    BY ONLY <1>4, <2>2, <2>4, <2>5, OverlapValue
  <2> QED
    BY <2>1, <2>3, <2>6
<1>9. /\ Sum(D, same) \in Nat
      /\ Sum(part, same) = (IF a + m <= Sum(D, same) THEN a + m ELSE Sum(D, same))
                           - (IF a <= Sum(D, same) THEN a ELSE Sum(D, same))
  <2>1. Laid(part, a, m, D, key, before, same)
    BY <1>2, <1>4, <1>6, <1>8 DEF Laid
  <2> QED
    BY <2>1, Overlaps
<1> QED
  BY <1>3, <1>4, <1>9

\* What a reservation makes of each line.
Reserves(L, D, planned, f, N) ==
    /\ DOMAIN N = DOMAIN L
    /\ \A l \in DOMAIN L \ DOMAIN D : N[l] = L[l]
    /\ \A l \in DOMAIN D : \A p : RowsGood(f, L[l], p) =>
          /\ IsLine(N[l]) /\ RowsGood(f, N[l], p)
          /\ N[l].order = L[l].order /\ N[l].dest = L[l].dest
          /\ N[l].item = L[l].item /\ N[l].quantity = L[l].quantity
          /\ Reserved(N[l]) = Reserved(L[l]) + D[l]
          /\ \A r \in Release : Held(N[l], r) = Held(L[l], r) +
                IF r \in PoolOf(f, L[l].item)
                THEN Share(L, D, Candidates(L, f, L[l].item, planned), l, r) ELSE 0

LEMMA ReserveGood ==
    ASSUME releases \in Seq(QaReleaseLine), NEW L, NEW D, NEW planned, Request(L, D, planned),
           NEW f, Sufficient(L, f, D, planned), NEW N, N = Reserve(L, f, D, planned)
    PROVE  Reserves(L, D, planned, f, N)
<1>1. DOMAIN D \subseteq DOMAIN L
  BY DEF Request
<1>2. /\ DOMAIN N = DOMAIN L
      /\ \A l \in DOMAIN L \ DOMAIN D : N[l] = L[l]
  BY <1>1 DEF Reserve, Over
<1>3. ASSUME NEW l \in DOMAIN D, NEW p, RowsGood(f, L[l], p)
      PROVE  /\ IsLine(N[l]) /\ RowsGood(f, N[l], p)
             /\ N[l].order = L[l].order /\ N[l].dest = L[l].dest
             /\ N[l].item = L[l].item /\ N[l].quantity = L[l].quantity
             /\ Reserved(N[l]) = Reserved(L[l]) + D[l]
             /\ \A r \in Release : Held(N[l], r) = Held(L[l], r) +
                   IF r \in PoolOf(f, L[l].item)
                   THEN Share(L, D, Candidates(L, f, L[l].item, planned), l, r) ELSE 0
  <2>1. PICK line, free, grants, new :
           /\ line = L[l] /\ free = Candidates(L, f, L[l].item, planned)
           /\ grants = Granted(L, D, free, l)
           /\ new = [line EXCEPT !.allocations = Merge(@, grants)]
    OBVIOUS
  <2>2. N[l] = new
    BY <1>1, <2>1 DEF Reserve, Over
  <2>3. IsLine(line)
    BY <1>1, <2>1 DEF Request
  <2>4. /\ DOMAIN grants \subseteq PoolOf(f, line.item)
        /\ \A r \in DOMAIN grants : grants[r] \in Nat \ {0}
        /\ Sum(grants, DOMAIN grants) = D[l]
        /\ \A r \in Release : (IF r \in DOMAIN grants THEN grants[r] ELSE 0) =
              IF r \in PoolOf(f, line.item) THEN Share(L, D, free, l, r) ELSE 0
    <3>1. /\ DOMAIN grants \subseteq PoolOf(f, L[l].item)
          /\ \A r \in DOMAIN grants : grants[r] \in Nat \ {0}
          /\ Sum(grants, DOMAIN grants) = D[l]
          /\ \A r \in Release : (IF r \in DOMAIN grants THEN grants[r] ELSE 0) =
                IF r \in PoolOf(f, L[l].item) THEN Share(L, D, free, l, r) ELSE 0
      <4>1. free = Candidates(L, f, L[l].item, planned) /\ grants = Granted(L, D, free, l)
        BY <2>1
      <4>2. Request(L, D, planned) /\ Sufficient(L, f, D, planned) /\ l \in DOMAIN D
        OBVIOUS
      <4> QED
        BY ONLY releases \in Seq(QaReleaseLine), <4>1, <4>2, GrantedInFull
    <3> QED
      BY <2>1, <3>1
  <2>5. /\ IsLine(new) /\ RowsGood(f, new, p)
        /\ new.order = line.order /\ new.dest = line.dest
        /\ new.item = line.item /\ new.quantity = line.quantity
        /\ Reserved(new) = Reserved(line) + Sum(grants, DOMAIN grants)
        /\ \A r \in Release : Held(new, r) =
              Held(line, r) + IF r \in DOMAIN grants THEN grants[r] ELSE 0
    <3>1. RowsGood(f, line, p) /\ new = [line EXCEPT !.allocations = Merge(@, grants)]
      BY <1>3, <2>1
    <3> QED
      BY ONLY releases \in Seq(QaReleaseLine), <2>3, <2>4, <3>1, MergeGood
  <2> QED
    BY <2>1, <2>2, <2>4, <2>5
<1> QED
  BY <1>2, <1>3 DEF Reserves

-----------------------------------------------------------------------------
(* Packed pieces *)

Countable(C) ==
    /\ IsFiniteSet(DOMAIN C)
    /\ \A c \in DOMAIN C : \A l \in DOMAIN C[c].contents : C[c].contents[l] \in Nat

LEMMA PackedTyped ==
    ASSUME NEW C, Countable(C), NEW l
    PROVE  /\ \A c \in DOMAIN C : InCarton(C[c], l) \in Nat
           /\ PhysicalPacked(C, l) \in Nat
<1>1. PICK g : g = [c \in DOMAIN C |-> InCarton(C[c], l)]
  OBVIOUS
<1>2. \A c \in DOMAIN C : InCarton(C[c], l) \in Nat
  BY DEF InCarton, Countable
<1>3. \A c \in DOMAIN C : g[c] \in Nat
  BY <1>1, <1>2
<1>4. Sum(g, DOMAIN C) \in Nat
  BY <1>3, SumNat DEF Countable
<1> QED
  BY <1>1, <1>2, <1>4 DEF PhysicalPacked

\* Cartons that hold nothing of a line do not count for it.
LEMMA PackedInPart ==
    ASSUME NEW C, Countable(C), NEW l, NEW V \in SUBSET DOMAIN C,
           \A c \in DOMAIN C \ V : InCarton(C[c], l) = 0,
           NEW g, \A c \in V : g[c] = InCarton(C[c], l)
    PROVE  PhysicalPacked(C, l) = Sum(g, V)
<1>1. PICK h, U : h = [c \in DOMAIN C |-> InCarton(C[c], l)] /\ U = DOMAIN C
  OBVIOUS
<1>2. IsFiniteSet(U) /\ V \in SUBSET U
  BY <1>1 DEF Countable
<1>3. /\ \A c \in V : g[c] \in Int /\ h[c] = g[c]
      /\ \A c \in U \ V : h[c] = 0
  BY <1>1, PackedTyped
<1>4. Sum(h, U) = Sum(g, V)
  BY ONLY <1>2, <1>3, SumWhere
<1> QED
  BY <1>1, <1>4 DEF PhysicalPacked

LEMMA SamePacked ==
    ASSUME NEW B, Countable(B), NEW C, Countable(C), NEW l,
           \A c \in DOMAIN B \cap DOMAIN C : InCarton(B[c], l) = InCarton(C[c], l),
           \A c \in DOMAIN B \ DOMAIN C : InCarton(B[c], l) = 0,
           \A c \in DOMAIN C \ DOMAIN B : InCarton(C[c], l) = 0
    PROVE  PhysicalPacked(B, l) = PhysicalPacked(C, l)
<1>1. PICK V, g : V = DOMAIN B \cap DOMAIN C /\ g = [c \in V |-> InCarton(C[c], l)]
  OBVIOUS
<1>2. /\ V \in SUBSET DOMAIN B /\ \A c \in DOMAIN B \ V : InCarton(B[c], l) = 0
      /\ \A c \in V : g[c] = InCarton(B[c], l)
  BY <1>1
<1>3. /\ V \in SUBSET DOMAIN C /\ \A c \in DOMAIN C \ V : InCarton(C[c], l) = 0
      /\ \A c \in V : g[c] = InCarton(C[c], l)
  BY <1>1
<1>4. PhysicalPacked(B, l) = Sum(g, V)
  BY <1>2, PackedInPart
<1>5. PhysicalPacked(C, l) = Sum(g, V)
  BY <1>3, PackedInPart
<1> QED
  BY <1>4, <1>5

LEMMA NonePacked ==
    ASSUME NEW C, Countable(C), NEW l, \A c \in DOMAIN C : InCarton(C[c], l) = 0
    PROVE  PhysicalPacked(C, l) = 0
<1>1. PICK g : g = [c \in DOMAIN C |-> InCarton(C[c], l)]
  OBVIOUS
<1>2. \A c \in DOMAIN C : g[c] = 0
  BY <1>1
<1>3. Sum(g, DOMAIN C) = 0
  BY <1>2, SumZero DEF Countable
<1> QED
  BY <1>1, <1>3 DEF PhysicalPacked

-----------------------------------------------------------------------------
(* The wanted lines and the lines that become them *)

\* Wanted lines have pieces, and no two are of one destination and item.
Wanted(E) ==
    /\ IsFiniteSet(E)
    /\ E \subseteq [dest: Dest, item: Item, quantity: Nat \ {0}]
    /\ \A d, e \in E : d.dest = e.dest /\ d.item = e.item => d = e

LEMMA EvenSplit ==
    ASSUME NEW q \in Nat \ {0}, NEW n \in Nat, n > 0, q % n = 0
    PROVE  q \div n \in Nat \ {0}
<1>1. q \div n \in Int /\ q = n * (q \div n) + (q % n)
  OBVIOUS
<1>2. q \div n \in Nat
  OBVIOUS
<1>3. ASSUME q \div n = 0 PROVE FALSE
  <2>1. q = n * 0 + 0
    BY <1>1, <1>3
  <2> QED
    BY <2>1
<1> QED
  BY <1>2, <1>3

LEMMA ExpandGood ==
    ASSUME NEW f, NEW want \in Requests, Splits(f, want)
    PROVE  Wanted(Expand(f, want))
<1>1. /\ DOMAIN want \subseteq Dest \X Style
      /\ \A w \in DOMAIN want : want[w] \in Total
  <2>1. PICK W \in SUBSET (Dest \X Style) : want \in [W -> Total]
    BY DEF Requests
  <2> QED
    BY <2>1
<1>2. PICK share : share = [w \in DOMAIN want |->
                              want[w] \div Cardinality(EligibleSizes(f, w[2]))]
  OBVIOUS
<1>3. \A e : e \in Expand(f, want) <=>
         \E w \in DOMAIN want : \E z \in EligibleSizes(f, w[2]) :
            e = [dest |-> w[1], item |-> <<w[2], z>>, quantity |-> share[w]]
  BY <1>2 DEF Expand
<1>4. \A w \in DOMAIN want : EligibleSizes(f, w[2]) \subseteq Size
  <2> SUFFICES ASSUME NEW w \in DOMAIN want PROVE EligibleSizes(f, w[2]) \subseteq Size
    OBVIOUS
  <2>1. w[2] \in Style
    BY <1>1
  <2>2. Configured[w[2]] \subseteq Size
    BY <2>1, BoundsAssumption
  <2> QED
    BY <2>2 DEF EligibleSizes
<1>5. \A w \in DOMAIN want : share[w] \in Nat \ {0}
  <2> SUFFICES ASSUME NEW w \in DOMAIN want PROVE share[w] \in Nat \ {0}
    OBVIOUS
  <2>1. PICK q, n : q = want[w] /\ n = Cardinality(EligibleSizes(f, w[2]))
    OBVIOUS
  <2>2. n \in Nat
    <3>1. IsFiniteSet(Size)
      BY BoundsAssumption
    <3>2. IsFiniteSet(EligibleSizes(f, w[2]))
      BY <1>4, <3>1, FS_Subset
    <3> QED
      BY <2>1, <3>2, FS_CardinalityType
  <2>3. n > 0 /\ q % n = 0
    BY <2>1 DEF Splits
  <2>4. q \in Nat \ {0}
    <3>1. Total \subseteq Nat \ {0}
      BY BoundsAssumption
    <3> QED
      BY <1>1, <2>1, <3>1
  <2>5. q \div n \in Nat \ {0}
    BY ONLY <2>2, <2>3, <2>4, EvenSplit
  <2> QED
    BY <1>2, <2>1, <2>5
<1>6. \A w \in DOMAIN want : w[1] \in Dest /\ w[2] \in Style /\ w = <<w[1], w[2]>>
  BY <1>1
<1>7. Expand(f, want) \subseteq [dest: Dest, item: Item, quantity: Nat \ {0}]
  <2> SUFFICES ASSUME NEW e \in Expand(f, want)
               PROVE  e \in [dest: Dest, item: Item, quantity: Nat \ {0}]
    OBVIOUS
  <2>1. PICK w, z : w \in DOMAIN want /\ z \in EligibleSizes(f, w[2]) /\
           e = [dest |-> w[1], item |-> <<w[2], z>>, quantity |-> share[w]]
    BY <1>3
  <2>2. <<w[2], z>> \in Item
    BY <1>4, <1>6, <2>1 DEF Item
  <2> QED
    BY <1>5, <1>6, <2>1, <2>2
<1>8. ASSUME NEW d \in Expand(f, want), NEW e \in Expand(f, want),
             d.dest = e.dest, d.item = e.item
      PROVE  d = e
  <2>1. PICK w, z : w \in DOMAIN want /\ z \in EligibleSizes(f, w[2]) /\
           d = [dest |-> w[1], item |-> <<w[2], z>>, quantity |-> share[w]]
    BY <1>3
  <2>2. PICK v, y : v \in DOMAIN want /\ y \in EligibleSizes(f, v[2]) /\
           e = [dest |-> v[1], item |-> <<v[2], y>>, quantity |-> share[v]]
    BY <1>3
  <2>3. w[1] = v[1] /\ <<w[2], z>> = <<v[2], y>>
    BY <1>8, <2>1, <2>2
  <2>4. w = v /\ z = y
    <3>1. w = <<w[1], w[2]>> /\ v = <<v[1], v[2]>>
      BY <1>6, <2>1, <2>2
    <3>2. w[2] = v[2] /\ z = y
      BY <2>3
    <3> QED
      BY <2>3, <3>1, <3>2
  <2> QED
    BY <2>1, <2>2, <2>4
<1>9. IsFiniteSet(Expand(f, want))
  <2>1. IsFiniteSet(Dest) /\ IsFiniteSet(Style) /\ IsFiniteSet(Size)
    BY BoundsAssumption
  <2>2. PICK P : P = (Dest \X Style) \X Size
    OBVIOUS
  <2>3. IsFiniteSet(P)
    <3>1. IsFiniteSet(Dest \X Style)
      BY <2>1, FS_Product
    <3> QED
      BY <2>1, <2>2, <3>1, FS_Product
  <2>4. PICK g : g = [x \in P |-> [dest |-> x[1][1], item |-> <<x[1][2], x[2]>>,
                                   quantity |-> share[x[1]]]]
    OBVIOUS
  <2>5. ASSUME NEW e \in Expand(f, want) PROVE \E x \in P : e = g[x]
    <3>1. PICK w, z : w \in DOMAIN want /\ z \in EligibleSizes(f, w[2]) /\
             e = [dest |-> w[1], item |-> <<w[2], z>>, quantity |-> share[w]]
      BY <1>3
    <3>2. <<w, z>> \in P
      <4>1. w \in Dest \X Style /\ z \in Size
        BY <1>1, <1>4, <3>1
      <4> QED
        BY <2>2, <4>1
    <3>3. g[<<w, z>>] = [dest |-> w[1], item |-> <<w[2], z>>, quantity |-> share[w]]
      BY <2>4, <3>2
    <3> QED
      BY <3>1, <3>2, <3>3
  <2> QED
    BY <2>3, <2>5, FiniteImage
<1> QED
  BY <1>7, <1>8, <1>9 DEF Wanted

\* New ids are not in use, and every wanted line gets its own.
LEMMA FreshGood ==
    ASSUME NEW L, DOMAIN L \subseteq LineId, NEW E, IsFiniteSet(E), NEW F, F = Fresh(L, E)
    PROVE  /\ \A l \in DOMAIN F : l \notin DOMAIN L /\ F[l] \in E
           /\ \A k, l \in DOMAIN F : F[k] = F[l] => k = l
<1>1. PICK new, last : new = SetToSeq(E) /\ last = Max({0} \cup DOMAIN L)
  OBVIOUS
<1>2. last \in Nat /\ \A l \in DOMAIN L : l <= last
  <2>1. PICK I : I = {0} \cup DOMAIN L
    OBVIOUS
  <2>2. IsFiniteSet(DOMAIN L) /\ DOMAIN L \subseteq Nat
    BY IdsFinite, FS_Subset
  <2>3. IsFiniteSet(I) /\ I \in SUBSET Nat /\ I # {}
    <3>1. I = DOMAIN L \cup {0}
      BY <2>1
    <3> QED
      BY <2>2, <3>1, FS_AddElement
  <2>4. Max(I) \in I /\ \A y \in I : y <= Max(I)
    BY <2>3, MaxOfFinite
  <2> QED
    BY <1>1, <2>1, <2>3, <2>4
<1>3. PICK n : n = Cardinality(E) /\ n \in Nat
  BY FS_CardinalityType
<1>4. /\ new \in [1 .. n -> E]
      /\ \A i, j \in 1 .. n : new[i] = new[j] => i = j
  <2>1. ExistsBijection(1 .. n, E)
    BY <1>3, FS_CardinalityType
  <2>2. PICK h : h \in [1 .. n -> E] /\ \A i, j \in 1 .. n : h[i] = h[j] => i = j
    BY <2>1 DEF ExistsBijection, Bijection, Injection, IsInjective
  <2>3. \E g \in [1 .. n -> E] : IsInjective(g)
    BY <2>2 DEF IsInjective
  <2>4. new = CHOOSE g \in [1 .. n -> E] : IsInjective(g)
    BY <1>1, <1>3 DEF SetToSeq
  <2>5. new \in [1 .. n -> E] /\ IsInjective(new)
    BY <2>3, <2>4
  <2> QED
    BY <2>5 DEF IsInjective
<1>5. Len(new) = n
  <2>1. new \in Seq(E) /\ DOMAIN new = 1 .. n
    BY <1>3, <1>4
  <2> QED
    BY <1>3, <2>1
<1>6. F = [l \in last + 1 .. last + n |-> new[l - last]]
  BY <1>1, <1>5 DEF Fresh
<1>7. \A l \in last + 1 .. last + n : l - last \in 1 .. n /\ l \in Nat /\ l > last
  BY <1>2, <1>3
<1>8. \A l \in DOMAIN F : l \notin DOMAIN L /\ F[l] \in E
  <2> SUFFICES ASSUME NEW l \in DOMAIN F PROVE l \notin DOMAIN L /\ F[l] \in E
    OBVIOUS
  <2>1. l \in last + 1 .. last + n /\ F[l] = new[l - last]
    BY <1>6
  <2>2. l - last \in 1 .. n /\ ~(l <= last)
    BY <1>2, <1>7, <2>1
  <2> QED
    BY <1>2, <1>4, <2>1, <2>2
<1>9. ASSUME NEW k \in DOMAIN F, NEW l \in DOMAIN F, F[k] = F[l] PROVE k = l
  <2>1. /\ k \in last + 1 .. last + n /\ F[k] = new[k - last]
        /\ l \in last + 1 .. last + n /\ F[l] = new[l - last]
    BY <1>6
  <2>2. k - last \in 1 .. n /\ l - last \in 1 .. n /\ k \in Nat /\ l \in Nat
    BY <1>7, <2>1
  <2>3. k - last = l - last
    BY <1>4, <1>9, <2>1, <2>2
  <2> QED
    BY <1>2, <2>2, <2>3
<1> QED
  BY <1>8, <1>9

\* A wanted line has one line to take over at most, one of the order and of its item.
LEMMA ContinuedGood ==
    ASSUME NEW L, DOMAIN L \subseteq LineId, NEW o, NEW E, NEW e \in E,
           \A k, l \in LinesOf(L, o) : SameGrain(L[k], L[l]) => k = l,
           NEW l \in Continued(L, o, E, e)
    PROVE  /\ l \in LinesOf(L, o) /\ L[l].item = e.item
           /\ \A k \in Continued(L, o, E, e) : k = l
<1> DEFINE waiting   == {d.dest : d \in {d \in E : d.item = e.item /\ Exact(L, o, d) = {}}}
           unclaimed == {k \in LinesOf(L, o) :
                           L[k].item = e.item /\ ~ \E d \in E : SameGrain(L[k], d)}
<1>1. Continued(L, o, E, e) =
         IF Exact(L, o, e) # {} THEN Exact(L, o, e)
         ELSE {k \in unclaimed : Rank(k, unclaimed) = Rank(e.dest, waiting)}
  BY DEF Continued
<1>2. CASE Exact(L, o, e) # {}
  <2>1. Continued(L, o, E, e) = Exact(L, o, e)
    BY <1>1, <1>2
  <2> QED
    BY <2>1 DEF Exact, SameGrain
<1>3. CASE Exact(L, o, e) = {}
  <2>1. /\ Continued(L, o, E, e) \subseteq unclaimed
        /\ \A k \in Continued(L, o, E, e) : Rank(k, unclaimed) = Rank(e.dest, waiting)
    BY <1>1, <1>3
  <2>2. IsFiniteSet(unclaimed) /\ unclaimed \subseteq Nat
    <3>1. unclaimed \subseteq LineId
      BY DEF LinesOf
    <3> QED
      BY <3>1, IdsFinite, FS_Subset
  <2>3. unclaimed \subseteq {k \in LinesOf(L, o) : L[k].item = e.item}
    OBVIOUS
  <2> HIDE DEF unclaimed, waiting
  <2>4. \A k \in Continued(L, o, E, e) : k = l
    BY <2>1, <2>2, Ranked
  <2> QED
    BY <2>1, <2>3, <2>4
<1> QED
  BY <1>2, <1>3

\* The targets of an edit: wanted lines, each once; the ones of ids in use continue
\* a line of the order and of the same item.
LEMMA TargetsGood ==
    ASSUME NEW L, DOMAIN L \subseteq LineId, NEW o, NEW E, IsFiniteSet(E),
           \A k, l \in LinesOf(L, o) : SameGrain(L[k], L[l]) => k = l,
           NEW T, T = Targets(L, o, E)
    PROVE  /\ \A l \in DOMAIN T : T[l] \in E
           /\ \A k, l \in DOMAIN T : T[k] = T[l] => k = l
           /\ \A l \in DOMAIN T : l \in DOMAIN L => l \in LinesOf(L, o) /\ L[l].item = T[l].item
<1>1. PICK A, R, F : /\ A = [l \in UNION {Continued(L, o, E, e) : e \in E} |->
                               CHOOSE e \in E : l \in Continued(L, o, E, e)]
                     /\ R = {e \in E : Continued(L, o, E, e) = {}}
                     /\ F = Fresh(L, R)
  OBVIOUS
<1>2. T = Over(A, F)
  BY <1>1 DEF Targets
<1>3. \A l \in DOMAIN A : A[l] \in E /\ l \in Continued(L, o, E, A[l])
  BY <1>1
<1>4. \A l \in DOMAIN A : l \in LinesOf(L, o) /\ L[l].item = A[l].item
  BY <1>3, ContinuedGood
<1>5. ASSUME NEW k \in DOMAIN A, NEW l \in DOMAIN A, A[k] = A[l] PROVE k = l
  <2>1. A[l] \in E /\ k \in Continued(L, o, E, A[l]) /\ l \in Continued(L, o, E, A[l])
    BY <1>3, <1>5
  <2> QED
    BY <2>1, ContinuedGood
<1>6. R \subseteq E /\ IsFiniteSet(R)
  BY <1>1, FS_Subset
<1>7. /\ \A l \in DOMAIN F : l \notin DOMAIN L /\ F[l] \in R
      /\ \A k, l \in DOMAIN F : F[k] = F[l] => k = l
  <2>1. F = Fresh(L, R)
    BY <1>1
  <2> QED
    BY ONLY DOMAIN L \subseteq LineId, <1>6, <2>1, FreshGood
<1>8. \A l \in DOMAIN A : l \in DOMAIN L
  BY <1>4 DEF LinesOf
<1>9. /\ DOMAIN T = DOMAIN A \cup DOMAIN F
      /\ \A l \in DOMAIN A : T[l] = A[l]
      /\ \A l \in DOMAIN F : T[l] = F[l]
  BY <1>2, <1>7, <1>8 DEF Over
<1>10. \A l \in DOMAIN A : A[l] \notin R
  BY <1>1, <1>3
<1>11. \A l \in DOMAIN T : T[l] \in E
  BY <1>3, <1>6, <1>7, <1>9
<1>12. \A k, l \in DOMAIN T : T[k] = T[l] => k = l
  BY <1>5, <1>7, <1>9, <1>10
<1>13. \A l \in DOMAIN T : l \in DOMAIN L => l \in LinesOf(L, o) /\ L[l].item = T[l].item
  BY <1>4, <1>7, <1>9
<1> QED
  BY <1>11, <1>12, <1>13

\* A new line has no rows yet.
LEMMA NewLineGood ==
    ASSUME releases \in Seq(QaReleaseLine), NEW o \in Order,
           NEW e \in [dest: Dest, item: Item, quantity: Nat \ {0}],
           NEW new, new = [order |-> o, dest |-> e.dest, item |-> e.item,
                           quantity |-> e.quantity, allocations |-> <<>>],
           NEW f
    PROVE  /\ IsLine(new) /\ RowsGood(f, new, 0) /\ Reserved(new) = 0
           /\ new.order = o /\ new.dest = e.dest /\ new.item = e.item
           /\ new.quantity = e.quantity
           /\ \A r \in Release : Held(new, r) = 0
<1>1. /\ DOMAIN new = {"order", "dest", "item", "quantity", "allocations"}
      /\ new.order = o /\ new.dest = e.dest /\ new.item = e.item
      /\ new.quantity = e.quantity /\ new.allocations = <<>>
  OBVIOUS
<1>2. e.dest \in Dest /\ e.item \in Item /\ e.quantity \in Nat \ {0}
  OBVIOUS
<1>3. DOMAIN new.allocations = {}
  BY <1>1
<1>4. IsLine(new)
  BY <1>1, <1>2, <1>3 DEF IsLine
<1>5. Allocated(new) = {} /\ Active(new) = {}
  BY <1>3 DEF Allocated, Active
<1>6. Reserved(new) = 0 /\ Attributed(new) = 0
  BY <1>5, SumEmpty DEF Reserved, Attributed
<1>7. RowsGood(f, new, 0)
  BY <1>5, <1>6 DEF RowsGood
<1>8. \A r \in Release : Held(new, r) = 0
  BY <1>5 DEF Held
<1> QED
  BY <1>1, <1>4, <1>6, <1>7, <1>8

\* A reservation takes of each release line what it finds there, or nothing.
LEMMA TakenFromFree ==
    ASSUME releases \in Seq(QaReleaseLine), NEW L, NEW D, NEW planned, Request(L, D, planned),
           NEW f, Sufficient(L, f, D, planned), NEW N, N = Reserve(L, f, D, planned),
           \A l \in DOMAIN D : \E p : RowsGood(f, L[l], p),
           \A k, l \in DOMAIN D : L[k].item = L[l].item /\ L[k].dest = L[l].dest => k = l,
           NEW r \in Release
    PROVE  /\ Committed(L, r) \in Nat /\ Committed(N, r) \in Nat
           /\ \/ Committed(N, r) <= Committed(L, r)
              \/ Committed(N, r) <= releases[r].quantity + planned[r]
<1>1. PICK item, free, same : /\ item = releases[r].item
                              /\ free = Candidates(L, f, item, planned)
                              /\ same = {k \in DOMAIN D : L[k].item = item}
  OBVIOUS
<1>2. PICK held, drawn, after, all :
         /\ held = [l \in DOMAIN L |-> Held(L[l], r)]
         /\ drawn = [l \in DOMAIN L |-> IF l \in same /\ releases[r].factory = f
                                        THEN Share(L, D, free, l, r) ELSE 0]
         /\ after = [l \in DOMAIN N |-> Held(N[l], r)]
         /\ all = DOMAIN L
  OBVIOUS
<1>3. IsFiniteSet(all) /\ DOMAIN D \subseteq all /\ \A l \in all : IsLine(L[l])
  BY <1>2 DEF Request
<1>4. \A l \in all : held[l] \in Nat
  BY <1>2, <1>3, HeldTyped
<1>5. DOMAIN N = all /\ \A l \in all \ DOMAIN D : N[l] = L[l]
  <2>1. Reserves(L, D, planned, f, N)
    BY ReserveGood
  <2> QED
    BY <1>2, <2>1 DEF Reserves
<1>6. ASSUME NEW l \in all
      PROVE  /\ after[l] = held[l] + drawn[l]
             /\ IsLine(N[l])
  <2>1. CASE l \notin DOMAIN D
    BY <1>1, <1>2, <1>3, <1>4, <1>5, <2>1
  <2>2. CASE l \in DOMAIN D
    <3>1. PICK p : RowsGood(f, L[l], p)
      BY <2>2
    <3>2. /\ IsLine(N[l])
          /\ Held(N[l], r) = Held(L[l], r) +
                IF r \in PoolOf(f, L[l].item)
                THEN Share(L, D, Candidates(L, f, L[l].item, planned), l, r) ELSE 0
      <4>1. Reserves(L, D, planned, f, N)
        BY ReserveGood
      <4> QED
        BY <2>2, <3>1, <4>1 DEF Reserves
    <3>3. r \in PoolOf(f, L[l].item) <=> releases[r].factory = f /\ l \in same
      BY <1>1, <2>2 DEF PoolOf
    <3>4. l \in same => free = Candidates(L, f, L[l].item, planned)
      BY <1>1
    <3> QED
      BY <1>2, <1>5, <3>2, <3>3, <3>4
  <2> QED
    BY <2>1, <2>2
<1>7. \A l \in all : after[l] \in Nat
  BY <1>2, <1>5, <1>6, HeldTyped
<1>8. \A l \in all : held[l] \in Int /\ drawn[l] \in Int /\ after[l] = held[l] + drawn[l]
  <2> SUFFICES ASSUME NEW l \in all
               PROVE  held[l] \in Int /\ drawn[l] \in Int /\ after[l] = held[l] + drawn[l]
    OBVIOUS
  <2>1. drawn[l] \in Int
    <3>1. CASE ~(l \in same /\ releases[r].factory = f)
      BY <1>2, <3>1
    <3>2. CASE l \in same /\ releases[r].factory = f
      <4>1. l \in DOMAIN D /\ L[l].item = item /\ r \in PoolOf(f, item)
        BY <1>1, <3>2 DEF PoolOf
      <4>2. r \in DOMAIN free /\ free[r] \in Nat
        BY <1>1, <4>1, CandidatesTyped
      <4>3. drawn[l] = Share(L, D, free, l, r)
        BY <1>2, <3>2
      <4>4. PICK a, m, b, n : /\ a = Sum(D, Before(L, D, l)) /\ m = D[l]
                              /\ b = Sum(free, {k \in DOMAIN free : k < r}) /\ n = free[r]
        OBVIOUS
      <4>5. a \in Nat
        BY <4>1, <4>4, PlaceOfLine
      <4>6. b \in Nat
        <5>1. IsFiniteSet(DOMAIN free) /\ \A k \in DOMAIN free : free[k] \in Nat
          BY <1>1, CandidatesTyped
        <5>2. {k \in DOMAIN free : k < r} \subseteq DOMAIN free
          OBVIOUS
        <5>3. IsFiniteSet({k \in DOMAIN free : k < r})
          BY <5>1, <5>2, FS_Subset
        <5> QED
          BY <4>4, <5>1, <5>3, SumNat
      <4>7. m \in Nat /\ n \in Nat
        BY <4>1, <4>2, <4>4 DEF Request
      <4>8. PICK up, down : up = (a + m) - b /\ down = a - b
        OBVIOUS
      <4>9. up \in Int /\ down \in Int
        BY <4>5, <4>6, <4>7, <4>8
      <4>10. Overlap(a, m, b, n) \in Nat
        BY ONLY <4>5, <4>6, <4>7, <4>8, <4>9, OverlapValue
      <4> QED
        BY <4>3, <4>4, <4>10 DEF Share
    <3> QED
      BY <3>1, <3>2
  <2> QED
    BY <1>4, <1>6, <2>1
<1>9. Sum(after, all) = Sum(held, all) + Sum(drawn, all)
  BY ONLY <1>3, <1>8, SumPlus
<1>10. Committed(N, r) = Sum(after, all) /\ Committed(L, r) = Sum(held, all)
  BY <1>2, <1>5 DEF Committed
<1>11. Sum(after, all) \in Nat /\ Sum(held, all) \in Nat
  BY ONLY <1>3, <1>4, <1>7, SumNat
<1>12. CASE releases[r].factory # f
  <2>1. \A l \in all : drawn[l] = 0
    BY <1>2, <1>12
  <2>2. Sum(drawn, all) = 0
    BY ONLY <1>3, <2>1, SumZero
  <2> QED
    BY <1>9, <1>10, <1>11, <2>2
<1>13. CASE releases[r].factory = f
  <2>1. r \in PoolOf(f, item)
    BY <1>1, <1>13 DEF PoolOf
  <2>2. /\ r \in DOMAIN free /\ free[r] \in Nat /\ Available(L, r) \in Int
        /\ free[r] = IF 0 <= Available(L, r) + planned[r]
                     THEN Available(L, r) + planned[r] ELSE 0
    BY <1>1, <2>1, CandidatesTyped
  <2>3. \A l \in same : drawn[l] = Share(L, D, free, l, r)
    BY <1>1, <1>2, <1>3, <1>13
  <2>4. \A k, l \in same : L[k].dest = L[l].dest => k = l
    BY <1>1
  <2>5. Sum(drawn, same) <= free[r]
    <3>1. Request(L, D, planned) /\ free = Candidates(L, f, item, planned)
          /\ same = {k \in DOMAIN D : L[k].item = item}
      BY <1>1
    <3> QED
      BY ONLY releases \in Seq(QaReleaseLine), <2>2, <2>3, <2>4, <3>1, SharesFit
  <2>6. same \subseteq all
    BY <1>1, <1>3
  <2>7. Sum(drawn, all) = Sum(drawn, same)
    <3>1. \A l \in same : drawn[l] \in Int /\ drawn[l] = drawn[l]
      BY <1>8, <2>6
    <3>2. \A l \in all \ same : drawn[l] = 0
      BY <1>2
    <3> QED
      BY ONLY <1>3, <2>6, <3>1, <3>2, SumWhere
  <2>8. Sum(drawn, all) \in Int
    BY ONLY <1>3, <1>8, SumInt
  <2>9. Available(L, r) = releases[r].quantity - Committed(L, r)
    BY DEF Available
  <2>10. releases[r].quantity \in Int /\ planned[r] \in Int
    <3>1. releases[r] \in QaReleaseLine
      BY DEF Release
    <3>2. releases[r].quantity \in ReleaseQty
      BY <3>1 DEF QaReleaseLine
    <3>3. ReleaseQty \subseteq Nat \ {0}
      BY BoundsAssumption
    <3>4. planned[r] \in Nat
      BY DEF Request
    <3>5. releases[r].quantity \in Nat \ {0}
      BY ONLY <3>2, <3>3
    <3> QED
      BY <3>4, <3>5
  <2> QED
    BY <1>9, <1>10, <1>11, <2>2, <2>5, <2>7, <2>8, <2>9, <2>10
<1> QED
  BY <1>10, <1>11, <1>12, <1>13

-----------------------------------------------------------------------------
(* A step of one order *)

LEMMA Facts ==
    ASSUME IInv
    PROVE  /\ releases \in Seq(QaReleaseLine)
           /\ DOMAIN lines \subseteq LineId /\ IsFiniteSet(DOMAIN lines)
           /\ \A l \in DOMAIN lines :
                 /\ IsLine(lines[l]) /\ lines[l].order \in Order
                 /\ RowsGood(orders[lines[l].order].factory, lines[l],
                             PhysicalPacked(cartons, l))
                 /\ Reserved(lines[l]) \in {0, lines[l].quantity}
           /\ orders \in [Order -> {NoOrder} \cup [factory: Factory, dests: SUBSET Dest]]
           /\ dispatch \in [Order -> {"none", "DRAFT", "READY_FOR_ERVE"}]
           /\ DOMAIN cartons \subseteq CartonId /\ Countable(cartons)
           /\ \A c \in DOMAIN cartons :
                 /\ IsCarton(cartons[c]) /\ cartons[c].order \in Order
                 /\ \A l \in DOMAIN cartons[c].contents :
                       l \in DOMAIN lines /\ lines[l].order = cartons[c].order
           /\ inspecting \in [Inspector -> [carton: 0 .. MaxCarton, version: 0 .. MaxVersion]]
           /\ {MaxLine, MaxCarton, MaxVersion} \subseteq Nat
<1>1. /\ releases \in Seq(QaReleaseLine) /\ DOMAIN lines \subseteq LineId
      /\ orders \in [Order -> {NoOrder} \cup [factory: Factory, dests: SUBSET Dest]]
      /\ dispatch \in [Order -> {"none", "DRAFT", "READY_FOR_ERVE"}]
      /\ DOMAIN cartons \subseteq CartonId
      /\ inspecting \in [Inspector -> [carton: 0 .. MaxCarton, version: 0 .. MaxVersion]]
  BY DEF IInv, TypeOK
<1>2. {MaxLine, MaxCarton, MaxVersion} \subseteq Nat
  BY BoundsAssumption
<1>3. IsFiniteSet(DOMAIN lines)
  BY <1>1, IdsFinite, FS_Subset
<1>4. IsFiniteSet(DOMAIN cartons)
  BY <1>1, IdsFinite, FS_Subset
<1>5. \A l \in DOMAIN lines : IsLine(lines[l]) /\ lines[l].order \in Order
  BY DEF IInv, TypeOK, IsLine
<1>6. \A l \in DOMAIN lines :
         /\ RowsGood(orders[lines[l].order].factory, lines[l], PhysicalPacked(cartons, l))
         /\ Reserved(lines[l]) \in {0, lines[l].quantity}
  BY DEF IInv, LinesGood
<1>7. \A c \in DOMAIN cartons :
         /\ IsCarton(cartons[c]) /\ cartons[c].order \in Order
         /\ \A l \in DOMAIN cartons[c].contents :
               l \in DOMAIN lines /\ cartons[c].contents[l] \in Nat
  BY DEF IInv, TypeOK, IsCarton
<1>8. Countable(cartons)
  BY <1>4, <1>7 DEF Countable
<1>9. \A c \in DOMAIN cartons : \A l \in DOMAIN cartons[c].contents :
         l \in DOMAIN lines /\ lines[l].order = cartons[c].order
  BY <1>7 DEF IInv, ContentsOfOrder
<1> QED
  BY <1>1, <1>2, <1>3, <1>5, <1>6, <1>7, <1>8, <1>9

Complete(o) ==
    /\ LinesOf(lines, o) # {}
    /\ \A l \in LinesOf(lines, o) :
          /\ PhysicalPacked(cartons, l) = lines[l].quantity
          /\ Reserved(lines[l]) = lines[l].quantity
    /\ \A c \in CartonsOf(cartons, o) : ~ cartons[c].retired =>
          /\ cartons[c].weighed
          /\ cartons[c].audited = cartons[c].version
          /\ ~ Mismatched(c)

CartonGood(c) ==
    /\ IsCarton(cartons[c])
    /\ \A l \in DOMAIN cartons[c].contents : lines[l].order = cartons[c].order
    /\ ~ cartons[c].retired /\ cartons[c].audited = cartons[c].version => ~ Mismatched(c)

\* What belongs to another order than o is the same in A and in B.
SameElsewhere(A, B, o) ==
    /\ \A x \in DOMAIN A : A[x].order # o => x \in DOMAIN B /\ B[x] = A[x]
    /\ \A x \in DOMAIN B : B[x].order # o => x \in DOMAIN A /\ B[x] = A[x]

\* A step that touches the order o only, and leaves it as it should be.
OrderStep(o) ==
    /\ releases' = releases
    /\ SameElsewhere(lines, lines', o) /\ SameElsewhere(cartons, cartons', o)
    /\ \A q \in Order \ {o} : dispatch'[q] = dispatch[q] /\ orders'[q] = orders[q]
    /\ orders' \in [Order -> {NoOrder} \cup [factory: Factory, dests: SUBSET Dest]]
    /\ dispatch' \in [Order -> {"none", "DRAFT", "READY_FOR_ERVE"}]
    /\ inspecting' \in [Inspector -> [carton: 0 .. MaxCarton, version: 0 .. MaxVersion]]
    /\ orders'[o] # NoOrder
    /\ DOMAIN lines' \subseteq LineId /\ DOMAIN cartons' \subseteq CartonId
    /\ \A l \in LinesOf(lines', o) :
          /\ IsLine(lines'[l])
          /\ RowsGood(orders'[o].factory, lines'[l], PhysicalPacked(cartons', l))
          /\ Reserved(lines'[l]) \in {0, lines'[l].quantity}
    /\ \A k, l \in LinesOf(lines', o) : SameGrain(lines'[k], lines'[l]) => k = l
    /\ \A c \in CartonsOf(cartons', o) : CartonGood(c)'
    /\ ScreensOpen'
    /\ (Locked(o) => Complete(o))'

\* The pieces of the other orders stay where they are.
LEMMA PackedElsewhere ==
    ASSUME IInv, NEW o \in Order, SameElsewhere(cartons, cartons', o),
           DOMAIN cartons' \subseteq CartonId,
           \A c \in CartonsOf(cartons', o) : CartonGood(c)',
           SameElsewhere(lines, lines', o),
           NEW l \in DOMAIN lines, lines[l].order # o
    PROVE  PhysicalPacked(cartons', l) = PhysicalPacked(cartons, l)
<1>1. /\ \A c \in DOMAIN cartons : cartons[c].order # o =>
            c \in DOMAIN cartons' /\ cartons'[c] = cartons[c]
      /\ \A c \in DOMAIN cartons' : cartons'[c].order # o =>
            c \in DOMAIN cartons /\ cartons'[c] = cartons[c]
  BY DEF SameElsewhere
<1>2. \A c \in DOMAIN cartons : cartons[c].order = o => InCarton(cartons[c], l) = 0
  BY Facts DEF InCarton
<1>3. \A c \in DOMAIN cartons' : cartons'[c].order = o =>
         \A k \in DOMAIN cartons'[c].contents :
            cartons'[c].contents[k] \in Nat /\ lines'[k].order = o
  BY DEF CartonsOf, CartonGood, IsCarton
<1>4. lines'[l] = lines[l]
  BY DEF SameElsewhere
<1>5. \A c \in DOMAIN cartons' : cartons'[c].order = o => InCarton(cartons'[c], l) = 0
  BY <1>3, <1>4 DEF InCarton
<1>6. Countable(cartons')
  <2>1. IsFiniteSet(DOMAIN cartons')
    BY IdsFinite, FS_Subset
  <2>2. \A c \in DOMAIN cartons' : \A k \in DOMAIN cartons'[c].contents :
           cartons'[c].contents[k] \in Nat
    BY <1>1, <1>3, Facts DEF Countable
  <2> QED
    BY <2>1, <2>2 DEF Countable
<1>7. PICK B, C : B = cartons /\ C = cartons'
  OBVIOUS
<1>8. /\ \A c \in DOMAIN B \cap DOMAIN C : InCarton(B[c], l) = InCarton(C[c], l)
      /\ \A c \in DOMAIN B \ DOMAIN C : InCarton(B[c], l) = 0
      /\ \A c \in DOMAIN C \ DOMAIN B : InCarton(C[c], l) = 0
  BY <1>1, <1>2, <1>5, <1>7
<1>9. Countable(B) /\ Countable(C)
  BY <1>6, <1>7, Facts
<1>10. PhysicalPacked(B, l) = PhysicalPacked(C, l)
  BY ONLY <1>8, <1>9, SamePacked
<1> QED
  BY <1>7, <1>10

LEMMA OneOrderStep ==
    ASSUME IInv, NEW o \in Order, OrderStep(o)
    PROVE  IInv'
<1> DEFINE OfOther(l) == l \in DOMAIN lines /\ lines[l].order # o
<1>1. /\ releases' = releases
      /\ \A l \in DOMAIN lines : lines[l].order # o => l \in DOMAIN lines' /\ lines'[l] = lines[l]
      /\ \A l \in DOMAIN lines' : lines'[l].order # o => l \in DOMAIN lines /\ lines'[l] = lines[l]
      /\ \A c \in DOMAIN cartons : cartons[c].order # o =>
            c \in DOMAIN cartons' /\ cartons'[c] = cartons[c]
      /\ \A c \in DOMAIN cartons' : cartons'[c].order # o =>
            c \in DOMAIN cartons /\ cartons'[c] = cartons[c]
  BY DEF OrderStep, SameElsewhere
<1>2. /\ \A q \in Order \ {o} : dispatch'[q] = dispatch[q] /\ orders'[q] = orders[q]
      /\ orders' \in [Order -> {NoOrder} \cup [factory: Factory, dests: SUBSET Dest]]
      /\ dispatch' \in [Order -> {"none", "DRAFT", "READY_FOR_ERVE"}]
      /\ inspecting' \in [Inspector -> [carton: 0 .. MaxCarton, version: 0 .. MaxVersion]]
      /\ DOMAIN lines' \subseteq LineId /\ DOMAIN cartons' \subseteq CartonId
      /\ orders'[o] # NoOrder
  BY DEF OrderStep
<1>3. \A l \in DOMAIN lines' : lines'[l].order = o =>
         /\ IsLine(lines'[l])
         /\ RowsGood(orders'[o].factory, lines'[l], PhysicalPacked(cartons', l))
         /\ Reserved(lines'[l]) \in {0, lines'[l].quantity}
  BY DEF OrderStep, LinesOf
<1>4. \A c \in DOMAIN cartons' : cartons'[c].order = o => CartonGood(c)'
  BY DEF OrderStep, CartonsOf
<1>5. \A l : OfOther(l) => PhysicalPacked(cartons', l) = PhysicalPacked(cartons, l)
  BY PackedElsewhere DEF OrderStep
<1>6. \A l \in DOMAIN lines' :
         /\ IsLine(lines'[l])
         /\ RowsGood(orders'[lines'[l].order].factory, lines'[l], PhysicalPacked(cartons', l))
         /\ Reserved(lines'[l]) \in {0, lines'[l].quantity}
  <2> SUFFICES ASSUME NEW l \in DOMAIN lines'
               PROVE  /\ IsLine(lines'[l])
                      /\ RowsGood(orders'[lines'[l].order].factory, lines'[l],
                                  PhysicalPacked(cartons', l))
                      /\ Reserved(lines'[l]) \in {0, lines'[l].quantity}
    OBVIOUS
  <2>1. CASE lines'[l].order = o
    BY <1>3, <2>1
  <2>2. CASE lines'[l].order # o
    <3>1. l \in DOMAIN lines /\ lines'[l] = lines[l] /\ OfOther(l)
      BY <1>1, <2>2
    <3>2. PhysicalPacked(cartons', l) = PhysicalPacked(cartons, l)
      BY <1>5, <3>1
    <3>3. orders'[lines[l].order] = orders[lines[l].order]
      BY <1>2, <2>2, <3>1, Facts
    <3> QED
      BY <3>1, <3>2, <3>3, Facts
  <2> QED
    BY <2>1, <2>2
<1>7. \A c \in DOMAIN cartons' : CartonGood(c)'
  <2> SUFFICES ASSUME NEW c \in DOMAIN cartons' PROVE CartonGood(c)'
    OBVIOUS
  <2>1. CASE cartons'[c].order = o
    BY <1>4, <2>1
  <2>2. CASE cartons'[c].order # o
    <3>1. c \in DOMAIN cartons /\ cartons'[c] = cartons[c] /\ IsCarton(cartons[c])
      BY <1>1, <2>2, Facts
    <3>2. \A l \in DOMAIN cartons[c].contents :
             /\ l \in DOMAIN lines /\ lines[l].order = cartons[c].order
             /\ l \in DOMAIN lines' /\ lines'[l] = lines[l]
      BY <1>1, <2>2, <3>1, Facts
    <3>3. IsCarton(cartons[c])'
      BY <3>1, <3>2 DEF IsCarton
    <3>4. Mismatched(c)' <=> Mismatched(c)
      BY <3>1, <3>2 DEF Mismatched
    <3>5. ~ cartons[c].retired /\ cartons[c].audited = cartons[c].version => ~ Mismatched(c)
      BY <3>1 DEF IInv, AuditedCartonMatches
    <3> QED
      BY <3>1, <3>2, <3>3, <3>4, <3>5 DEF CartonGood
  <2> QED
    BY <2>1, <2>2
<1>8. TypeOK'
  <2>1. releases' \in Seq(QaReleaseLine)
    BY <1>1, Facts
  <2>2. \A l \in DOMAIN lines' : IsLine(lines[l])'
    BY <1>1, <1>6 DEF IsLine, Release
  <2>3. \A c \in DOMAIN cartons' : IsCarton(cartons[c])'
    BY <1>7 DEF CartonGood
  <2> QED
    BY <1>2, <2>1, <2>2, <2>3 DEF TypeOK, QaReleaseLine
<1>9. LinesGood'
  <2> SUFFICES ASSUME NEW l \in DOMAIN lines'
               PROVE  /\ RowsGood(orders[lines[l].order].factory, lines[l],
                                  PhysicalPacked(cartons, l))'
                      /\ (Reserved(lines[l]) \in {0, lines[l].quantity})'
    BY DEF LinesGood
  <2>1. /\ RowsGood(orders'[lines'[l].order].factory, lines'[l], PhysicalPacked(cartons', l))
        /\ Reserved(lines'[l]) \in {0, lines'[l].quantity}
    BY <1>6
  <2>2. RowsGood(orders[lines[l].order].factory, lines[l], PhysicalPacked(cartons, l))'
    BY <1>1, <2>1 DEF RowsGood, PoolOf, Release
  <2> QED
    BY <2>1, <2>2
<1>10. NothingWithoutOrder'
  <2> SUFFICES ASSUME NEW q \in Order, orders'[q] = NoOrder
               PROVE  /\ LinesOf(lines', q) = {} /\ CartonsOf(cartons', q) = {}
                      /\ dispatch'[q] = "none"
    BY DEF NothingWithoutOrder, NoOrder
  <2>1. q # o /\ orders[q] = NoOrder /\ dispatch'[q] = dispatch[q]
    BY <1>2
  <2>2. /\ LinesOf(lines, q) = {} /\ CartonsOf(cartons, q) = {} /\ dispatch[q] = "none"
    BY <2>1 DEF IInv, NothingWithoutOrder
  <2>3. LinesOf(lines', q) = {}
    BY <1>1, <2>1, <2>2 DEF LinesOf
  <2>4. CartonsOf(cartons', q) = {}
    BY <1>1, <2>1, <2>2 DEF CartonsOf
  <2> QED
    BY <2>1, <2>2, <2>3, <2>4
<1>11. ContentsOfOrder' /\ AuditedCartonMatches'
  BY <1>7 DEF ContentsOfOrder, AuditedCartonMatches, CartonGood
<1>12. OneLinePerGrain'
  <2> SUFFICES ASSUME NEW k \in DOMAIN lines', NEW l \in DOMAIN lines',
                      lines'[k].order = lines'[l].order, SameGrain(lines'[k], lines'[l])
               PROVE  k = l
    BY DEF OneLinePerGrain
  <2>1. CASE lines'[k].order = o
    BY <2>1 DEF OrderStep, LinesOf
  <2>2. CASE lines'[k].order # o
    <3>1. /\ k \in DOMAIN lines /\ lines'[k] = lines[k]
          /\ l \in DOMAIN lines /\ lines'[l] = lines[l]
      BY <1>1, <2>2
    <3> QED
      BY <3>1 DEF IInv, OneLinePerGrain
  <2> QED
    BY <2>1, <2>2
<1>13. ReadyIsComplete'
  <2>1. SUFFICES ASSUME NEW q \in Order, Locked(q)' PROVE Complete(q)'
    BY DEF ReadyIsComplete, Complete
  <2>2. CASE q = o
    BY <2>1, <2>2 DEF OrderStep
  <2>3. CASE q # o
    <3>1. Complete(q)
      <4>1. Locked(q)
        BY <1>2, <2>1, <2>3 DEF Locked
      <4> QED
        BY <4>1 DEF IInv, ReadyIsComplete, Complete
    <3>2. LinesOf(lines', q) = LinesOf(lines, q)
      BY <1>1, <2>3 DEF LinesOf
    <3>3. CartonsOf(cartons', q) = CartonsOf(cartons, q)
      BY <1>1, <2>3 DEF CartonsOf
    <3>4. \A l \in LinesOf(lines, q) :
             /\ lines'[l] = lines[l]
             /\ PhysicalPacked(cartons', l) = PhysicalPacked(cartons, l)
      BY <1>1, <1>5, <2>3 DEF LinesOf
    <3>5. \A c \in CartonsOf(cartons, q) : cartons'[c] = cartons[c]
      BY <1>1, <2>3 DEF CartonsOf
    <3>6. \A c \in CartonsOf(cartons, q) : Mismatched(c)' <=> Mismatched(c)
      <4> SUFFICES ASSUME NEW c \in CartonsOf(cartons, q)
                   PROVE  Mismatched(c)' <=> Mismatched(c)
        OBVIOUS
      <4>1. c \in DOMAIN cartons /\ cartons[c].order = q
        BY DEF CartonsOf
      <4>2. \A l \in DOMAIN cartons[c].contents : l \in DOMAIN lines /\ lines[l].order = q
        BY <4>1, Facts
      <4>3. \A l \in DOMAIN cartons[c].contents : lines'[l] = lines[l]
        BY <1>1, <2>3, <4>2
      <4> QED
        BY <3>5, <4>3 DEF Mismatched
    <3> QED
      BY <3>1, <3>2, <3>3, <3>4, <3>5, <3>6 DEF Complete
  <2> QED
    BY <2>2, <2>3
<1>14. ScreensOpen'
  BY DEF OrderStep
<1> QED
  BY <1>8, <1>9, <1>10, <1>11, <1>12, <1>13, <1>14 DEF IInv

-----------------------------------------------------------------------------
(* Packing and inspecting *)

LEMMA PackedShrinks ==
    ASSUME NEW B, Countable(B), NEW C, Countable(C), NEW l, DOMAIN C \subseteq DOMAIN B,
           \A c \in DOMAIN C : InCarton(C[c], l) <= InCarton(B[c], l)
    PROVE  PhysicalPacked(C, l) <= PhysicalPacked(B, l)
<1>1. PICK f, g, h, V, U : /\ f = [c \in DOMAIN B |-> InCarton(B[c], l)]
                           /\ g = [c \in DOMAIN C |-> InCarton(C[c], l)]
                           /\ h = [c \in DOMAIN B |-> IF c \in DOMAIN C
                                                      THEN InCarton(C[c], l) ELSE 0]
                           /\ V = DOMAIN C /\ U = DOMAIN B
  OBVIOUS
<1>2. IsFiniteSet(U) /\ V \in SUBSET U
  BY <1>1 DEF Countable
<1>3. /\ \A c \in U : InCarton(B[c], l) \in Nat
      /\ \A c \in V : InCarton(C[c], l) \in Nat
  BY <1>1, PackedTyped
<1>4. /\ \A c \in V : g[c] \in Int /\ h[c] = g[c]
      /\ \A c \in U \ V : h[c] = 0
  BY <1>1, <1>3
<1>5. Sum(h, U) = Sum(g, V)
  BY ONLY <1>2, <1>4, SumWhere
<1>6. \A c \in U : h[c] \in Int /\ f[c] \in Int /\ h[c] <= f[c]
  BY <1>1, <1>3
<1>7. Sum(h, U) <= Sum(f, U)
  BY ONLY <1>2, <1>6, SumMonotone
<1> QED
  BY <1>1, <1>5, <1>7 DEF PhysicalPacked

LEMMA ContentsTyped ==
    ASSUME IInv, NEW o, NEW d, NEW contents \in Contents(o, d)
    PROVE  \A l \in DOMAIN contents :
              /\ l \in DOMAIN lines /\ lines[l].order = o /\ lines[l].dest = d
              /\ contents[l] \in Nat \ {0}
<1> DEFINE own == {l \in LinesOf(lines, o) : lines[l].dest = d}
<1>1. PICK S \in (SUBSET own) \ {{}} :
         contents \in [S -> 1 .. Max({lines[l].quantity : l \in S})]
  BY DEF Contents
<1>2. PICK m, Q : Q = {lines[l].quantity : l \in S} /\ m = Max(Q)
  OBVIOUS
<1>3. \A l \in S : l \in DOMAIN lines /\ lines[l].order = o /\ lines[l].dest = d
  BY <1>1 DEF LinesOf
<1>4. Q \subseteq Nat /\ Q # {}
  <2>1. S # {} /\ \A l \in S : lines[l].quantity \in Nat
    BY <1>1, <1>3, Facts DEF IsLine
  <2> QED
    BY <1>2, <2>1
<1>5. IsFiniteSet(Q)
  <2>1. IsFiniteSet(S)
    BY <1>3, Facts, FS_Subset
  <2>2. PICK g : g = [l \in S |-> lines[l].quantity]
    OBVIOUS
  <2>3. \A q \in Q : \E l \in S : q = g[l]
    BY <1>2, <2>2
  <2> QED
    BY ONLY <2>1, <2>3, FiniteImage
<1>6. m \in Nat
  BY <1>2, <1>4, <1>5, MaxOfFinite
<1>7. DOMAIN contents = S /\ \A l \in S : contents[l] \in 1 .. m
  BY <1>1, <1>2
<1> QED
  BY <1>3, <1>6, <1>7

\* Reconciling lines of an order attributes what the cartons C hold of them.
LEMMA ReconcileGood ==
    ASSUME IInv, NEW o \in Order, NEW C, Countable(C), NEW ls, NEW N,
           N = [l \in DOMAIN lines |->
                  IF l \in ls THEN Attribute(lines[l], PhysicalPacked(C, l)) ELSE lines[l]],
           \A l \in ls : /\ l \in DOMAIN lines /\ lines[l].order = o
                         /\ PhysicalPacked(C, l) <= Reserved(lines[l]),
           \A l \in LinesOf(lines, o) \ ls : PhysicalPacked(C, l) = PhysicalPacked(cartons, l)
    PROVE  /\ DOMAIN N = DOMAIN lines
           /\ \A l \in DOMAIN lines :
                 /\ lines[l].order # o => N[l] = lines[l]
                 /\ N[l].order = lines[l].order /\ N[l].dest = lines[l].dest
                 /\ N[l].item = lines[l].item
                 /\ IsLine(N[l]) /\ Reserved(N[l]) \in {0, N[l].quantity}
                 /\ \A r \in Release : Held(N[l], r) = Held(lines[l], r)
                 /\ lines[l].order = o =>
                       RowsGood(orders[o].factory, N[l], PhysicalPacked(C, l))
<1>1. DOMAIN N = DOMAIN lines
  OBVIOUS
<1>2. ASSUME NEW l \in DOMAIN lines
      PROVE  /\ lines[l].order # o => N[l] = lines[l]
             /\ N[l].order = lines[l].order /\ N[l].dest = lines[l].dest
             /\ N[l].item = lines[l].item
             /\ IsLine(N[l]) /\ Reserved(N[l]) \in {0, N[l].quantity}
             /\ \A r \in Release : Held(N[l], r) = Held(lines[l], r)
             /\ lines[l].order = o => RowsGood(orders[o].factory, N[l], PhysicalPacked(C, l))
  <2>1. CASE l \in ls
    <3>1. PICK p, line, old, f : /\ p = PhysicalPacked(C, l) /\ line = lines[l]
                                 /\ old = PhysicalPacked(cartons, l) /\ f = orders[o].factory
      OBVIOUS
    <3>2. p \in Nat /\ p <= Reserved(line) /\ lines[l].order = o
      BY <2>1, <3>1, PackedTyped
    <3>3. IsLine(line) /\ RowsGood(f, line, old) /\ Reserved(line) \in {0, line.quantity}
      BY <3>1, <3>2, Facts
    <3>4. N[l] = Attribute(line, p)
      BY <2>1, <3>1
    <3>5. releases \in Seq(QaReleaseLine)
      BY Facts
    <3>6. /\ IsLine(N[l]) /\ RowsGood(f, N[l], p) /\ Reserved(N[l]) = Reserved(line)
          /\ \A r \in Release : Held(N[l], r) = Held(line, r)
          /\ N[l].order = line.order /\ N[l].dest = line.dest
          /\ N[l].item = line.item /\ N[l].quantity = line.quantity
      BY ONLY <3>2, <3>3, <3>4, <3>5, AttributeGood
    <3> QED
      BY <3>1, <3>2, <3>3, <3>6
  <2>2. CASE l \notin ls
    <3>1. N[l] = lines[l]
      BY <2>2
    <3>2. lines[l].order = o => PhysicalPacked(C, l) = PhysicalPacked(cartons, l)
      BY <2>2 DEF LinesOf
    <3> QED
      BY <3>1, <3>2, Facts
  <2> QED
    BY <2>1, <2>2
<1> QED
  BY <1>1, <1>2

\* A carton nobody touched stays good while the lines keep their places.
LEMMA CartonStays ==
    ASSUME IInv, NEW c \in DOMAIN cartons, cartons'[c] = cartons[c],
           DOMAIN lines \subseteq DOMAIN lines',
           \A l \in DOMAIN lines : lines'[l].order = lines[l].order /\ lines'[l].dest = lines[l].dest
    PROVE  CartonGood(c)'
<1>1. \A l \in DOMAIN cartons[c].contents :
         /\ l \in DOMAIN lines /\ lines[l].order = cartons[c].order
         /\ l \in DOMAIN lines' /\ lines'[l].order = lines[l].order
         /\ lines'[l].dest = lines[l].dest
  BY Facts
<1>2. IsCarton(cartons[c])'
  <2>1. IsCarton(cartons[c])
    BY Facts
  <2> QED
    BY <1>1, <2>1 DEF IsCarton
<1>3. Mismatched(c)' <=> Mismatched(c)
  BY <1>1 DEF Mismatched
<1>4. ~ cartons[c].retired /\ cartons[c].audited = cartons[c].version => ~ Mismatched(c)
  BY DEF IInv, AuditedCartonMatches
<1> QED
  BY <1>1, <1>2, <1>3, <1>4 DEF CartonGood

\* Reconciled lines keep grains apart.
LEMMA ReconcileStep ==
    ASSUME IInv, NEW o \in Order, Countable(cartons'), NEW ls, Reconcile(cartons', ls),
           \A l \in ls : /\ l \in DOMAIN lines /\ lines[l].order = o
                         /\ PhysicalPacked(cartons', l) <= Reserved(lines[l]),
           \A l \in LinesOf(lines, o) \ ls :
              PhysicalPacked(cartons', l) = PhysicalPacked(cartons, l),
           orders' = orders
    PROVE  /\ DOMAIN lines' = DOMAIN lines
           /\ \A l \in DOMAIN lines :
                 /\ lines'[l].order = lines[l].order /\ lines'[l].dest = lines[l].dest
                 /\ \A r \in Release : Held(lines'[l], r) = Held(lines[l], r)
           /\ SameElsewhere(lines, lines', o)
           /\ \A l \in LinesOf(lines', o) :
                 /\ IsLine(lines'[l])
                 /\ RowsGood(orders'[o].factory, lines'[l], PhysicalPacked(cartons', l))
                 /\ Reserved(lines'[l]) \in {0, lines'[l].quantity}
           /\ \A k, l \in LinesOf(lines', o) : SameGrain(lines'[k], lines'[l]) => k = l
<1>1. PICK N, C : N = lines' /\ C = cartons'
  OBVIOUS
<1>2. N = [l \in DOMAIN lines |->
             IF l \in ls THEN Attribute(lines[l], PhysicalPacked(C, l)) ELSE lines[l]]
  BY <1>1 DEF Reconcile
<1>3. /\ Countable(C)
      /\ \A l \in ls : /\ l \in DOMAIN lines /\ lines[l].order = o
                       /\ PhysicalPacked(C, l) <= Reserved(lines[l])
      /\ \A l \in LinesOf(lines, o) \ ls : PhysicalPacked(C, l) = PhysicalPacked(cartons, l)
  BY <1>1
<1>4. /\ DOMAIN N = DOMAIN lines
      /\ \A l \in DOMAIN lines :
            /\ lines[l].order # o => N[l] = lines[l]
            /\ N[l].order = lines[l].order /\ N[l].dest = lines[l].dest
            /\ N[l].item = lines[l].item
            /\ IsLine(N[l]) /\ Reserved(N[l]) \in {0, N[l].quantity}
            /\ \A r \in Release : Held(N[l], r) = Held(lines[l], r)
            /\ lines[l].order = o => RowsGood(orders[o].factory, N[l], PhysicalPacked(C, l))
  BY ONLY IInv, o \in Order, <1>2, <1>3, ReconcileGood
<1>5. SameElsewhere(lines, lines', o)
  BY <1>1, <1>4 DEF SameElsewhere
<1>6. \A l \in LinesOf(lines', o) :
         /\ IsLine(lines'[l])
         /\ RowsGood(orders'[o].factory, lines'[l], PhysicalPacked(cartons', l))
         /\ Reserved(lines'[l]) \in {0, lines'[l].quantity}
  BY <1>1, <1>4 DEF LinesOf
<1>7. \A k, l \in LinesOf(lines', o) : SameGrain(lines'[k], lines'[l]) => k = l
  BY <1>1, <1>4 DEF LinesOf, IInv, OneLinePerGrain, SameGrain
<1> QED
  BY <1>1, <1>4, <1>5, <1>6, <1>7

\* No release line is committed further, unless a line gives pieces of it back.
CommitsNoMore ==
    \A r \in Release :
       Committed(lines', r) > Max({releases[r].quantity, Committed(lines, r)})
         => \E l \in DOMAIN lines :
               l \notin DOMAIN lines' \/ Held(lines'[l], r) < Held(lines[l], r)

LEMMA QuantityTyped ==
    ASSUME releases \in Seq(QaReleaseLine), NEW r \in Release
    PROVE  releases[r].quantity \in Nat
<1>1. releases[r] \in QaReleaseLine
  BY DEF Release
<1>2. releases[r].quantity \in ReleaseQty
  BY <1>1 DEF QaReleaseLine
<1>3. ReleaseQty \subseteq Nat \ {0}
  BY BoundsAssumption
<1>4. releases[r].quantity \in Nat \ {0}
  BY ONLY <1>2, <1>3
<1> QED
  BY <1>4

LEMMA CommitsTheSame ==
    ASSUME IInv, DOMAIN lines' = DOMAIN lines,
           \A l \in DOMAIN lines : \A r \in Release : Held(lines'[l], r) = Held(lines[l], r)
    PROVE  CommitsNoMore
<1> SUFFICES ASSUME NEW r \in Release
             PROVE  ~(Committed(lines', r) > Max({releases[r].quantity, Committed(lines, r)}))
  BY DEF CommitsNoMore
<1>1. [l \in DOMAIN lines' |-> Held(lines'[l], r)] = [l \in DOMAIN lines |-> Held(lines[l], r)]
  OBVIOUS
<1>2. Committed(lines', r) = Committed(lines, r)
  BY <1>1 DEF Committed
<1>3. PICK n, m : n = Committed(lines, r) /\ m = releases[r].quantity
  OBVIOUS
<1>4. n \in Nat /\ m \in Nat
  BY <1>3, Facts, CommittedTyped, QuantityTyped
<1>5. Max({m, n}) = IF m <= n THEN n ELSE m
  BY ONLY <1>4, MaxOfPair
<1> QED
  BY <1>2, <1>3, <1>4, <1>5

LEMMA AddStep ==
    ASSUME IInv, NEW o \in Order, NEW d \in orders[o].dests, NEW weighed \in BOOLEAN,
           NEW contents \in Contents(o, d), AddFactoryPackingCarton(o, d, contents, weighed)
    PROVE  OrderStep(o) /\ CommitsNoMore
<1>1. PICK c \in CartonId :
        LET new == [order |-> o, dest |-> d, contents |-> contents,
                    weighed |-> weighed, version |-> 1, audited |-> 0, retired |-> FALSE]
            C   == [x \in DOMAIN cartons \cup {c} |-> IF x = c THEN new ELSE cartons[x]]
        IN  /\ orders[o] # NoOrder /\ d \in orders[o].dests
            /\ ~ Locked(o)
            /\ c \notin DOMAIN cartons /\ 1 .. c - 1 \subseteq DOMAIN cartons
            /\ WithinOrder(C, DOMAIN contents)
            /\ Attributable(C, DOMAIN contents)
            /\ dispatch' = [dispatch EXCEPT ![o] = "DRAFT"]
            /\ cartons' = C
            /\ Reconcile(C, DOMAIN contents)
            /\ UNCHANGED <<releases, orders, inspecting>>
  BY DEF AddFactoryPackingCarton
<1>2. PICK new : new = [order |-> o, dest |-> d, contents |-> contents,
                        weighed |-> weighed, version |-> 1, audited |-> 0, retired |-> FALSE]
  OBVIOUS
<1>3. /\ orders[o] # NoOrder /\ c \notin DOMAIN cartons
      /\ dispatch' = [dispatch EXCEPT ![o] = "DRAFT"]
      /\ cartons' = [x \in DOMAIN cartons \cup {c} |-> IF x = c THEN new ELSE cartons[x]]
      /\ Attributable(cartons', DOMAIN contents) /\ Reconcile(cartons', DOMAIN contents)
      /\ releases' = releases /\ orders' = orders /\ inspecting' = inspecting
  BY <1>1, <1>2
<1>4. /\ DOMAIN cartons' = DOMAIN cartons \cup {c}
      /\ cartons'[c] = new /\ \A x \in DOMAIN cartons : cartons'[x] = cartons[x]
  BY <1>3
<1>5. \A l \in DOMAIN contents :
         /\ l \in DOMAIN lines /\ lines[l].order = o /\ lines[l].dest = d
         /\ contents[l] \in Nat \ {0}
  BY ContentsTyped
<1>6. /\ DOMAIN new = {"order", "dest", "contents", "weighed", "version", "audited", "retired"}
      /\ new.order = o /\ new.dest = d /\ new.contents = contents /\ new.weighed = weighed
      /\ new.version = 1 /\ new.audited = 0 /\ new.retired = FALSE
  BY <1>2
<1>7. Countable(cartons')
  <2>1. IsFiniteSet(DOMAIN cartons')
    BY <1>4, Facts, FS_AddElement DEF Countable
  <2>2. \A x \in DOMAIN cartons' : \A l \in DOMAIN cartons'[x].contents :
           cartons'[x].contents[l] \in Nat
    BY <1>4, <1>5, <1>6, Facts DEF Countable
  <2> QED
    BY <2>1, <2>2 DEF Countable
<1>8. \A l \in LinesOf(lines, o) \ DOMAIN contents :
         PhysicalPacked(cartons', l) = PhysicalPacked(cartons, l)
  <2> SUFFICES ASSUME NEW l \in LinesOf(lines, o) \ DOMAIN contents
               PROVE  PhysicalPacked(cartons', l) = PhysicalPacked(cartons, l)
    OBVIOUS
  <2>1. PICK B, C : B = cartons /\ C = cartons'
    OBVIOUS
  <2>2. /\ \A x \in DOMAIN B \cap DOMAIN C : InCarton(B[x], l) = InCarton(C[x], l)
        /\ \A x \in DOMAIN B \ DOMAIN C : InCarton(B[x], l) = 0
        /\ \A x \in DOMAIN C \ DOMAIN B : InCarton(C[x], l) = 0
    BY <1>3, <1>4, <1>6, <2>1 DEF InCarton
  <2>3. Countable(B) /\ Countable(C)
    BY <1>7, <2>1, Facts
  <2>4. PhysicalPacked(B, l) = PhysicalPacked(C, l)
    BY ONLY <2>2, <2>3, SamePacked
  <2> QED
    BY <2>1, <2>4
<1>9. \A l \in DOMAIN contents : PhysicalPacked(cartons', l) <= Reserved(lines[l])
  BY <1>3 DEF Attributable
<1>10. /\ DOMAIN lines' = DOMAIN lines
       /\ \A l \in DOMAIN lines :
             /\ lines'[l].order = lines[l].order /\ lines'[l].dest = lines[l].dest
             /\ \A r \in Release : Held(lines'[l], r) = Held(lines[l], r)
       /\ SameElsewhere(lines, lines', o)
       /\ \A l \in LinesOf(lines', o) :
             /\ IsLine(lines'[l])
             /\ RowsGood(orders'[o].factory, lines'[l], PhysicalPacked(cartons', l))
             /\ Reserved(lines'[l]) \in {0, lines'[l].quantity}
       /\ \A k, l \in LinesOf(lines', o) : SameGrain(lines'[k], lines'[l]) => k = l
  BY <1>3, <1>5, <1>7, <1>8, <1>9, ReconcileStep
<1>11. SameElsewhere(cartons, cartons', o)
  BY <1>3, <1>4, <1>6 DEF SameElsewhere
<1>12. CartonGood(c)'
  <2>1. d \in Dest
    BY <1>3, Facts
  <2>2. 1 \in 1 .. MaxVersion
    BY BoundsAssumption
  <2>3. new.weighed \in BOOLEAN /\ new.retired \in BOOLEAN
    BY <1>6, Zenon
  <2>4. /\ new.version \in 1 .. MaxVersion /\ new.audited \in 0 .. new.version
        /\ new.order \in Order /\ new.dest \in Dest
        /\ DOMAIN new.contents \subseteq DOMAIN lines'
        /\ \A l \in DOMAIN new.contents : new.contents[l] \in Nat \ {0}
    BY <1>5, <1>6, <1>10, <2>1, <2>2
  <2>5. IsCarton(cartons[c])'
    BY <1>4, <1>6, <2>3, <2>4 DEF IsCarton
  <2> QED
    BY <1>4, <1>5, <1>6, <1>10, <2>5 DEF CartonGood
<1>13. \A x \in CartonsOf(cartons', o) : CartonGood(x)'
  BY <1>4, <1>10, <1>12, CartonStays DEF CartonsOf
<1>14. dispatch' \in [Order -> {"none", "DRAFT", "READY_FOR_ERVE"}] /\ dispatch'[o] = "DRAFT"
       /\ \A q \in Order \ {o} : dispatch'[q] = dispatch[q]
  BY <1>3, Facts
<1>15. ScreensOpen'
  BY <1>3, <1>4 DEF IInv, ScreensOpen, NoScreen
<1>16. OrderStep(o)
  <2>1. ~ Locked(o)'
    BY <1>14 DEF Locked
  <2>2. DOMAIN lines' \subseteq LineId /\ DOMAIN cartons' \subseteq CartonId
    BY <1>4, <1>10, Facts
  <2>3. /\ orders' \in [Order -> {NoOrder} \cup [factory: Factory, dests: SUBSET Dest]]
        /\ inspecting' \in [Inspector -> [carton: 0 .. MaxCarton, version: 0 .. MaxVersion]]
        /\ orders'[o] # NoOrder /\ \A q \in Order \ {o} : orders'[q] = orders[q]
    BY <1>3, Facts
  <2> QED
    BY <1>3, <1>10, <1>11, <1>13, <1>14, <1>15, <2>1, <2>2, <2>3 DEF OrderStep
<1> QED
  BY <1>10, <1>16, CommitsTheSame

LEMMA UpdateStep ==
    ASSUME IInv, NEW c \in DOMAIN cartons, NEW d \in orders[cartons[c].order].dests,
           NEW weighed \in BOOLEAN, NEW contents \in Contents(cartons[c].order, d),
           UpdateFactoryPackingCarton(c, d, contents, weighed)
    PROVE  OrderStep(cartons[c].order) /\ CommitsNoMore
<1>1. PICK old, o, ls : old = cartons[c] /\ o = old.order
                        /\ ls = DOMAIN old.contents \cup DOMAIN contents
  OBVIOUS
<1>2. PICK new : new = [old EXCEPT !.dest = d, !.contents = contents,
                                   !.weighed = weighed, !.version = @ + 1]
  OBVIOUS
<1>3. /\ dispatch[o] = "DRAFT" /\ old.version < MaxVersion
      /\ cartons' = [cartons EXCEPT ![c].dest = d, ![c].contents = contents,
                                    ![c].weighed = weighed, ![c].version = @ + 1]
      /\ Attributable(cartons', ls) /\ Reconcile(cartons', ls)
      /\ releases' = releases /\ orders' = orders /\ dispatch' = dispatch
      /\ inspecting' = inspecting
  BY <1>1 DEF UpdateFactoryPackingCarton
<1>4. /\ DOMAIN cartons' = DOMAIN cartons
      /\ cartons'[c] = new /\ \A x \in DOMAIN cartons \ {c} : cartons'[x] = cartons[x]
  BY <1>1, <1>2, <1>3
<1>5. /\ IsCarton(old) /\ o \in Order
      /\ \A l \in DOMAIN old.contents : l \in DOMAIN lines /\ lines[l].order = o
  BY <1>1, Facts
<1>6. \A l \in DOMAIN contents :
         /\ l \in DOMAIN lines /\ lines[l].order = o /\ lines[l].dest = d
         /\ contents[l] \in Nat \ {0}
  BY <1>1, ContentsTyped
<1>7. /\ DOMAIN new = {"order", "dest", "contents", "weighed", "version", "audited", "retired"}
      /\ new.order = o /\ new.dest = d /\ new.contents = contents /\ new.weighed = weighed
      /\ new.version = old.version + 1 /\ new.audited = old.audited
      /\ new.retired = old.retired
  BY <1>1, <1>2, <1>5 DEF IsCarton
<1>8. Countable(cartons')
  <2>1. IsFiniteSet(DOMAIN cartons')
    BY <1>4, Facts DEF Countable
  <2>2. \A x \in DOMAIN cartons' : \A l \in DOMAIN cartons'[x].contents :
           cartons'[x].contents[l] \in Nat
    BY <1>4, <1>6, <1>7, Facts DEF Countable
  <2> QED
    BY <2>1, <2>2 DEF Countable
<1>9. \A l \in LinesOf(lines, o) \ ls : PhysicalPacked(cartons', l) = PhysicalPacked(cartons, l)
  <2> SUFFICES ASSUME NEW l \in LinesOf(lines, o) \ ls
               PROVE  PhysicalPacked(cartons', l) = PhysicalPacked(cartons, l)
    OBVIOUS
  <2>1. PICK B, C : B = cartons /\ C = cartons'
    OBVIOUS
  <2>2. \A x \in DOMAIN cartons : InCarton(cartons[x], l) = InCarton(cartons'[x], l)
    <3>1. l \notin DOMAIN cartons[c].contents /\ l \notin DOMAIN cartons'[c].contents
      BY <1>1, <1>4, <1>7
    <3>2. InCarton(cartons[c], l) = 0 /\ InCarton(cartons'[c], l) = 0
      BY <3>1 DEF InCarton
    <3> QED
      BY <1>4, <3>2
  <2>3. /\ \A x \in DOMAIN B \cap DOMAIN C : InCarton(B[x], l) = InCarton(C[x], l)
        /\ \A x \in DOMAIN B \ DOMAIN C : InCarton(B[x], l) = 0
        /\ \A x \in DOMAIN C \ DOMAIN B : InCarton(C[x], l) = 0
    BY <1>4, <2>1, <2>2
  <2>4. Countable(B) /\ Countable(C)
    BY <1>8, <2>1, Facts
  <2>5. PhysicalPacked(B, l) = PhysicalPacked(C, l)
    BY ONLY <2>3, <2>4, SamePacked
  <2> QED
    BY <2>1, <2>5
<1>10. \A l \in ls : /\ l \in DOMAIN lines /\ lines[l].order = o
                     /\ PhysicalPacked(cartons', l) <= Reserved(lines[l])
  BY <1>1, <1>3, <1>5, <1>6 DEF Attributable
<1>11. /\ DOMAIN lines' = DOMAIN lines
       /\ \A l \in DOMAIN lines :
             /\ lines'[l].order = lines[l].order /\ lines'[l].dest = lines[l].dest
             /\ \A r \in Release : Held(lines'[l], r) = Held(lines[l], r)
       /\ SameElsewhere(lines, lines', o)
       /\ \A l \in LinesOf(lines', o) :
             /\ IsLine(lines'[l])
             /\ RowsGood(orders'[o].factory, lines'[l], PhysicalPacked(cartons', l))
             /\ Reserved(lines'[l]) \in {0, lines'[l].quantity}
       /\ \A k, l \in LinesOf(lines', o) : SameGrain(lines'[k], lines'[l]) => k = l
  BY <1>3, <1>5, <1>8, <1>9, <1>10, ReconcileStep
<1>12. SameElsewhere(cartons, cartons', o)
  BY <1>1, <1>4, <1>7 DEF SameElsewhere
<1>13. orders[o] # NoOrder
  <2>1. dispatch[o] # "none"
    BY <1>3
  <2> QED
    BY <1>5, <2>1 DEF IInv, NothingWithoutOrder
<1>14. CartonGood(c)'
  <2>1. d \in Dest
    BY <1>1, <1>5, <1>13, Facts
  <2>2. new.weighed \in BOOLEAN /\ new.retired \in BOOLEAN
    <3>1. old.retired \in BOOLEAN
      BY <1>5 DEF IsCarton
    <3> QED
      BY <1>7, <3>1, Zenon
  <2>3. old.version \in 1 .. MaxVersion /\ old.audited \in 0 .. old.version /\ MaxVersion \in Nat
    BY <1>5, Facts DEF IsCarton
  <2>4. /\ new.version \in 1 .. MaxVersion /\ new.audited \in 0 .. new.version
        /\ new.audited # new.version
    BY <1>3, <1>7, <2>3
  <2>5. /\ new.order \in Order /\ new.dest \in Dest
        /\ DOMAIN new.contents \subseteq DOMAIN lines'
        /\ \A l \in DOMAIN new.contents :
              new.contents[l] \in Nat \ {0} /\ lines'[l].order = new.order
    BY <1>5, <1>6, <1>7, <1>11, <2>1
  <2>6. IsCarton(cartons[c])'
    BY <1>4, <1>7, <2>2, <2>4, <2>5 DEF IsCarton
  <2> QED
    BY <1>4, <2>4, <2>5, <2>6 DEF CartonGood
<1>15. \A x \in CartonsOf(cartons', o) : CartonGood(x)'
  BY <1>4, <1>11, <1>14, CartonStays DEF CartonsOf
<1>16. ScreensOpen'
  BY <1>3, <1>4 DEF IInv, ScreensOpen, NoScreen
<1>17. OrderStep(o)
  <2>1. ~ Locked(o)'
    BY <1>3 DEF Locked
  <2>2. DOMAIN lines' \subseteq LineId /\ DOMAIN cartons' \subseteq CartonId
    BY <1>4, <1>11, Facts
  <2>3. /\ orders' \in [Order -> {NoOrder} \cup [factory: Factory, dests: SUBSET Dest]]
        /\ dispatch' \in [Order -> {"none", "DRAFT", "READY_FOR_ERVE"}]
        /\ inspecting' \in [Inspector -> [carton: 0 .. MaxCarton, version: 0 .. MaxVersion]]
        /\ orders'[o] # NoOrder
        /\ \A q \in Order \ {o} : dispatch'[q] = dispatch[q] /\ orders'[q] = orders[q]
    BY <1>3, <1>13, Facts
  <2> QED
    BY <1>3, <1>11, <1>12, <1>15, <1>16, <2>1, <2>2, <2>3 DEF OrderStep
<1> QED
  BY <1>1, <1>11, <1>17, CommitsTheSame

LEMMA RemoveStep ==
    ASSUME IInv, NEW c \in DOMAIN cartons, RemoveFactoryPackingCarton(c)
    PROVE  OrderStep(cartons[c].order) /\ CommitsNoMore
<1>1. PICK old, o, ls : old = cartons[c] /\ o = old.order /\ ls = DOMAIN old.contents
  OBVIOUS
<1>2. /\ dispatch[o] = "DRAFT"
      /\ cartons' = IF old.audited > 0
                    THEN [cartons EXCEPT ![c].retired = TRUE]
                    ELSE [x \in DOMAIN cartons \ {c} |-> cartons[x]]
      /\ Reconcile(cartons', ls)
      /\ inspecting' = [i \in Inspector |->
                          IF inspecting[i].carton = c /\ c \notin DOMAIN cartons'
                          THEN NoScreen ELSE inspecting[i]]
      /\ releases' = releases /\ orders' = orders /\ dispatch' = dispatch
  BY <1>1 DEF RemoveFactoryPackingCarton
<1>3. /\ IsCarton(old) /\ o \in Order
      /\ \A l \in DOMAIN old.contents : l \in DOMAIN lines /\ lines[l].order = o
  BY <1>1, Facts
<1>4. PICK new : new = [old EXCEPT !.retired = TRUE]
  OBVIOUS
<1>5. /\ DOMAIN cartons' \subseteq DOMAIN cartons /\ DOMAIN cartons \ {c} \subseteq DOMAIN cartons'
      /\ c \in DOMAIN cartons' => cartons'[c] = new
      /\ \A x \in DOMAIN cartons \ {c} : cartons'[x] = cartons[x]
  BY <1>1, <1>2, <1>4
<1>6. /\ DOMAIN new = {"order", "dest", "contents", "weighed", "version", "audited", "retired"}
      /\ new.order = o /\ new.dest = old.dest /\ new.contents = old.contents
      /\ new.version = old.version /\ new.audited = old.audited /\ new.retired = TRUE
  BY <1>1, <1>3, <1>4 DEF IsCarton
<1>7. Countable(cartons')
  <2>1. IsFiniteSet(DOMAIN cartons')
    BY <1>5, Facts, FS_Subset DEF Countable
  <2>2. \A x \in DOMAIN cartons' : cartons'[x].contents = cartons[x].contents
    BY <1>1, <1>5, <1>6
  <2>3. \A x \in DOMAIN cartons' : \A l \in DOMAIN cartons'[x].contents :
           cartons'[x].contents[l] \in Nat
    BY <1>5, <2>2, Facts DEF Countable
  <2> QED
    BY <2>1, <2>3 DEF Countable
<1>8. \A l : c \in DOMAIN cartons' => InCarton(cartons'[c], l) = 0
  BY <1>5, <1>6 DEF InCarton
<1>9. \A l \in LinesOf(lines, o) \ ls : PhysicalPacked(cartons', l) = PhysicalPacked(cartons, l)
  <2> SUFFICES ASSUME NEW l \in LinesOf(lines, o) \ ls
               PROVE  PhysicalPacked(cartons', l) = PhysicalPacked(cartons, l)
    OBVIOUS
  <2>1. PICK B, C : B = cartons /\ C = cartons'
    OBVIOUS
  <2>2. InCarton(cartons[c], l) = 0
    BY <1>1 DEF InCarton
  <2>3. /\ \A x \in DOMAIN B \cap DOMAIN C : InCarton(B[x], l) = InCarton(C[x], l)
        /\ \A x \in DOMAIN B \ DOMAIN C : InCarton(B[x], l) = 0
        /\ \A x \in DOMAIN C \ DOMAIN B : InCarton(C[x], l) = 0
    BY <1>5, <1>8, <2>1, <2>2
  <2>4. Countable(B) /\ Countable(C)
    BY <1>7, <2>1, Facts
  <2>5. PhysicalPacked(B, l) = PhysicalPacked(C, l)
    BY ONLY <2>3, <2>4, SamePacked
  <2> QED
    BY <2>1, <2>5
<1>10. \A l \in ls : /\ l \in DOMAIN lines /\ lines[l].order = o
                     /\ PhysicalPacked(cartons', l) <= Reserved(lines[l])
  <2> SUFFICES ASSUME NEW l \in ls
               PROVE  /\ l \in DOMAIN lines /\ lines[l].order = o
                      /\ PhysicalPacked(cartons', l) <= Reserved(lines[l])
    OBVIOUS
  <2>1. l \in DOMAIN lines /\ lines[l].order = o
    BY <1>1, <1>3
  <2>2. PICK B, C : B = cartons /\ C = cartons'
    OBVIOUS
  <2>3. \A x \in DOMAIN C : InCarton(C[x], l) <= InCarton(B[x], l)
    <3>1. \A x \in DOMAIN B : InCarton(B[x], l) \in Nat
      BY <2>2, Facts, PackedTyped
    <3> QED
      BY <1>5, <1>8, <2>2, <3>1
  <2>4. Countable(B) /\ Countable(C) /\ DOMAIN C \subseteq DOMAIN B
    BY <1>5, <1>7, <2>2, Facts
  <2>5. PhysicalPacked(C, l) <= PhysicalPacked(B, l)
    BY ONLY <2>3, <2>4, PackedShrinks
  <2>6. PhysicalPacked(C, l) \in Nat
    BY <2>4, PackedTyped
  <2>7. PICK line, f, p : /\ line = lines[l] /\ f = orders[lines[l].order].factory
                          /\ p = PhysicalPacked(B, l)
    OBVIOUS
  <2>8. releases \in Seq(QaReleaseLine) /\ IsLine(line) /\ RowsGood(f, line, p)
    BY <2>1, <2>2, <2>7, Facts
  <2>9. p \in Nat /\ p <= Reserved(line) /\ Reserved(line) \in Nat
    BY ONLY <2>8, AttributedIsReserved, LineTyped
  <2> QED
    BY <2>1, <2>2, <2>5, <2>6, <2>7, <2>9
<1>11. /\ DOMAIN lines' = DOMAIN lines
       /\ \A l \in DOMAIN lines :
             /\ lines'[l].order = lines[l].order /\ lines'[l].dest = lines[l].dest
             /\ \A r \in Release : Held(lines'[l], r) = Held(lines[l], r)
       /\ SameElsewhere(lines, lines', o)
       /\ \A l \in LinesOf(lines', o) :
             /\ IsLine(lines'[l])
             /\ RowsGood(orders'[o].factory, lines'[l], PhysicalPacked(cartons', l))
             /\ Reserved(lines'[l]) \in {0, lines'[l].quantity}
       /\ \A k, l \in LinesOf(lines', o) : SameGrain(lines'[k], lines'[l]) => k = l
  BY <1>2, <1>3, <1>7, <1>9, <1>10, ReconcileStep
<1>12. SameElsewhere(cartons, cartons', o)
  BY <1>1, <1>5, <1>6 DEF SameElsewhere
<1>13. orders[o] # NoOrder
  <2>1. dispatch[o] # "none"
    BY <1>2
  <2> QED
    BY <1>3, <2>1 DEF IInv, NothingWithoutOrder
<1>14. ASSUME c \in DOMAIN cartons' PROVE CartonGood(c)'
  <2>1. new.weighed \in BOOLEAN /\ new.retired \in BOOLEAN
    <3>1. old.weighed \in BOOLEAN
      BY <1>3 DEF IsCarton
    <3>2. new.weighed = old.weighed
      BY <1>1, <1>3, <1>4 DEF IsCarton
    <3> QED
      BY <1>6, <3>1, <3>2, Zenon
  <2>2. IsCarton(cartons[c])'
    BY <1>3, <1>5, <1>6, <1>11, <1>14, <2>1 DEF IsCarton
  <2> QED
    BY <1>3, <1>5, <1>6, <1>11, <1>14, <2>2 DEF CartonGood
<1>15. \A x \in CartonsOf(cartons', o) : CartonGood(x)'
  BY <1>5, <1>11, <1>14, CartonStays DEF CartonsOf
<1>16. ScreensOpen' /\ inspecting' \in [Inspector -> [carton: 0 .. MaxCarton,
                                                      version: 0 .. MaxVersion]]
  <2>1. NoScreen \in [carton: 0 .. MaxCarton, version: 0 .. MaxVersion]
    BY Facts DEF NoScreen
  <2>2. inspecting' \in [Inspector -> [carton: 0 .. MaxCarton, version: 0 .. MaxVersion]]
    BY <1>2, <2>1, Facts
  <2>3. ScreensOpen'
    BY <1>2, <1>5 DEF IInv, ScreensOpen, NoScreen
  <2> QED
    BY <2>2, <2>3
<1>17. OrderStep(o)
  <2>1. ~ Locked(o)'
    BY <1>2 DEF Locked
  <2>2. DOMAIN lines' \subseteq LineId /\ DOMAIN cartons' \subseteq CartonId
    BY <1>5, <1>11, Facts
  <2>3. /\ orders' \in [Order -> {NoOrder} \cup [factory: Factory, dests: SUBSET Dest]]
        /\ dispatch' \in [Order -> {"none", "DRAFT", "READY_FOR_ERVE"}]
        /\ orders'[o] # NoOrder
        /\ \A q \in Order \ {o} : dispatch'[q] = dispatch[q] /\ orders'[q] = orders[q]
    BY <1>2, <1>13, Facts
  <2> QED
    BY <1>2, <1>11, <1>12, <1>15, <1>16, <2>1, <2>2, <2>3 DEF OrderStep
<1> QED
  BY <1>1, <1>11, <1>17, CommitsTheSame

\* A dispatch is dropped with its cartons and the screens that show them.
LEMMA DropGood ==
    ASSUME IInv, NEW o \in Order, DropDispatch(o)
    PROVE  /\ dispatch' \in [Order -> {"none", "DRAFT", "READY_FOR_ERVE"}]
           /\ dispatch'[o] = "none" /\ \A q \in Order \ {o} : dispatch'[q] = dispatch[q]
           /\ DOMAIN cartons' \subseteq CartonId
           /\ SameElsewhere(cartons, cartons', o) /\ CartonsOf(cartons', o) = {}
           /\ inspecting' \in [Inspector -> [carton: 0 .. MaxCarton, version: 0 .. MaxVersion]]
           /\ ScreensOpen'
           /\ \A l : (l \in DOMAIN lines => lines[l].order = o) =>
                 PhysicalPacked(cartons', l) = 0
<1>1. /\ dispatch' = [dispatch EXCEPT ![o] = "none"]
      /\ cartons' = [c \in DOMAIN cartons \ CartonsOf(cartons, o) |-> cartons[c]]
      /\ inspecting' = [i \in Inspector |->
                          IF inspecting[i].carton \in CartonsOf(cartons, o)
                          THEN NoScreen ELSE inspecting[i]]
  BY DEF DropDispatch
<1>2. \A c : c \in DOMAIN cartons' <=> c \in DOMAIN cartons /\ cartons[c].order # o
  BY <1>1 DEF CartonsOf
<1>3. \A c \in DOMAIN cartons' : cartons'[c] = cartons[c]
  BY <1>1
<1>4. SameElsewhere(cartons, cartons', o) /\ CartonsOf(cartons', o) = {}
  BY <1>2, <1>3 DEF SameElsewhere, CartonsOf
<1>5. Countable(cartons')
  BY <1>2, <1>3, Facts, FS_Subset DEF Countable
<1>6. ASSUME NEW l, l \in DOMAIN lines => lines[l].order = o
      PROVE  PhysicalPacked(cartons', l) = 0
  <2>1. \A c \in DOMAIN cartons' : l \notin DOMAIN cartons'[c].contents
    BY <1>2, <1>3, <1>6, Facts
  <2>2. \A c \in DOMAIN cartons' : InCarton(cartons'[c], l) = 0
    BY <2>1 DEF InCarton
  <2> QED
    BY <1>5, <2>2, NonePacked
<1>7. inspecting' \in [Inspector -> [carton: 0 .. MaxCarton, version: 0 .. MaxVersion]]
  <2>1. NoScreen \in [carton: 0 .. MaxCarton, version: 0 .. MaxVersion]
    BY Facts DEF NoScreen
  <2> QED
    BY <1>1, <2>1, Facts
<1>8. ScreensOpen'
  <2> SUFFICES ASSUME NEW i \in Inspector, inspecting'[i] # NoScreen
               PROVE  inspecting'[i].carton \in DOMAIN cartons'
    BY DEF ScreensOpen, NoScreen
  <2>1. inspecting'[i] = inspecting[i] /\ inspecting[i].carton \notin CartonsOf(cartons, o)
    BY <1>1
  <2>2. inspecting[i].carton \in DOMAIN cartons
    BY <2>1 DEF IInv, ScreensOpen
  <2> QED
    BY <1>1, <2>1, <2>2
<1>9. /\ dispatch' \in [Order -> {"none", "DRAFT", "READY_FOR_ERVE"}]
      /\ dispatch'[o] = "none" /\ \A q \in Order \ {o} : dispatch'[q] = dispatch[q]
  BY <1>1, Facts
<1>10. DOMAIN cartons' \subseteq CartonId
  BY <1>2, Facts
<1> QED
  BY <1>4, <1>6, <1>7, <1>8, <1>9, <1>10

LEMMA DeleteStep ==
    ASSUME IInv, NEW o \in Order, DeleteFactoryDispatch(o)
    PROVE  OrderStep(o) /\ CommitsNoMore
<1>1. /\ dispatch[o] = "DRAFT" /\ DropDispatch(o)
      /\ lines' = [l \in DOMAIN lines |->
                     IF lines[l].order = o THEN Unpacked(lines[l]) ELSE lines[l]]
      /\ releases' = releases /\ orders' = orders
  BY DEF DeleteFactoryDispatch
<1>2. orders[o] # NoOrder
  <2>1. dispatch[o] # "none"
    BY <1>1
  <2> QED
    BY <2>1 DEF IInv, NothingWithoutOrder
<1>3. DOMAIN lines' = DOMAIN lines
  BY <1>1
<1>4. ASSUME NEW l \in DOMAIN lines, lines[l].order = o
      PROVE  /\ IsLine(lines'[l]) /\ RowsGood(orders[o].factory, lines'[l], 0)
             /\ Reserved(lines'[l]) \in {0, lines'[l].quantity}
             /\ \A r \in Release : Held(lines'[l], r) = Held(lines[l], r)
             /\ lines'[l].order = o /\ lines'[l].dest = lines[l].dest
             /\ lines'[l].item = lines[l].item
  <2>1. PICK line, new, f, p : /\ line = lines[l] /\ new = Unpacked(line)
                               /\ f = orders[o].factory /\ p = PhysicalPacked(cartons, l)
    OBVIOUS
  <2>2. /\ releases \in Seq(QaReleaseLine) /\ IsLine(line) /\ RowsGood(f, line, p)
        /\ Reserved(line) \in {0, line.quantity}
    BY <1>4, <2>1, Facts
  <2>3. /\ IsLine(new) /\ RowsGood(f, new, 0) /\ Reserved(new) = Reserved(line)
        /\ \A r \in Release : Held(new, r) = Held(line, r)
        /\ new.order = line.order /\ new.dest = line.dest
        /\ new.item = line.item /\ new.quantity = line.quantity
    BY ONLY <2>1, <2>2, UnpackedGood
  <2>4. lines'[l] = new
    BY <1>1, <1>4, <2>1
  <2> QED
    BY <1>4, <2>1, <2>2, <2>3, <2>4
<1>5. \A l \in DOMAIN lines : lines[l].order # o => lines'[l] = lines[l]
  BY <1>1
<1>6. \A l \in DOMAIN lines : lines'[l].order = lines[l].order
  BY <1>4, <1>5
<1>7. SameElsewhere(lines, lines', o)
  BY <1>3, <1>5, <1>6 DEF SameElsewhere
<1>8. \A l \in LinesOf(lines', o) :
         /\ IsLine(lines'[l])
         /\ RowsGood(orders'[o].factory, lines'[l], PhysicalPacked(cartons', l))
         /\ Reserved(lines'[l]) \in {0, lines'[l].quantity}
  <2> SUFFICES ASSUME NEW l \in LinesOf(lines', o)
               PROVE  /\ IsLine(lines'[l])
                      /\ RowsGood(orders'[o].factory, lines'[l], PhysicalPacked(cartons', l))
                      /\ Reserved(lines'[l]) \in {0, lines'[l].quantity}
    OBVIOUS
  <2>1. l \in DOMAIN lines /\ lines[l].order = o
    BY <1>3, <1>6 DEF LinesOf
  <2>2. PhysicalPacked(cartons', l) = 0
    BY <1>1, <2>1, DropGood
  <2> QED
    BY <1>1, <1>4, <2>1, <2>2
<1>9. \A k, l \in LinesOf(lines', o) : SameGrain(lines'[k], lines'[l]) => k = l
  BY <1>3, <1>4, <1>6 DEF LinesOf, IInv, OneLinePerGrain, SameGrain
<1>10. OrderStep(o)
  <2>1. ~ Locked(o)'
    BY <1>1, DropGood DEF Locked
  <2>2. DOMAIN lines' \subseteq LineId
    BY <1>3, Facts
  <2>3. /\ orders' \in [Order -> {NoOrder} \cup [factory: Factory, dests: SUBSET Dest]]
        /\ orders'[o] # NoOrder /\ \A q \in Order \ {o} : orders'[q] = orders[q]
    BY <1>1, <1>2, Facts
  <2>4. \A c \in CartonsOf(cartons', o) : CartonGood(c)'
    BY <1>1, DropGood
  <2> QED
    BY <1>1, <1>7, <1>8, <1>9, <2>1, <2>2, <2>3, <2>4, DropGood DEF OrderStep
<1>11. CommitsNoMore
  BY <1>3, <1>4, <1>5, CommitsTheSame
<1> QED
  BY <1>10, <1>11

\* Steps that move no line and no piece.
LEMMA QuietStep ==
    ASSUME IInv, NEW o \in Order, orders[o] # NoOrder,
           releases' = releases, lines' = lines, orders' = orders,
           dispatch' \in [Order -> {"none", "DRAFT", "READY_FOR_ERVE"}],
           \A q \in Order \ {o} : dispatch'[q] = dispatch[q],
           inspecting' \in [Inspector -> [carton: 0 .. MaxCarton, version: 0 .. MaxVersion]],
           ScreensOpen', DOMAIN cartons' = DOMAIN cartons,
           \A c \in DOMAIN cartons :
              /\ cartons'[c].order = cartons[c].order
              /\ cartons'[c].contents = cartons[c].contents
              /\ cartons'[c].retired = cartons[c].retired
              /\ cartons[c].order # o => cartons'[c] = cartons[c],
           \A c \in CartonsOf(cartons', o) : CartonGood(c)',
           (Locked(o) => Complete(o))'
    PROVE  OrderStep(o) /\ CommitsNoMore
<1>1. SameElsewhere(lines, lines', o) /\ SameElsewhere(cartons, cartons', o)
  BY DEF SameElsewhere
<1>2. \A l : \A c \in DOMAIN cartons : InCarton(cartons'[c], l) = InCarton(cartons[c], l)
  BY DEF InCarton
<1>3. \A l : [c \in DOMAIN cartons' |-> InCarton(cartons'[c], l)]
                = [c \in DOMAIN cartons |-> InCarton(cartons[c], l)]
  BY <1>2
<1>4. \A l : PhysicalPacked(cartons', l) = PhysicalPacked(cartons, l)
  BY <1>3 DEF PhysicalPacked
<1>5. \A l \in LinesOf(lines', o) :
         /\ IsLine(lines'[l])
         /\ RowsGood(orders'[o].factory, lines'[l], PhysicalPacked(cartons', l))
         /\ Reserved(lines'[l]) \in {0, lines'[l].quantity}
  BY <1>4, Facts DEF LinesOf
<1>6. \A k, l \in LinesOf(lines', o) : SameGrain(lines'[k], lines'[l]) => k = l
  BY DEF LinesOf, IInv, OneLinePerGrain
<1>7. OrderStep(o)
  BY <1>1, <1>5, <1>6, Facts DEF OrderStep
<1> QED
  BY <1>7, CommitsTheSame

LEMMA OrderOfCarton ==
    ASSUME IInv, NEW c \in DOMAIN cartons
    PROVE  cartons[c].order \in Order /\ orders[cartons[c].order] # NoOrder
<1>1. cartons[c].order \in Order
  BY Facts
<1>2. c \in CartonsOf(cartons, cartons[c].order)
  BY DEF CartonsOf
<1> QED
  BY <1>1, <1>2 DEF IInv, NothingWithoutOrder

LEMMA ReadyStays ==
    ASSUME IInv, NEW o \in Order, UNCHANGED <<lines, dispatch, cartons>>
    PROVE  (Locked(o) => Complete(o))'
<1>1. Locked(o) => Complete(o)
  BY DEF IInv, ReadyIsComplete, Complete
<1>2. Locked(o)' <=> Locked(o)
  BY DEF Locked
<1>3. Complete(o)' <=> Complete(o)
  <2>1. \A c : Mismatched(c)' <=> Mismatched(c)
    BY DEF Mismatched
  <2> QED
    BY <2>1 DEF Complete
<1> QED
  BY <1>1, <1>2, <1>3

LEMMA FinalizeStep ==
    ASSUME IInv, NEW o \in Order, FinalizeFactoryDispatch(o)
    PROVE  OrderStep(o) /\ CommitsNoMore
<1>1. /\ dispatch[o] = "DRAFT" /\ LinesOf(lines, o) # {}
      /\ \A c \in CartonsOf(cartons, o) :
            ~ cartons[c].retired => /\ cartons[c].weighed /\ ~ Mismatched(c)
                                    /\ cartons[c].audited = cartons[c].version
      /\ \A l \in LinesOf(lines, o) : PhysicalPacked(cartons, l) = lines[l].quantity
      /\ dispatch' = [dispatch EXCEPT ![o] = "READY_FOR_ERVE"]
      /\ releases' = releases /\ orders' = orders /\ lines' = lines
      /\ cartons' = cartons /\ inspecting' = inspecting
  BY DEF FinalizeFactoryDispatch
<1>2. orders[o] # NoOrder
  <2>1. dispatch[o] # "none"
    BY <1>1
  <2> QED
    BY <2>1 DEF IInv, NothingWithoutOrder
<1>3. \A l \in LinesOf(lines, o) : Reserved(lines[l]) = lines[l].quantity
  <2> SUFFICES ASSUME NEW l \in LinesOf(lines, o) PROVE Reserved(lines[l]) = lines[l].quantity
    OBVIOUS
  <2>1. PICK line, f, p : /\ line = lines[l] /\ f = orders[lines[l].order].factory
                          /\ p = PhysicalPacked(cartons, l)
    OBVIOUS
  <2>2. /\ releases \in Seq(QaReleaseLine) /\ IsLine(line) /\ RowsGood(f, line, p)
        /\ Reserved(line) \in {0, line.quantity} /\ p = line.quantity
    BY <1>1, <2>1, Facts DEF LinesOf
  <2>3. p \in Nat /\ p <= Reserved(line) /\ line.quantity \in Nat \ {0}
    BY ONLY <2>2, AttributedIsReserved, LineTyped
  <2> QED
    BY <2>1, <2>2, <2>3
<1>4. Complete(o)
  BY <1>1, <1>3 DEF Complete
<1>5. Complete(o)'
  <2>1. \A c : Mismatched(c)' <=> Mismatched(c)
    BY <1>1 DEF Mismatched
  <2> QED
    BY <1>1, <1>4, <2>1 DEF Complete
<1>6. \A c \in CartonsOf(cartons', o) : CartonGood(c)'
  BY <1>1, CartonStays DEF CartonsOf
<1>7. ScreensOpen'
  BY <1>1 DEF IInv, ScreensOpen, NoScreen
<1>8. /\ dispatch' \in [Order -> {"none", "DRAFT", "READY_FOR_ERVE"}]
      /\ \A q \in Order \ {o} : dispatch'[q] = dispatch[q]
      /\ inspecting' \in [Inspector -> [carton: 0 .. MaxCarton, version: 0 .. MaxVersion]]
  BY <1>1, Facts
<1> QED
  BY <1>1, <1>2, <1>5, <1>6, <1>7, <1>8, QuietStep

LEMMA ScreenStep ==
    ASSUME IInv, NEW i \in Inspector, NEW c \in DOMAIN cartons,
           OpenCarton(i, c) \/ (CloseScreen(i) /\ c = inspecting[i].carton)
    PROVE  OrderStep(cartons[c].order) /\ CommitsNoMore
<1>1. PICK o : o = cartons[c].order
  OBVIOUS
<1>2. o \in Order /\ orders[o] # NoOrder
  BY <1>1, OrderOfCarton
<1>3. /\ releases' = releases /\ orders' = orders /\ lines' = lines
      /\ dispatch' = dispatch /\ cartons' = cartons
      /\ \/ inspecting' = [inspecting EXCEPT
                             ![i] = [carton |-> c, version |-> cartons[c].version]]
         \/ inspecting' = [inspecting EXCEPT ![i] = NoScreen]
  BY DEF OpenCarton, CloseScreen
<1>4. inspecting' \in [Inspector -> [carton: 0 .. MaxCarton, version: 0 .. MaxVersion]]
  <2>1. /\ NoScreen \in [carton: 0 .. MaxCarton, version: 0 .. MaxVersion]
        /\ [carton |-> c, version |-> cartons[c].version]
              \in [carton: 0 .. MaxCarton, version: 0 .. MaxVersion]
    <3>1. c \in CartonId /\ cartons[c].version \in 1 .. MaxVersion
      BY Facts DEF IsCarton
    <3> QED
      BY <3>1, Facts DEF NoScreen, CartonId
  <2> QED
    BY <1>3, <2>1, Facts
<1>5. ScreensOpen'
  <2> SUFFICES ASSUME NEW j \in Inspector, inspecting'[j] # NoScreen
               PROVE  inspecting'[j].carton \in DOMAIN cartons
    BY <1>3 DEF ScreensOpen, NoScreen
  <2>1. CASE j = i
    BY <1>3, <2>1, Facts
  <2>2. CASE j # i
    <3>1. inspecting'[j] = inspecting[j]
      BY <1>3, <2>2, Facts
    <3> QED
      BY <3>1 DEF IInv, ScreensOpen
  <2> QED
    BY <2>1, <2>2
<1>6. \A x \in CartonsOf(cartons', o) : CartonGood(x)'
  BY <1>3, CartonStays DEF CartonsOf
<1>7. (Locked(o) => Complete(o))'
  BY <1>2, <1>3, ReadyStays
<1>8. /\ dispatch' \in [Order -> {"none", "DRAFT", "READY_FOR_ERVE"}]
      /\ \A q \in Order \ {o} : dispatch'[q] = dispatch[q]
  BY <1>3, Facts
<1> QED
  BY <1>1, <1>2, <1>3, <1>4, <1>5, <1>6, <1>7, <1>8, QuietStep

LEMMA ConfirmStep ==
    ASSUME IInv, NEW i \in Inspector, ConfirmCartonPackingAudit(i),
           NEW c, c = inspecting[i].carton
    PROVE  c \in DOMAIN cartons /\ OrderStep(cartons[c].order) /\ CommitsNoMore
<1>1. /\ inspecting[i] # NoScreen /\ ~ cartons[c].retired /\ ~ Mismatched(c)
      /\ cartons' = [cartons EXCEPT ![c].audited = cartons[c].version]
      /\ inspecting' = [inspecting EXCEPT ![i] = NoScreen]
      /\ releases' = releases /\ orders' = orders /\ lines' = lines /\ dispatch' = dispatch
  BY DEF ConfirmCartonPackingAudit
<1>2. c \in DOMAIN cartons
  BY <1>1 DEF IInv, ScreensOpen
<1>3. PICK old, new, o : /\ old = cartons[c] /\ new = [old EXCEPT !.audited = old.version]
                         /\ o = old.order
  OBVIOUS
<1>4. o \in Order /\ orders[o] # NoOrder
  BY <1>2, <1>3, OrderOfCarton
<1>5. IsCarton(old)
  BY <1>2, <1>3, Facts
<1>6. /\ DOMAIN cartons' = DOMAIN cartons
      /\ cartons'[c] = new /\ \A x \in DOMAIN cartons \ {c} : cartons'[x] = cartons[x]
  BY <1>1, <1>2, <1>3
<1>7. /\ DOMAIN new = {"order", "dest", "contents", "weighed", "version", "audited", "retired"}
      /\ new.order = o /\ new.dest = old.dest /\ new.contents = old.contents
      /\ new.weighed = old.weighed /\ new.version = old.version
      /\ new.audited = old.version /\ new.retired = old.retired
  BY <1>3, <1>5 DEF IsCarton
<1>8. \A x \in DOMAIN cartons :
         /\ cartons'[x].order = cartons[x].order
         /\ cartons'[x].dest = cartons[x].dest
         /\ cartons'[x].contents = cartons[x].contents
         /\ cartons'[x].retired = cartons[x].retired
         /\ cartons'[x].weighed = cartons[x].weighed
         /\ cartons'[x].version = cartons[x].version
         /\ cartons[x].order # o => cartons'[x] = cartons[x]
  BY <1>3, <1>6, <1>7
<1>9. \A x \in DOMAIN cartons : Mismatched(x)' <=> Mismatched(x)
  BY <1>1, <1>8 DEF Mismatched
<1>10. CartonGood(c)'
  <2>1. new.weighed \in BOOLEAN /\ new.retired \in BOOLEAN
    <3>1. old.weighed \in BOOLEAN /\ old.retired \in BOOLEAN
      BY <1>5 DEF IsCarton
    <3> QED
      BY <1>7, <3>1, Zenon
  <2>2. old.version \in 1 .. MaxVersion /\ MaxVersion \in Nat
    BY <1>5, Facts DEF IsCarton
  <2>3. new.version \in 1 .. MaxVersion /\ new.audited \in 0 .. new.version
    BY <1>7, <2>2
  <2>4. IsCarton(cartons[c])'
    BY <1>1, <1>3, <1>5, <1>6, <1>7, <2>1, <2>3 DEF IsCarton
  <2>5. \A l \in DOMAIN old.contents : lines[l].order = o
    BY <1>2, <1>3, Facts
  <2> QED
    BY <1>1, <1>2, <1>6, <1>7, <1>9, <2>4, <2>5 DEF CartonGood
<1>11. \A x \in CartonsOf(cartons', o) : CartonGood(x)'
  BY <1>1, <1>6, <1>10, CartonStays DEF CartonsOf
<1>12. (Locked(o) => Complete(o))'
  <2>1. SUFFICES ASSUME Locked(o)' PROVE Complete(o)'
    OBVIOUS
  <2>2. Complete(o)
    <3>1. Locked(o)
      BY <1>1, <2>1 DEF Locked
    <3> QED
      BY <1>4, <3>1 DEF IInv, ReadyIsComplete, Complete
  <2>3. CartonsOf(cartons', o) = CartonsOf(cartons, o)
    BY <1>6, <1>8 DEF CartonsOf
  <2>4. \A l : PhysicalPacked(cartons', l) = PhysicalPacked(cartons, l)
    <3>1. \A l : \A x \in DOMAIN cartons : InCarton(cartons'[x], l) = InCarton(cartons[x], l)
      BY <1>8 DEF InCarton
    <3>2. \A l : [x \in DOMAIN cartons' |-> InCarton(cartons'[x], l)]
                    = [x \in DOMAIN cartons |-> InCarton(cartons[x], l)]
      BY <1>6, <3>1
    <3> QED
      BY <3>2 DEF PhysicalPacked
  <2>5. \A x \in CartonsOf(cartons, o) : ~ cartons'[x].retired =>
           /\ cartons'[x].weighed
           /\ cartons'[x].audited = cartons'[x].version
           /\ ~ Mismatched(x)'
    <3> SUFFICES ASSUME NEW x \in CartonsOf(cartons, o), ~ cartons'[x].retired
                 PROVE  /\ cartons'[x].weighed
                        /\ cartons'[x].audited = cartons'[x].version
                        /\ ~ Mismatched(x)'
      OBVIOUS
    <3>1. x \in DOMAIN cartons
      BY DEF CartonsOf
    <3>2. ~ cartons[x].retired
      BY <1>8, <3>1
    <3>3. cartons[x].weighed /\ cartons[x].audited = cartons[x].version /\ ~ Mismatched(x)
      BY <2>2, <3>2 DEF Complete
    <3>4. cartons'[x].weighed /\ ~ Mismatched(x)'
      BY <1>8, <1>9, <3>1, <3>3
    <3>5. cartons'[x].audited = cartons'[x].version
      BY <1>3, <1>6, <1>7, <3>1, <3>3
    <3> QED
      BY <3>4, <3>5
  <2> QED
    BY <1>1, <2>2, <2>3, <2>4, <2>5 DEF Complete
<1>13. /\ inspecting' \in [Inspector -> [carton: 0 .. MaxCarton, version: 0 .. MaxVersion]]
       /\ ScreensOpen'
  <2>1. NoScreen \in [carton: 0 .. MaxCarton, version: 0 .. MaxVersion]
    BY Facts DEF NoScreen
  <2>2. inspecting' \in [Inspector -> [carton: 0 .. MaxCarton, version: 0 .. MaxVersion]]
    BY <1>1, <2>1, Facts
  <2>3. \A j \in Inspector : inspecting'[j] = IF j = i THEN NoScreen ELSE inspecting[j]
    BY <1>1, Facts
  <2>4. ScreensOpen'
    BY <1>6, <2>3 DEF IInv, ScreensOpen, NoScreen
  <2> QED
    BY <2>2, <2>4
<1>14. /\ dispatch' \in [Order -> {"none", "DRAFT", "READY_FOR_ERVE"}]
       /\ \A q \in Order \ {o} : dispatch'[q] = dispatch[q]
  BY <1>1, Facts
<1>15. OrderStep(o) /\ CommitsNoMore
  BY <1>1, <1>4, <1>6, <1>8, <1>11, <1>12, <1>13, <1>14, QuietStep
<1> QED
  BY <1>2, <1>3, <1>15

\* A final inspection adds to a pool and takes nothing from it.
LEMMA QaReleaseStep ==
    ASSUME IInv, NEW f \in Factory, NEW item \in Item, NEW q \in ReleaseQty,
           QaRelease(f, item, q)
    PROVE  IInv' /\ CommitsNoMore
<1>1. PICK new : new = [factory |-> f, item |-> item, quantity |-> q]
  OBVIOUS
<1>2. /\ releases' = Append(releases, new)
      /\ orders' = orders /\ lines' = lines /\ dispatch' = dispatch
      /\ cartons' = cartons /\ inspecting' = inspecting
  BY <1>1 DEF QaRelease
<1>3. new \in QaReleaseLine
  BY <1>1 DEF QaReleaseLine
<1>4. /\ releases' \in Seq(QaReleaseLine)
      /\ Release \subseteq DOMAIN releases'
      /\ \A r \in Release : releases'[r] = releases[r]
  <2>1. releases \in Seq(QaReleaseLine)
    BY Facts
  <2> QED
    BY <1>2, <1>3, <2>1 DEF Release
<1>5. TypeOK'
  <2>1. \A l \in DOMAIN lines : IsLine(lines[l])'
    BY <1>2, <1>4, Facts DEF IsLine, Release
  <2>2. \A c \in DOMAIN cartons : IsCarton(cartons[c])'
    BY <1>2, Facts DEF IsCarton
  <2> QED
    BY <1>2, <1>4, <2>1, <2>2, Facts DEF TypeOK, QaReleaseLine
<1>6. LinesGood'
  <2> SUFFICES ASSUME NEW l \in DOMAIN lines
               PROVE  /\ RowsGood(orders[lines[l].order].factory, lines[l],
                                  PhysicalPacked(cartons, l))'
                      /\ (Reserved(lines[l]) \in {0, lines[l].quantity})'
    BY <1>2 DEF LinesGood
  <2>1. /\ RowsGood(orders[lines[l].order].factory, lines[l], PhysicalPacked(cartons, l))
        /\ Reserved(lines[l]) \in {0, lines[l].quantity}
    BY Facts
  <2>2. \A g, i : PoolOf(g, i) \subseteq PoolOf(g, i)'
    BY <1>4 DEF PoolOf, Release
  <2>3. RowsGood(orders[lines[l].order].factory, lines[l], PhysicalPacked(cartons, l))'
    BY <1>2, <2>1, <2>2 DEF RowsGood
  <2> QED
    BY <1>2, <2>1, <2>3
<1>7. NothingWithoutOrder' /\ ContentsOfOrder' /\ OneLinePerGrain' /\ ScreensOpen'
  BY <1>2 DEF IInv, NothingWithoutOrder, ContentsOfOrder, OneLinePerGrain, ScreensOpen,
              NoOrder, NoScreen
<1>8. AuditedCartonMatches' /\ ReadyIsComplete'
  <2>1. \A c : Mismatched(c)' <=> Mismatched(c)
    BY <1>2 DEF Mismatched
  <2>2. \A o \in Order : (Locked(o) => Complete(o))'
    BY <1>2, ReadyStays
  <2>3. ReadyIsComplete'
    BY <2>2 DEF ReadyIsComplete, Complete
  <2> QED
    BY <1>2, <2>1, <2>3 DEF IInv, AuditedCartonMatches
<1>9. CommitsNoMore
  BY <1>2, CommitsTheSame
<1> QED
  BY <1>5, <1>6, <1>7, <1>8, <1>9 DEF IInv

-----------------------------------------------------------------------------
(* Orders and their edits *)

\* Lines without rows of a release line do not count for it.
LEMMA CommittedInPart ==
    ASSUME releases \in Seq(QaReleaseLine), NEW L, IsFiniteSet(DOMAIN L), NEW B,
           DOMAIN B \subseteq DOMAIN L, NEW r,
           \A l \in DOMAIN B : IsLine(B[l]) /\ Held(L[l], r) = Held(B[l], r),
           \A l \in DOMAIN L \ DOMAIN B : Held(L[l], r) = 0
    PROVE  Committed(L, r) = Committed(B, r)
<1>1. PICK f, g, U, V : /\ f = [l \in DOMAIN B |-> Held(B[l], r)] /\ V = DOMAIN B
                        /\ g = [l \in DOMAIN L |-> Held(L[l], r)] /\ U = DOMAIN L
  OBVIOUS
<1>2. IsFiniteSet(U) /\ V \in SUBSET U
  BY <1>1
<1>3. /\ \A l \in V : f[l] \in Int /\ g[l] = f[l]
      /\ \A l \in U \ V : g[l] = 0
  BY <1>1, HeldTyped
<1>4. Sum(g, U) = Sum(f, V)
  BY ONLY <1>2, <1>3, SumWhere
<1> QED
  BY <1>1, <1>4 DEF Committed

\* Every wanted line of a new order, or of one that moved, is a new line.
LEMMA ReservedAnew ==
    ASSUME IInv, NEW o \in Order, NEW f, NEW want \in Requests, Splits(f, want),
           NEW T, T = Fresh(lines, Expand(f, want)), DOMAIN T \subseteq LineId,
           NEW B, DOMAIN B = DOMAIN lines, \A l \in DOMAIN B : IsLine(B[l]),
           NEW L, L = Over(NewLines(o, T), B), NEW D, D = Quantities(T),
           Sufficient(L, f, D, NothingPlanned), NEW N, N = Reserve(L, f, D, NothingPlanned)
    PROVE  /\ DOMAIN N = DOMAIN lines \cup DOMAIN T /\ DOMAIN N \subseteq LineId
           /\ \A l \in DOMAIN lines : N[l] = B[l]
           /\ \A l \in DOMAIN T :
                 /\ l \notin DOMAIN lines /\ T[l] \in Expand(f, want)
                 /\ IsLine(N[l]) /\ RowsGood(f, N[l], 0) /\ N[l].order = o
                 /\ SameGrain(N[l], T[l]) /\ Reserved(N[l]) = N[l].quantity
           /\ \A k, l \in DOMAIN T : SameGrain(N[k], N[l]) => k = l
           /\ \A r \in Release :
                 /\ Committed(N, r) \in Nat /\ Committed(B, r) \in Nat
                 /\ \/ Committed(N, r) <= Committed(B, r)
                    \/ Committed(N, r) <= releases[r].quantity
<1>1. PICK E : E = Expand(f, want)
  OBVIOUS
<1>2. /\ IsFiniteSet(E) /\ E \subseteq [dest: Dest, item: Item, quantity: Nat \ {0}]
      /\ \A d, e \in E : d.dest = e.dest /\ d.item = e.item => d = e
  BY <1>1, ExpandGood DEF Wanted
<1>3. releases \in Seq(QaReleaseLine) /\ DOMAIN lines \subseteq LineId
      /\ IsFiniteSet(DOMAIN lines)
  BY Facts
<1>4. /\ \A l \in DOMAIN T : l \notin DOMAIN lines /\ T[l] \in E
      /\ \A k, l \in DOMAIN T : T[k] = T[l] => k = l
  <2>1. T = Fresh(lines, E)
    BY <1>1
  <2> QED
    BY ONLY <1>2, <1>3, <2>1, FreshGood
<1>5. /\ DOMAIN L = DOMAIN lines \cup DOMAIN T
      /\ \A l \in DOMAIN lines : L[l] = B[l]
      /\ \A l \in DOMAIN T :
            L[l] = [order |-> o, dest |-> T[l].dest, item |-> T[l].item,
                    quantity |-> T[l].quantity, allocations |-> <<>>]
  BY <1>4 DEF Over, NewLines
<1>6. ASSUME NEW l \in DOMAIN T
      PROVE  /\ IsLine(L[l]) /\ RowsGood(f, L[l], 0) /\ Reserved(L[l]) = 0
             /\ L[l].order = o /\ L[l].dest = T[l].dest /\ L[l].item = T[l].item
             /\ L[l].quantity = T[l].quantity
             /\ \A r \in Release : Held(L[l], r) = 0
  <2>1. PICK e, new : e = T[l] /\ new = L[l]
    OBVIOUS
  <2>2. /\ e \in [dest: Dest, item: Item, quantity: Nat \ {0}]
        /\ new = [order |-> o, dest |-> e.dest, item |-> e.item,
                  quantity |-> e.quantity, allocations |-> <<>>]
    BY <1>2, <1>4, <1>5, <2>1
  <2>3. /\ IsLine(new) /\ RowsGood(f, new, 0) /\ Reserved(new) = 0
        /\ new.order = o /\ new.dest = e.dest /\ new.item = e.item
        /\ new.quantity = e.quantity
        /\ \A r \in Release : Held(new, r) = 0
    BY ONLY o \in Order, <1>3, <2>2, NewLineGood
  <2> QED
    BY <2>1, <2>3
<1>7. /\ DOMAIN D = DOMAIN T
      /\ \A l \in DOMAIN T : D[l] = L[l].quantity /\ D[l] \in Nat \ {0}
  <2>1. \A l \in DOMAIN T : T[l].quantity \in Nat \ {0}
    BY <1>2, <1>4
  <2> QED
    BY <1>6, <2>1 DEF Quantities
<1>8. IsFiniteSet(DOMAIN L) /\ DOMAIN L \subseteq LineId
  BY <1>3, <1>5, IdsFinite, FS_Subset
<1>9. Request(L, D, NothingPlanned)
  BY <1>5, <1>6, <1>7, <1>8 DEF Request, NothingPlanned
<1>10. /\ DOMAIN N = DOMAIN L
       /\ \A l \in DOMAIN L \ DOMAIN D : N[l] = L[l]
       /\ \A l \in DOMAIN D : \A p : RowsGood(f, L[l], p) =>
             /\ IsLine(N[l]) /\ RowsGood(f, N[l], p)
             /\ N[l].order = L[l].order /\ N[l].dest = L[l].dest
             /\ N[l].item = L[l].item /\ N[l].quantity = L[l].quantity
             /\ Reserved(N[l]) = Reserved(L[l]) + D[l]
  <2>1. Sufficient(L, f, D, NothingPlanned) /\ N = Reserve(L, f, D, NothingPlanned)
    OBVIOUS
  <2>2. Reserves(L, D, NothingPlanned, f, N)
    BY ONLY <1>3, <1>9, <2>1, ReserveGood
  <2> QED
    BY <2>2 DEF Reserves
<1>11. \A l \in DOMAIN lines : N[l] = B[l]
  BY <1>4, <1>5, <1>7, <1>10
<1>12. ASSUME NEW l \in DOMAIN T
       PROVE  /\ IsLine(N[l]) /\ RowsGood(f, N[l], 0) /\ N[l].order = o
              /\ N[l].dest = T[l].dest /\ N[l].item = T[l].item
              /\ Reserved(N[l]) = N[l].quantity
  BY <1>6, <1>7, <1>10
<1>13. \A k, l \in DOMAIN T : SameGrain(N[k], N[l]) => k = l
  BY <1>2, <1>4, <1>12 DEF SameGrain
<1>14. ASSUME NEW r \in Release
       PROVE  /\ Committed(N, r) \in Nat /\ Committed(B, r) \in Nat
              /\ \/ Committed(N, r) <= Committed(B, r)
                 \/ Committed(N, r) <= releases[r].quantity
  <2>1. /\ \A l \in DOMAIN D : \E p : RowsGood(f, L[l], p)
        /\ \A k, l \in DOMAIN D : L[k].item = L[l].item /\ L[k].dest = L[l].dest => k = l
    BY <1>2, <1>4, <1>6, <1>7
  <2>2. /\ Committed(L, r) \in Nat /\ Committed(N, r) \in Nat
        /\ \/ Committed(N, r) <= Committed(L, r)
           \/ Committed(N, r) <= releases[r].quantity + NothingPlanned[r]
    <3>1. Sufficient(L, f, D, NothingPlanned) /\ N = Reserve(L, f, D, NothingPlanned)
          /\ r \in Release
      OBVIOUS
    <3> QED
      BY ONLY <1>3, <1>9, <2>1, <3>1, TakenFromFree
  <2>3. Committed(L, r) = Committed(B, r)
    <3>1. /\ DOMAIN B \subseteq DOMAIN L
          /\ \A l \in DOMAIN B : IsLine(B[l]) /\ Held(L[l], r) = Held(B[l], r)
          /\ \A l \in DOMAIN L \ DOMAIN B : Held(L[l], r) = 0
      BY <1>5, <1>6
    <3> QED
      BY ONLY <1>3, <1>8, <3>1, CommittedInPart
  <2>4. releases[r].quantity + NothingPlanned[r] = releases[r].quantity
    BY <1>3, QuantityTyped DEF NothingPlanned
  <2> QED
    BY <2>2, <2>3, <2>4
<1>15. \A l \in DOMAIN T : SameGrain(N[l], T[l])
  BY <1>12 DEF SameGrain
<1> QED
  BY <1>1, <1>4, <1>5, <1>8, <1>10, <1>11, <1>12, <1>13, <1>14, <1>15

\* Nothing more is committed if it was no more before or fits the release line.
LEMMA CommitsNoMoreThan ==
    ASSUME IInv,
           \A r \in Release :
              \/ \E l \in DOMAIN lines :
                    l \notin DOMAIN lines' \/ Held(lines'[l], r) < Held(lines[l], r)
              \/ /\ Committed(lines', r) \in Nat
                 /\ \/ Committed(lines', r) <= Committed(lines, r)
                    \/ Committed(lines', r) <= releases[r].quantity
    PROVE  CommitsNoMore
<1> SUFFICES ASSUME NEW r \in Release, NEW n, NEW m, NEW k,
                    n = Committed(lines, r), m = releases[r].quantity, k = Committed(lines', r),
                    k \in Nat, k <= n \/ k <= m
             PROVE  ~(k > Max({m, n}))
  BY DEF CommitsNoMore
<1>1. n \in Nat /\ m \in Nat
  BY Facts, CommittedTyped, QuantityTyped
<1>2. Max({m, n}) = IF m <= n THEN n ELSE m
  BY ONLY <1>1, MaxOfPair
<1> QED
  BY <1>1, <1>2

DestsTyped == \A want \in Requests : DestsOf(want) \subseteq Dest

LEMMA DestsAreTyped == DestsTyped
<1> SUFFICES ASSUME NEW want \in Requests PROVE DestsOf(want) \subseteq Dest
  BY DEF DestsTyped
<1>1. PICK W \in SUBSET (Dest \X Style) : want \in [W -> Total]
  BY DEF Requests
<1>2. \A w \in DOMAIN want : w[1] \in Dest
  BY <1>1
<1> QED
  BY <1>2 DEF DestsOf

LEMMA CreateStep ==
    ASSUME IInv, NEW o \in Order, NEW f \in Factory, NEW want \in Requests,
           CreateDispatchOrder(o, f, want)
    PROVE  /\ OrderStep(o) /\ CommitsNoMore
           /\ \A l \in LinesOf(lines', o) : Reserved(lines'[l]) = lines'[l].quantity
<1>1. PICK T, D, L : /\ T = Fresh(lines, Expand(f, want)) /\ D = Quantities(T)
                     /\ L = Over(NewLines(o, T), lines)
  OBVIOUS
<1>2. /\ orders[o] = NoOrder /\ Splits(f, want) /\ DOMAIN T \subseteq LineId
      /\ Sufficient(L, f, D, NothingPlanned)
      /\ orders' = [orders EXCEPT ![o] = [factory |-> f, dests |-> DestsOf(want)]]
      /\ lines' = Reserve(L, f, D, NothingPlanned)
      /\ releases' = releases /\ dispatch' = dispatch /\ cartons' = cartons
      /\ inspecting' = inspecting
  BY <1>1 DEF CreateDispatchOrder
<1>3. PICK N : N = lines'
  OBVIOUS
<1>4. /\ DOMAIN N = DOMAIN lines \cup DOMAIN T /\ DOMAIN N \subseteq LineId
      /\ \A l \in DOMAIN lines : N[l] = lines[l]
      /\ \A l \in DOMAIN T :
            /\ l \notin DOMAIN lines /\ T[l] \in Expand(f, want)
            /\ IsLine(N[l]) /\ RowsGood(f, N[l], 0) /\ N[l].order = o
            /\ SameGrain(N[l], T[l]) /\ Reserved(N[l]) = N[l].quantity
      /\ \A k, l \in DOMAIN T : SameGrain(N[k], N[l]) => k = l
      /\ \A r \in Release :
            /\ Committed(N, r) \in Nat /\ Committed(lines, r) \in Nat
            /\ \/ Committed(N, r) <= Committed(lines, r)
               \/ Committed(N, r) <= releases[r].quantity
  <2>1. PICK B : B = lines
    OBVIOUS
  <2>2. DOMAIN B = DOMAIN lines /\ \A l \in DOMAIN B : IsLine(B[l])
    BY <2>1, Facts
  <2>3. /\ T = Fresh(lines, Expand(f, want)) /\ D = Quantities(T)
        /\ L = Over(NewLines(o, T), B) /\ N = Reserve(L, f, D, NothingPlanned)
        /\ Splits(f, want) /\ DOMAIN T \subseteq LineId /\ Sufficient(L, f, D, NothingPlanned)
    BY <1>1, <1>2, <1>3, <2>1
  <2>4. /\ DOMAIN N = DOMAIN lines \cup DOMAIN T /\ DOMAIN N \subseteq LineId
        /\ \A l \in DOMAIN lines : N[l] = B[l]
        /\ \A l \in DOMAIN T :
              /\ l \notin DOMAIN lines /\ T[l] \in Expand(f, want)
              /\ IsLine(N[l]) /\ RowsGood(f, N[l], 0) /\ N[l].order = o
              /\ SameGrain(N[l], T[l]) /\ Reserved(N[l]) = N[l].quantity
        /\ \A k, l \in DOMAIN T : SameGrain(N[k], N[l]) => k = l
        /\ \A r \in Release :
              /\ Committed(N, r) \in Nat /\ Committed(B, r) \in Nat
              /\ \/ Committed(N, r) <= Committed(B, r)
                 \/ Committed(N, r) <= releases[r].quantity
    BY ONLY IInv, o \in Order, want \in Requests, <2>2, <2>3, ReservedAnew
  <2> QED
    BY <2>1, <2>4
<1>5. LinesOf(lines, o) = {} /\ CartonsOf(cartons, o) = {} /\ dispatch[o] = "none"
  BY <1>2 DEF IInv, NothingWithoutOrder
<1>6. \A l : l \in LinesOf(lines', o) <=> l \in DOMAIN T
  BY <1>3, <1>4, <1>5 DEF LinesOf
<1>7. SameElsewhere(lines, lines', o)
  BY <1>3, <1>4 DEF SameElsewhere
<1>8. SameElsewhere(cartons, cartons', o)
  BY <1>2 DEF SameElsewhere
<1>9. \A l \in DOMAIN T : PhysicalPacked(cartons', l) = 0
  <2> SUFFICES ASSUME NEW l \in DOMAIN T PROVE PhysicalPacked(cartons, l) = 0
    BY <1>2
  <2>1. \A c \in DOMAIN cartons : l \notin DOMAIN cartons[c].contents
    BY <1>4, Facts
  <2>2. \A c \in DOMAIN cartons : InCarton(cartons[c], l) = 0
    BY <2>1 DEF InCarton
  <2> QED
    BY <2>2, Facts, NonePacked
<1>10. /\ orders' \in [Order -> {NoOrder} \cup [factory: Factory, dests: SUBSET Dest]]
       /\ orders'[o].factory = f /\ orders'[o] # NoOrder
       /\ \A q \in Order \ {o} : orders'[q] = orders[q]
  <2>1. DestsOf(want) \subseteq Dest
    BY DestsAreTyped DEF DestsTyped
  <2>2. orders'[o] = [factory |-> f, dests |-> DestsOf(want)]
    BY <1>2, Facts
  <2>3. f # "none"
    BY BoundsAssumption
  <2>4. orders'[o].factory = f /\ orders'[o] # NoOrder
    BY <2>2, <2>3 DEF NoOrder
  <2> QED
    BY <1>2, <2>1, <2>2, <2>4, Facts
<1>11. \A l \in LinesOf(lines', o) :
          /\ IsLine(lines'[l])
          /\ RowsGood(orders'[o].factory, lines'[l], PhysicalPacked(cartons', l))
          /\ Reserved(lines'[l]) \in {0, lines'[l].quantity}
          /\ Reserved(lines'[l]) = lines'[l].quantity
  BY <1>3, <1>4, <1>6, <1>9, <1>10
<1>12. \A k, l \in LinesOf(lines', o) : SameGrain(lines'[k], lines'[l]) => k = l
  BY <1>3, <1>4, <1>6
<1>13. ScreensOpen'
  BY <1>2 DEF IInv, ScreensOpen, NoScreen
<1>14. OrderStep(o)
  <2>1. ~ Locked(o)'
    BY <1>2, <1>5 DEF Locked
  <2>2. \A c \in CartonsOf(cartons', o) : CartonGood(c)'
    BY <1>2, <1>5
  <2>3. DOMAIN lines' \subseteq LineId /\ DOMAIN cartons' \subseteq CartonId
    BY <1>2, <1>3, <1>4, Facts
  <2> QED
    BY <1>2, <1>7, <1>8, <1>10, <1>11, <1>12, <1>13, <2>1, <2>2, <2>3, Facts DEF OrderStep
<1>15. CommitsNoMore
  BY <1>3, <1>4, CommitsNoMoreThan
<1> QED
  BY <1>11, <1>14, <1>15

\* An order that moves gives up its reservations and keeps its old lines.
LEMMA ChangeStep ==
    ASSUME IInv, NEW o \in Order, NEW g \in Factory, NEW want \in Requests,
           ChangeFactory(o, g, want)
    PROVE  OrderStep(o) /\ CommitsNoMore
<1>1. PICK T, D, L, B : /\ T = Fresh(lines, Expand(g, want)) /\ D = Quantities(T)
                        /\ L = Over([l \in LinesOf(lines, o) |-> Unreserved(lines[l])],
                                    Over(NewLines(o, T), lines))
                        /\ B = [l \in DOMAIN lines |-> IF lines[l].order = o
                                                       THEN Unreserved(lines[l]) ELSE lines[l]]
  OBVIOUS
<1>2. /\ orders[o] # NoOrder /\ Splits(g, want) /\ DOMAIN T \subseteq LineId
      /\ ~ Collides(o, g, want)
      /\ Sufficient(L, g, D, NothingPlanned)
      /\ lines' = Reserve(L, g, D, NothingPlanned)
      /\ orders' = [orders EXCEPT ![o] = [factory |-> g, dests |-> DestsOf(want)]]
      /\ DropDispatch(o) /\ releases' = releases
  BY <1>1 DEF ChangeFactory, FactoryChangeAllowed
<1>3. releases \in Seq(QaReleaseLine) /\ IsFiniteSet(DOMAIN lines) /\ DOMAIN lines \subseteq LineId
  BY Facts
<1>4. ASSUME NEW l \in DOMAIN lines
      PROVE  /\ IsLine(B[l]) /\ B[l].order = lines[l].order /\ B[l].dest = lines[l].dest
             /\ B[l].item = lines[l].item
             /\ lines[l].order = o => RowsGood(g, B[l], 0) /\ Reserved(B[l]) = 0
             /\ lines[l].order # o => B[l] = lines[l]
             /\ \A r \in Release : Held(B[l], r) \in Int /\ Held(lines[l], r) \in Int
                                   /\ Held(B[l], r) <= Held(lines[l], r)
  <2>1. PICK line, f, p : /\ line = lines[l] /\ f = orders[lines[l].order].factory
                          /\ p = PhysicalPacked(cartons, l)
    OBVIOUS
  <2>2. IsLine(line) /\ RowsGood(f, line, p)
    BY <2>1, Facts
  <2>3. \A r \in Release : Held(line, r) \in Nat
    BY <1>3, <2>2, HeldTyped
  <2>4. CASE lines[l].order # o
    BY <1>1, <2>1, <2>2, <2>3, <2>4
  <2>5. CASE lines[l].order = o
    <3>1. /\ IsLine(Unreserved(line)) /\ RowsGood(g, Unreserved(line), 0)
          /\ Reserved(Unreserved(line)) = 0
          /\ \A r \in Release : Held(Unreserved(line), r) = 0
          /\ Unreserved(line).order = line.order /\ Unreserved(line).dest = line.dest
          /\ Unreserved(line).item = line.item
      BY ONLY <1>3, <2>2, UnreservedGood
    <3>2. B[l] = Unreserved(line)
      BY <1>1, <2>1, <2>5
    <3> QED
      BY <2>1, <2>3, <2>5, <3>1, <3>2
  <2> QED
    BY <2>4, <2>5
<1>5. DOMAIN B = DOMAIN lines /\ \A l \in DOMAIN B : IsLine(B[l])
  BY <1>1, <1>4
<1>6. \A l \in DOMAIN T : l \notin DOMAIN lines
  <2>1. PICK E : E = Expand(g, want)
    OBVIOUS
  <2>2. IsFiniteSet(E) /\ T = Fresh(lines, E)
    BY <1>1, <1>2, <2>1, ExpandGood DEF Wanted
  <2> QED
    BY ONLY <1>3, <2>2, FreshGood
<1>7. L = Over(NewLines(o, T), B)
  BY <1>1, <1>6 DEF Over, NewLines, LinesOf
<1>8. PICK N : N = lines'
  OBVIOUS
<1>9. /\ DOMAIN N = DOMAIN lines \cup DOMAIN T /\ DOMAIN N \subseteq LineId
      /\ \A l \in DOMAIN lines : N[l] = B[l]
      /\ \A l \in DOMAIN T :
            /\ l \notin DOMAIN lines /\ T[l] \in Expand(g, want)
            /\ IsLine(N[l]) /\ RowsGood(g, N[l], 0) /\ N[l].order = o
            /\ SameGrain(N[l], T[l]) /\ Reserved(N[l]) = N[l].quantity
      /\ \A k, l \in DOMAIN T : SameGrain(N[k], N[l]) => k = l
      /\ \A r \in Release :
            /\ Committed(N, r) \in Nat /\ Committed(B, r) \in Nat
            /\ \/ Committed(N, r) <= Committed(B, r)
               \/ Committed(N, r) <= releases[r].quantity
  <2>1. /\ T = Fresh(lines, Expand(g, want)) /\ D = Quantities(T)
        /\ N = Reserve(L, g, D, NothingPlanned)
        /\ Splits(g, want) /\ DOMAIN T \subseteq LineId /\ Sufficient(L, g, D, NothingPlanned)
    BY <1>1, <1>2, <1>8
  <2> QED
    BY ONLY IInv, o \in Order, want \in Requests, <1>5, <1>7, <2>1, ReservedAnew
<1>10. ASSUME NEW r \in Release PROVE Committed(B, r) <= Committed(lines, r)
  <2>1. PICK h, k, S : /\ h = [l \in DOMAIN lines |-> Held(B[l], r)] /\ S = DOMAIN lines
                       /\ k = [l \in DOMAIN lines |-> Held(lines[l], r)]
    OBVIOUS
  <2>2. IsFiniteSet(S) /\ \A l \in S : h[l] \in Int /\ k[l] \in Int /\ h[l] <= k[l]
    BY <1>3, <1>4, <2>1
  <2>3. Sum(h, S) <= Sum(k, S)
    BY ONLY <2>2, SumMonotone
  <2> QED
    BY <1>5, <2>1, <2>3 DEF Committed
<1>11. CommitsNoMore
  <2>1. \A r \in Release :
           /\ Committed(lines', r) \in Nat
           /\ \/ Committed(lines', r) <= Committed(lines, r)
              \/ Committed(lines', r) <= releases[r].quantity
    <3> SUFFICES ASSUME NEW r \in Release
                 PROVE  /\ Committed(lines', r) \in Nat
                        /\ \/ Committed(lines', r) <= Committed(lines, r)
                           \/ Committed(lines', r) <= releases[r].quantity
      OBVIOUS
    <3>1. Committed(lines, r) \in Nat
      BY <1>3, Facts, CommittedTyped
    <3> QED
      BY <1>8, <1>9, <1>10, <3>1
  <2> QED
    BY <2>1, CommitsNoMoreThan
<1>12. SameElsewhere(lines, lines', o)
  BY <1>4, <1>8, <1>9 DEF SameElsewhere
<1>13. /\ orders' \in [Order -> {NoOrder} \cup [factory: Factory, dests: SUBSET Dest]]
       /\ orders'[o].factory = g /\ orders'[o] # NoOrder
       /\ \A q \in Order \ {o} : orders'[q] = orders[q]
  <2>1. DestsOf(want) \subseteq Dest
    BY DestsAreTyped DEF DestsTyped
  <2>2. orders'[o] = [factory |-> g, dests |-> DestsOf(want)]
    BY <1>2, Facts
  <2>3. g # "none"
    BY BoundsAssumption
  <2>4. orders'[o].factory = g /\ orders'[o] # NoOrder
    BY <2>2, <2>3 DEF NoOrder
  <2> QED
    BY <1>2, <2>1, <2>2, <2>4, Facts
<1>14. \A l \in LinesOf(lines', o) :
          \/ l \in DOMAIN T
          \/ l \in DOMAIN lines /\ lines[l].order = o /\ lines'[l] = B[l]
  BY <1>4, <1>8, <1>9 DEF LinesOf
<1>15. \A l \in LinesOf(lines', o) : PhysicalPacked(cartons', l) = 0
  BY <1>2, <1>9, <1>14, DropGood
<1>16. \A l \in LinesOf(lines', o) :
          /\ IsLine(lines'[l])
          /\ RowsGood(orders'[o].factory, lines'[l], PhysicalPacked(cartons', l))
          /\ Reserved(lines'[l]) \in {0, lines'[l].quantity}
  BY <1>4, <1>8, <1>9, <1>13, <1>14, <1>15
<1>17. \A k, l \in LinesOf(lines', o) : SameGrain(lines'[k], lines'[l]) => k = l
  <2> SUFFICES ASSUME NEW k \in LinesOf(lines', o), NEW l \in LinesOf(lines', o),
                      SameGrain(lines'[k], lines'[l])
               PROVE  k = l
    OBVIOUS
  <2>1. ASSUME NEW i \in DOMAIN lines, lines[i].order = o, NEW j \in DOMAIN T
        PROVE  ~ SameGrain(N[i], N[j])
    <3>1. ~ SameGrain(lines[i], T[j])
      BY <1>2, <1>9, <2>1 DEF Collides, LinesOf
    <3> QED
      BY <1>4, <1>9, <2>1, <3>1 DEF SameGrain
  <2>2. CASE k \in DOMAIN T /\ l \in DOMAIN T
    BY <1>8, <1>9, <2>2
  <2>3. CASE k \notin DOMAIN T /\ l \notin DOMAIN T
    <3>1. /\ k \in DOMAIN lines /\ lines[k].order = o /\ lines'[k] = B[k]
          /\ l \in DOMAIN lines /\ lines[l].order = o /\ lines'[l] = B[l]
      BY <1>14, <2>3
    <3>2. SameGrain(lines[k], lines[l])
      BY <1>4, <3>1 DEF SameGrain
    <3> QED
      BY <3>1, <3>2 DEF IInv, OneLinePerGrain
  <2>4. CASE k \notin DOMAIN T /\ l \in DOMAIN T
    BY <1>8, <1>14, <2>1, <2>4
  <2>5. CASE k \in DOMAIN T /\ l \notin DOMAIN T
    <3>1. SameGrain(lines'[l], lines'[k])
      BY DEF SameGrain
    <3> QED
      BY <1>8, <1>14, <2>1, <2>5, <3>1
  <2> QED
    BY <2>2, <2>3, <2>4, <2>5
<1>18. OrderStep(o)
  <2>1. ~ Locked(o)'
    BY <1>2, DropGood DEF Locked
  <2>2. DOMAIN lines' \subseteq LineId
    BY <1>8, <1>9
  <2>3. \A c \in CartonsOf(cartons', o) : CartonGood(c)'
    BY <1>2, DropGood
  <2> QED
    BY <1>2, <1>12, <1>13, <1>16, <1>17, <2>1, <2>2, <2>3, DropGood DEF OrderStep
<1> QED
  BY <1>11, <1>18

\* A line that loses pieces keeps rows of the right kind.
LEMMA ReducedRows ==
    ASSUME releases \in Seq(QaReleaseLine), NEW line, IsLine(line), NEW f, NEW p,
           RowsGood(f, line, p), NEW drop \in Nat, NEW r \in Allocated(line)
    PROVE  Reduced(line, drop)[r] \in StockAllocation
<1>1. PICK a, n : a = line.allocations[r] /\ n = Taken(line, drop)[r]
  OBVIOUS
<1>2. a \in StockAllocation /\ a.quantity \in Nat \ {0} /\ a.packed \in Nat
  BY <1>1, LineTyped
<1>3. n \in Nat /\ n <= a.quantity
  <2>1. /\ Releasable(line)[r] \in Nat
        /\ r \notin Active(line) => Releasable(line)[r] = 0
        /\ r \in Active(line) => Releasable(line)[r] = a.quantity - a.packed
        /\ n \in Nat /\ n <= Releasable(line)[r]
    BY <1>1, TakenRow
  <2> QED
    BY <1>2, <2>1
<1>4. Reduced(line, drop)[r] = IF n = 0 THEN a
                               ELSE IF n = a.quantity THEN [a EXCEPT !.active = FALSE]
                               ELSE [a EXCEPT !.quantity = @ - n]
  BY <1>1 DEF Reduced
<1>5. [a EXCEPT !.active = FALSE] \in StockAllocation
  BY <1>2, RowReleased
<1>6. n # a.quantity => [a EXCEPT !.quantity = @ - n] \in StockAllocation
  <2>1. n # a.quantity => a.quantity - n \in Nat \ {0}
    BY <1>2, <1>3
  <2> QED
    BY <1>2, <2>1 DEF StockAllocation
<1> QED
  BY <1>2, <1>4, <1>5, <1>6

\* A kept line, with what it still needs, has what the request e wants.
KeptAs(line, p, e, drop, new) ==
    /\ IsLine(new) /\ RowsGood(orders[line.order].factory, new, p)
    /\ new.order = line.order /\ SameGrain(new, e) /\ new.quantity = e.quantity
    /\ Reserved(line) \in Nat /\ Reserved(new) \in Nat
    /\ e.quantity > Reserved(line)
          => Reserved(new) + (e.quantity - Reserved(line)) = e.quantity
    /\ ~ (e.quantity > Reserved(line)) => Reserved(new) = e.quantity
    /\ \A r \in Release : Held(new, r) =
          IF r \in Active(line) THEN Held(line, r) - Taken(line, drop)[r] ELSE 0
    /\ \A r \in Active(line) :
          /\ Taken(line, drop)[r] \in Nat
          /\ e.quantity > Reserved(line) => Taken(line, drop)[r] = 0

LEMMA KeptGood ==
    ASSUME IInv, NEW l \in DOMAIN lines, NEW line, line = lines[l],
           NEW p, p = PhysicalPacked(cartons, l),
           NEW e \in [dest: Dest, item: Item, quantity: Nat \ {0}], e.item = line.item,
           e.quantity < line.quantity => e.quantity >= p,
           NEW drop,
           drop = IF line.quantity <= e.quantity THEN 0 ELSE line.quantity - e.quantity,
           NEW new, new = [line EXCEPT !.dest = e.dest, !.quantity = e.quantity,
                                       !.allocations = Reduced(line, drop)]
    PROVE  KeptAs(line, p, e, drop, new)
<1>1. PICK f : f = orders[line.order].factory
  OBVIOUS
<1>2. /\ releases \in Seq(QaReleaseLine) /\ IsLine(line) /\ RowsGood(f, line, p)
      /\ Reserved(line) \in {0, line.quantity}
  BY <1>1, Facts
<1>3. e.quantity \in Nat \ {0} /\ e.dest \in Dest /\ e.item \in Item
  OBVIOUS
<1>4. line.quantity \in Nat \ {0} /\ Reserved(line) \in Nat /\ p \in Nat /\ p <= Reserved(line)
  BY ONLY <1>2, LineTyped, AttributedIsReserved
<1>5. /\ drop \in Nat
      /\ drop = IF line.quantity <= e.quantity THEN 0 ELSE line.quantity - e.quantity
  BY <1>3, <1>4
<1>6. /\ DOMAIN Reduced(line, drop) = Allocated(line)
      /\ \A r \in Allocated(line) : Reduced(line, drop)[r] \in StockAllocation
  <2>1. \A r \in Allocated(line) : Reduced(line, drop)[r] \in StockAllocation
    BY <1>2, <1>5, ReducedRows
  <2> QED
    BY <2>1 DEF Reduced
<1>7. /\ DOMAIN new = {"order", "dest", "item", "quantity", "allocations"}
      /\ new.order = line.order /\ new.dest = e.dest /\ new.item = line.item
      /\ new.quantity = e.quantity /\ new.allocations = Reduced(line, drop)
  BY <1>2 DEF IsLine
<1>8. IsLine(new)
  <2>1. Allocated(line) \subseteq Release
    BY <1>2, LineTyped
  <2> QED
    BY <1>2, <1>3, <1>6, <1>7, <2>1 DEF IsLine
<1>9. /\ RowsGood(f, new, p)
      /\ Reserved(new) = IF drop <= Reserved(line) - p THEN Reserved(line) - drop ELSE p
      /\ \A r \in Release : Held(new, r) =
            IF r \in Active(line) THEN Held(line, r) - Taken(line, drop)[r] ELSE 0
  <2>1. new.item = line.item /\ new.allocations = Reduced(line, drop)
    BY <1>7
  <2>2. drop \in Nat /\ releases \in Seq(QaReleaseLine) /\ IsLine(line) /\ RowsGood(f, line, p)
    BY <1>2, <1>5
  <2> QED
    BY ONLY <1>8, <2>1, <2>2, ReducedGood
<1>10. /\ e.quantity > Reserved(line)
             => Reserved(new) + (e.quantity - Reserved(line)) = e.quantity
       /\ ~ (e.quantity > Reserved(line)) => Reserved(new) = e.quantity
  BY <1>2, <1>3, <1>4, <1>5, <1>9
<1>11. \A r \in Active(line) :
          /\ Taken(line, drop)[r] \in Nat
          /\ e.quantity > Reserved(line) => Taken(line, drop)[r] = 0
  <2> SUFFICES ASSUME NEW r \in Active(line)
               PROVE  /\ Taken(line, drop)[r] \in Nat
                      /\ e.quantity > Reserved(line) => Taken(line, drop)[r] = 0
    OBVIOUS
  <2>1. r \in Allocated(line) /\ line.allocations[r].quantity \in Nat \ {0}
    BY <1>2, LineTyped
  <2>2. Taken(line, drop)[r] \in Nat /\ (drop = 0 => Taken(line, drop)[r] = 0)
    BY <1>2, <1>5, <2>1, TakenRow
  <2>3. Reserved(line) # 0
    <3>1. PICK h, S : h = Pieces(line) /\ S = Active(line)
      OBVIOUS
    <3>2. IsFiniteSet(S) /\ \A s \in S : h[s] \in Nat
      BY <1>2, <3>1, LineTyped DEF Pieces
    <3>3. \A s \in S : h[s] <= Sum(h, S)
      BY ONLY <3>2, SumNat
    <3>4. h[r] = line.allocations[r].quantity
      BY <2>1, <3>1 DEF Pieces
    <3>5. line.allocations[r].quantity <= Reserved(line)
      BY <3>1, <3>3, <3>4 DEF Reserved
    <3> QED
      BY <1>4, <2>1, <3>5
  <2>4. e.quantity > Reserved(line) => drop = 0
    BY <1>2, <1>3, <1>4, <1>5, <2>3
  <2> QED
    BY <2>2, <2>4
<1>12. Reserved(new) \in Nat
  BY <1>2, <1>8, LineTyped
<1> QED
  BY <1>1, <1>4, <1>7, <1>8, <1>9, <1>10, <1>11, <1>12 DEF SameGrain, KeptAs

\* What an edit makes of the lines before it reserves anything.
Edits(o, E, T, L) ==
    /\ \A l \in DOMAIN T : T[l] \in E
    /\ \A k, l \in DOMAIN T : T[k] = T[l] => k = l
    /\ \A l : l \in Kept(o, T) <=> l \in DOMAIN T /\ l \in DOMAIN lines
    /\ DOMAIN L = (DOMAIN lines \ Removed(o, T)) \cup DOMAIN T
    /\ \A l \in DOMAIN lines : lines[l].order # o =>
          l \in DOMAIN L /\ l \notin DOMAIN T /\ L[l] = lines[l]
    /\ \A l \in DOMAIN T \ DOMAIN lines :
          L[l] = [order |-> o, dest |-> T[l].dest, item |-> T[l].item,
                  quantity |-> T[l].quantity, allocations |-> <<>>]
    /\ \A l \in Kept(o, T) :
          /\ lines[l].order = o /\ T[l].item = lines[l].item
          /\ L[l] = [lines[l] EXCEPT !.dest = T[l].dest, !.quantity = T[l].quantity,
                                     !.allocations = Reduced(lines[l], Drop(T, l))]

LEMMA EditedGood ==
    ASSUME IInv, NEW o \in Order, NEW E, Wanted(E),
           NEW T, T = Targets(lines, o, E), NEW L, L = Edited(o, T),
           \A l \in Kept(o, T) : T[l].quantity < lines[l].quantity
                                   => T[l].quantity >= PhysicalPacked(cartons, l)
    PROVE  Edits(o, E, T, L)
<1>1. /\ \A l \in DOMAIN T : T[l] \in E
      /\ \A k, l \in DOMAIN T : T[k] = T[l] => k = l
      /\ \A l \in DOMAIN T : l \in DOMAIN lines =>
            l \in LinesOf(lines, o) /\ lines[l].item = T[l].item
  <2>1. DOMAIN lines \subseteq LineId /\ IsFiniteSet(E)
    BY Facts DEF Wanted
  <2>2. \A k, l \in LinesOf(lines, o) : SameGrain(lines[k], lines[l]) => k = l
    BY DEF IInv, OneLinePerGrain, LinesOf
  <2> QED
    BY <2>1, <2>2, TargetsGood
<1>2. \A l : l \in Kept(o, T) <=> l \in DOMAIN T /\ l \in DOMAIN lines
  BY <1>1 DEF Kept, LinesOf
<1>3. PICK kept, added, rest :
         /\ kept = [l \in Kept(o, T) |->
                      [lines[l] EXCEPT !.dest = T[l].dest, !.quantity = T[l].quantity,
                                       !.allocations = Reduced(lines[l], Drop(T, l))]]
         /\ added = NewLines(o, [l \in DOMAIN T \ DOMAIN lines |-> T[l]])
         /\ rest = [l \in DOMAIN lines \ Removed(o, T) |-> lines[l]]
  OBVIOUS
<1>4. L = Over(kept, Over(added, rest))
  BY <1>3 DEF Edited
<1>5. /\ DOMAIN kept = Kept(o, T) /\ DOMAIN added = DOMAIN T \ DOMAIN lines
      /\ DOMAIN rest = DOMAIN lines \ Removed(o, T)
      /\ \A l \in DOMAIN T \ DOMAIN lines :
            added[l] = [order |-> o, dest |-> T[l].dest, item |-> T[l].item,
                        quantity |-> T[l].quantity, allocations |-> <<>>]
      /\ \A l \in DOMAIN lines \ Removed(o, T) : rest[l] = lines[l]
  BY <1>3 DEF NewLines
<1>6. \A l \in DOMAIN lines : lines[l].order # o => l \notin Removed(o, T) /\ l \notin DOMAIN T
  BY <1>1 DEF Removed, LinesOf
<1>7. /\ DOMAIN L = DOMAIN kept \cup (DOMAIN added \cup DOMAIN rest)
      /\ \A l \in DOMAIN kept : L[l] = kept[l]
      /\ \A l \in DOMAIN added : l \notin DOMAIN kept => L[l] = added[l]
      /\ \A l \in DOMAIN rest : l \notin DOMAIN kept /\ l \notin DOMAIN added => L[l] = rest[l]
  BY <1>4 DEF Over
<1>8. DOMAIN L = (DOMAIN lines \ Removed(o, T)) \cup DOMAIN T
  BY <1>2, <1>5, <1>7 DEF Removed
<1>9. \A l \in DOMAIN lines : lines[l].order # o =>
         l \in DOMAIN L /\ l \notin DOMAIN T /\ L[l] = lines[l]
  BY <1>2, <1>5, <1>6, <1>7
<1>10. \A l \in DOMAIN T \ DOMAIN lines :
          L[l] = [order |-> o, dest |-> T[l].dest, item |-> T[l].item,
                  quantity |-> T[l].quantity, allocations |-> <<>>]
  BY <1>2, <1>5, <1>7
<1>11. \A l \in Kept(o, T) :
          /\ lines[l].order = o /\ T[l].item = lines[l].item
          /\ L[l] = [lines[l] EXCEPT !.dest = T[l].dest, !.quantity = T[l].quantity,
                                     !.allocations = Reduced(lines[l], Drop(T, l))]
  BY <1>1, <1>2, <1>3, <1>5, <1>7 DEF LinesOf
<1> QED
  BY <1>1, <1>2, <1>8, <1>9, <1>10, <1>11 DEF Edits

\* A line of an edit and what it still needs.
EditedAs(o, T, L, D, l) ==
    /\ IsLine(L[l]) /\ RowsGood(orders[o].factory, L[l], PhysicalPacked(cartons, l))
    /\ L[l].order = o /\ SameGrain(L[l], T[l]) /\ L[l].quantity = T[l].quantity
    /\ Reserved(L[l]) \in Nat /\ T[l].quantity \in Nat
    /\ l \in DOMAIN D => /\ D[l] \in Nat \ {0}
                         /\ Reserved(L[l]) + D[l] = T[l].quantity
    /\ l \notin DOMAIN D => Reserved(L[l]) = T[l].quantity
    /\ l \notin DOMAIN lines => \A r \in Release : Held(L[l], r) = 0
    /\ l \in DOMAIN lines =>
          /\ \A r \in Release : Held(L[l], r) =
                IF r \in Active(lines[l])
                THEN Held(lines[l], r) - Taken(lines[l], Drop(T, l))[r] ELSE 0
          /\ \A r \in Active(lines[l]) :
                /\ Taken(lines[l], Drop(T, l))[r] \in Nat
                /\ l \in DOMAIN D => Taken(lines[l], Drop(T, l))[r] = 0

LEMMA EditedLines ==
    ASSUME IInv, NEW o \in Order, NEW E, Wanted(E),
           NEW T, T = Targets(lines, o, E), NEW L, L = Edited(o, T),
           NEW D, D = ExtraDemand(o, T),
           \A l \in Kept(o, T) : T[l].quantity < lines[l].quantity
                                   => T[l].quantity >= PhysicalPacked(cartons, l),
           NEW l \in DOMAIN T
    PROVE  EditedAs(o, T, L, D, l)
<1>1. /\ T[l] \in E
      /\ \A k : k \in Kept(o, T) <=> k \in DOMAIN T /\ k \in DOMAIN lines
      /\ \A k \in DOMAIN T \ DOMAIN lines :
            L[k] = [order |-> o, dest |-> T[k].dest, item |-> T[k].item,
                    quantity |-> T[k].quantity, allocations |-> <<>>]
      /\ \A k \in Kept(o, T) :
            /\ lines[k].order = o /\ T[k].item = lines[k].item
            /\ L[k] = [lines[k] EXCEPT !.dest = T[k].dest, !.quantity = T[k].quantity,
                                       !.allocations = Reduced(lines[k], Drop(T, k))]
  <2>1. Edits(o, E, T, L)
    BY EditedGood
  <2> QED
    BY <2>1 DEF Edits
<1>2. PICK e, new, p : e = T[l] /\ new = L[l] /\ p = PhysicalPacked(cartons, l)
  OBVIOUS
<1>3. e \in [dest: Dest, item: Item, quantity: Nat \ {0}] /\ e.quantity \in Nat \ {0}
  BY <1>1, <1>2 DEF Wanted
<1>4. releases \in Seq(QaReleaseLine)
  BY Facts
<1>5. CASE l \notin DOMAIN lines
  <2>1. new = [order |-> o, dest |-> e.dest, item |-> e.item,
               quantity |-> e.quantity, allocations |-> <<>>]
    BY <1>1, <1>2, <1>5
  <2>2. PICK f : f = orders[o].factory
    OBVIOUS
  <2>3. /\ IsLine(new) /\ RowsGood(f, new, 0) /\ Reserved(new) = 0
        /\ new.order = o /\ new.dest = e.dest /\ new.item = e.item
        /\ new.quantity = e.quantity
        /\ \A r \in Release : Held(new, r) = 0
    BY ONLY o \in Order, <1>3, <1>4, <2>1, NewLineGood
  <2>4. p = 0
    <3>1. \A c \in DOMAIN cartons : l \notin DOMAIN cartons[c].contents
      BY <1>5, Facts
    <3>2. \A c \in DOMAIN cartons : InCarton(cartons[c], l) = 0
      BY <3>1 DEF InCarton
    <3> QED
      BY <1>2, <3>2, Facts, NonePacked
  <2>5. l \in DOMAIN D /\ D[l] = e.quantity
    <3>1. l \notin Kept(o, T)
      BY <1>1, <1>5
    <3> QED
      BY <1>2, <1>3, <3>1 DEF ExtraDemand
  <2> QED
    BY <1>2, <1>3, <1>5, <2>2, <2>3, <2>4, <2>5 DEF SameGrain, EditedAs
<1>6. CASE l \in DOMAIN lines
  <2>1. l \in Kept(o, T)
    BY <1>1, <1>6
  <2>2. PICK line, drop : line = lines[l] /\ drop = Drop(T, l)
    OBVIOUS
  <2>3. /\ e.item = line.item /\ line.order = o
        /\ new = [line EXCEPT !.dest = e.dest, !.quantity = e.quantity,
                              !.allocations = Reduced(line, drop)]
        /\ e.quantity < line.quantity => e.quantity >= p
    BY <1>1, <1>2, <2>1, <2>2
  <2>8. drop = IF line.quantity <= e.quantity THEN 0 ELSE line.quantity - e.quantity
    <3>1. PICK k : k = line.quantity - e.quantity
      OBVIOUS
    <3>2. line.quantity \in Nat
      BY <1>6, <2>2, Facts DEF IsLine
    <3>3. k \in Int
      BY <1>3, <3>1, <3>2
    <3>4. Max({0, k}) = IF 0 <= k THEN k ELSE 0
      BY ONLY <3>3, MaxOfPair
    <3>5. drop = Max({0, k})
      BY <1>2, <2>2, <3>1 DEF Drop
    <3> QED
      BY <1>3, <3>1, <3>2, <3>4, <3>5
  <2>9. KeptAs(line, p, e, drop, new)
    BY ONLY IInv, <1>2, <1>3, <1>6, <2>2, <2>3, <2>8, KeptGood
  <2>4. /\ IsLine(new) /\ RowsGood(orders[line.order].factory, new, p)
        /\ new.order = line.order /\ SameGrain(new, e) /\ new.quantity = e.quantity
        /\ Reserved(line) \in Nat /\ Reserved(new) \in Nat
        /\ e.quantity > Reserved(line)
              => Reserved(new) + (e.quantity - Reserved(line)) = e.quantity
        /\ ~ (e.quantity > Reserved(line)) => Reserved(new) = e.quantity
        /\ \A r \in Release : Held(new, r) =
              IF r \in Active(line) THEN Held(line, r) - Taken(line, drop)[r] ELSE 0
        /\ \A r \in Active(line) :
              /\ Taken(line, drop)[r] \in Nat
              /\ e.quantity > Reserved(line) => Taken(line, drop)[r] = 0
    BY <2>9 DEF KeptAs
  <2>5. /\ l \in DOMAIN D <=> e.quantity > Reserved(line)
        /\ l \in DOMAIN D => D[l] = e.quantity - Reserved(line)
    BY <1>2, <2>1, <2>2 DEF ExtraDemand
  <2>6. l \in DOMAIN D => D[l] \in Nat \ {0}
    BY <1>3, <2>4, <2>5
  <2>7. line.order = o
    BY <2>3
  <2> QED
    BY <1>2, <1>3, <1>6, <2>2, <2>4, <2>5, <2>6, <2>7 DEF EditedAs
<1> QED
  BY <1>5, <1>6

\* What an edit plans to release of a release line; nothing, if no line loses any.
LEMMA PlannedTyped ==
    ASSUME IInv, NEW o \in Order, NEW T,
           \A l \in LinesOf(lines, o) : \A r \in Active(lines[l]) :
              l \in DOMAIN T => Taken(lines[l], Drop(T, l))[r] \in Nat,
           NEW r \in Release
    PROVE  /\ PlannedRelease(o, T)[r] \in Nat
           /\ (\A l \in LinesOf(lines, o) : ReleasedFrom(T, l, r) = 0)
                 => PlannedRelease(o, T)[r] = 0
<1>1. PICK h, S : S = LinesOf(lines, o) /\ h = [l \in S |-> ReleasedFrom(T, l, r)]
  OBVIOUS
<1>2. PlannedRelease(o, T)[r] = Sum(h, S)
  BY <1>1 DEF PlannedRelease
<1>3. IsFiniteSet(S)
  <2>1. S \subseteq DOMAIN lines
    BY <1>1 DEF LinesOf
  <2> QED
    BY <2>1, Facts, FS_Subset
<1>4. \A l \in S : h[l] \in Nat
  <2> SUFFICES ASSUME NEW l \in S PROVE h[l] \in Nat
    OBVIOUS
  <2>1. l \in DOMAIN lines /\ l \in LinesOf(lines, o)
    BY <1>1 DEF LinesOf
  <2>2. PICK line : line = lines[l]
    OBVIOUS
  <2>3. releases \in Seq(QaReleaseLine) /\ IsLine(line)
    BY <2>1, <2>2, Facts
  <2>4. \A s \in Active(line) : line.allocations[s].quantity \in Nat
    BY ONLY <2>3, LineTyped
  <2>5. ReleasedFrom(T, l, r) \in Nat
    BY <2>1, <2>2, <2>4 DEF ReleasedFrom
  <2> QED
    BY <1>1, <2>5
<1>5. Sum(h, S) \in Nat
  BY ONLY <1>3, <1>4, SumNat
<1>6. ASSUME \A l \in LinesOf(lines, o) : ReleasedFrom(T, l, r) = 0
      PROVE  Sum(h, S) = 0
  <2>1. \A l \in S : h[l] = 0
    BY <1>1, <1>6
  <2> QED
    BY ONLY <1>3, <2>1, SumZero
<1> QED
  BY <1>2, <1>5, <1>6

\* How an edit comes to the lines N: its lines L, what they still need, and the
\* reservation of that.
EditMade(o, E, T, L, D, planned, f, N) ==
    /\ Wanted(E) /\ Edits(o, E, T, L) /\ \A l \in DOMAIN T : EditedAs(o, T, L, D, l)
    /\ DOMAIN D \subseteq DOMAIN T
    /\ Request(L, D, planned) /\ Reserves(L, D, planned, f, N)

LEMMA EditIsMade ==
    ASSUME IInv, NEW o \in Order, NEW want \in Requests,
           NEW f, f = orders[o].factory, NEW E, E = Expand(f, want),
           NEW T, T = Targets(lines, o, E), NEW L, L = Edited(o, T),
           NEW D, D = ExtraDemand(o, T), NEW planned, planned = PlannedRelease(o, T),
           NEW N, N = Reserve(L, f, D, planned),
           EditAllowed(o, want, T), DOMAIN T \subseteq LineId, Sufficient(L, f, D, planned)
    PROVE  EditMade(o, E, T, L, D, planned, f, N)
<1>1. Wanted(E)
  <2>1. Splits(f, want)
    BY DEF EditAllowed
  <2> QED
    BY <2>1, ExpandGood
<1>2. \A l \in Kept(o, T) : T[l].quantity < lines[l].quantity
                              => T[l].quantity >= PhysicalPacked(cartons, l)
  BY DEF EditAllowed
<1>3. Edits(o, E, T, L)
  BY <1>1, <1>2, EditedGood
<1>4. \A l \in DOMAIN T : EditedAs(o, T, L, D, l)
  BY ONLY IInv, o \in Order, <1>1, <1>2, T = Targets(lines, o, E), L = Edited(o, T),
          D = ExtraDemand(o, T), EditedLines
<1>5. DOMAIN D \subseteq DOMAIN T
  BY DEF ExtraDemand
<1>6. /\ DOMAIN L = (DOMAIN lines \ Removed(o, T)) \cup DOMAIN T
      /\ \A l \in DOMAIN lines : lines[l].order # o => L[l] = lines[l]
  BY <1>3 DEF Edits
<1>7. \A l \in DOMAIN L : IsLine(L[l])
  <2> SUFFICES ASSUME NEW l \in DOMAIN L PROVE IsLine(L[l])
    OBVIOUS
  <2>1. CASE l \in DOMAIN T
    BY <1>4, <2>1 DEF EditedAs
  <2>2. CASE l \notin DOMAIN T
    <3>1. l \in DOMAIN lines /\ l \notin Removed(o, T)
      BY <1>6, <2>2
    <3>2. lines[l].order # o
      BY <2>2, <3>1 DEF Removed, LinesOf
    <3> QED
      BY <1>6, <3>1, <3>2, Facts
  <2> QED
    BY <2>1, <2>2
<1>8. IsFiniteSet(DOMAIN L)
  <2>1. DOMAIN L \subseteq LineId
    BY <1>6, Facts
  <2> QED
    BY <2>1, IdsFinite, FS_Subset
<1>9. \A r \in Release : planned[r] \in Nat
  <2>1. \A l \in LinesOf(lines, o) : \A r \in Active(lines[l]) :
           l \in DOMAIN T => Taken(lines[l], Drop(T, l))[r] \in Nat
    BY <1>4 DEF EditedAs, LinesOf
  <2> QED
    BY <2>1, PlannedTyped
<1>10. Request(L, D, planned)
  <2>1. \A l \in DOMAIN D : D[l] \in Nat \ {0}
    BY <1>4, <1>5 DEF EditedAs
  <2>2. DOMAIN D \subseteq DOMAIN L
    BY <1>5, <1>6
  <2> QED
    BY <1>7, <1>8, <1>9, <2>1, <2>2 DEF Request
<1>11. Reserves(L, D, planned, f, N)
  <2>1. releases \in Seq(QaReleaseLine)
    BY Facts
  <2> QED
    BY ONLY <1>10, <2>1, Sufficient(L, f, D, planned), N = Reserve(L, f, D, planned),
            ReserveGood
<1> QED
  BY <1>1, <1>3, <1>4, <1>5, <1>10, <1>11 DEF EditMade

\* The lines of an order after its edit.
AfterEdit(o, T, f, N) ==
    /\ DOMAIN N = (DOMAIN lines \ Removed(o, T)) \cup DOMAIN T
    /\ SameElsewhere(lines, N, o)
    /\ \A l \in LinesOf(N, o) : l \in DOMAIN T
    /\ \A l \in DOMAIN T :
          /\ IsLine(N[l]) /\ RowsGood(f, N[l], PhysicalPacked(cartons, l))
          /\ N[l].order = o /\ SameGrain(N[l], T[l]) /\ Reserved(N[l]) = N[l].quantity
    /\ \A k, l \in DOMAIN T : SameGrain(N[k], N[l]) => k = l

LEMMA LinesAfterEdit ==
    ASSUME IInv, NEW o \in Order, NEW f, f = orders[o].factory, NEW E, NEW T, NEW L, NEW D,
           NEW planned, NEW N, EditMade(o, E, T, L, D, planned, f, N)
    PROVE  AfterEdit(o, T, f, N)
<1>1. /\ DOMAIN D \subseteq DOMAIN T
      /\ \A l \in DOMAIN T : T[l] \in E
      /\ \A k, l \in DOMAIN T : T[k] = T[l] => k = l
      /\ DOMAIN L = (DOMAIN lines \ Removed(o, T)) \cup DOMAIN T
      /\ \A l \in DOMAIN lines : lines[l].order # o =>
            l \in DOMAIN L /\ l \notin DOMAIN T /\ L[l] = lines[l]
      /\ \A d, e \in E : d.dest = e.dest /\ d.item = e.item => d = e
      /\ DOMAIN N = DOMAIN L
      /\ \A l \in DOMAIN L \ DOMAIN D : N[l] = L[l]
  BY DEF EditMade, Edits, Reserves, Wanted
<1>2. ASSUME NEW l \in DOMAIN T
      PROVE  /\ IsLine(N[l]) /\ RowsGood(f, N[l], PhysicalPacked(cartons, l))
             /\ N[l].order = o /\ SameGrain(N[l], T[l]) /\ Reserved(N[l]) = N[l].quantity
  <2>1. PICK p, line, new, e : /\ p = PhysicalPacked(cartons, l) /\ line = L[l]
                               /\ new = N[l] /\ e = T[l]
    OBVIOUS
  <2>2. /\ IsLine(line) /\ RowsGood(f, line, p)
        /\ line.order = o /\ SameGrain(line, e) /\ line.quantity = e.quantity
        /\ Reserved(line) \in Nat /\ e.quantity \in Nat
        /\ l \in DOMAIN D => /\ D[l] \in Nat \ {0}
                             /\ Reserved(line) + D[l] = e.quantity
        /\ l \notin DOMAIN D => Reserved(line) = e.quantity
    BY <2>1 DEF EditMade, EditedAs
  <2>3. CASE l \notin DOMAIN D
    <3>1. new = line
      BY <1>1, <2>1, <2>3
    <3> QED
      BY <2>1, <2>2, <2>3, <3>1
  <2>4. CASE l \in DOMAIN D
    <3>1. /\ IsLine(new) /\ RowsGood(f, new, p)
          /\ new.order = line.order /\ new.dest = line.dest
          /\ new.item = line.item /\ new.quantity = line.quantity
          /\ Reserved(new) = Reserved(line) + D[l]
      BY <2>1, <2>2, <2>4 DEF EditMade, Reserves
    <3> QED
      BY <2>1, <2>2, <2>4, <3>1 DEF SameGrain
  <2> QED
    BY <2>3, <2>4
<1>3. \A l \in LinesOf(N, o) : l \in DOMAIN T
  <2> SUFFICES ASSUME NEW l \in DOMAIN N, N[l].order = o, l \notin DOMAIN T PROVE FALSE
    BY DEF LinesOf
  <2>1. l \in DOMAIN lines /\ l \notin Removed(o, T) /\ N[l] = L[l]
    BY <1>1
  <2>2. lines[l].order # o
    BY <2>1 DEF Removed, LinesOf
  <2> QED
    BY <1>1, <2>1, <2>2
<1>4. SameElsewhere(lines, N, o)
  <2>1. \A l \in DOMAIN lines : lines[l].order # o => l \in DOMAIN N /\ N[l] = lines[l]
    BY <1>1
  <2>2. ASSUME NEW l \in DOMAIN N, N[l].order # o
        PROVE  l \in DOMAIN lines /\ N[l] = lines[l]
    <3>1. l \notin DOMAIN T
      BY <1>2, <2>2
    <3>2. l \in DOMAIN lines /\ l \notin Removed(o, T)
      BY <1>1, <3>1
    <3>3. lines[l].order # o
      BY <3>1, <3>2 DEF Removed, LinesOf
    <3> QED
      BY <2>1, <3>2, <3>3
  <2> QED
    BY <2>1, <2>2 DEF SameElsewhere
<1>5. \A k, l \in DOMAIN T : SameGrain(N[k], N[l]) => k = l
  <2> SUFFICES ASSUME NEW k \in DOMAIN T, NEW l \in DOMAIN T, SameGrain(N[k], N[l])
               PROVE  k = l
    OBVIOUS
  <2>1. SameGrain(N[k], T[k]) /\ SameGrain(N[l], T[l])
    BY <1>2
  <2>2. T[k].dest = T[l].dest /\ T[k].item = T[l].item
    BY <2>1 DEF SameGrain
  <2> QED
    BY <1>1, <2>2
<1> QED
  BY <1>1, <1>2, <1>3, <1>4, <1>5 DEF AfterEdit

\* An edit that takes nothing back from a release line commits no more of it than is left.
LEMMA EditCommits ==
    ASSUME IInv, NEW o \in Order, NEW f, f = orders[o].factory, NEW E,
           NEW T, T = Targets(lines, o, E), NEW L, NEW D,
           NEW planned, planned = PlannedRelease(o, T),
           NEW N, N = Reserve(L, f, D, planned), Sufficient(L, f, D, planned),
           EditMade(o, E, T, L, D, planned, f, N),
           NEW r \in Release,
           \A l \in DOMAIN lines : l \in DOMAIN N /\ ~ (Held(N[l], r) < Held(lines[l], r))
    PROVE  /\ Committed(N, r) \in Nat
           /\ \/ Committed(N, r) <= Committed(lines, r)
              \/ Committed(N, r) <= releases[r].quantity
<1>1. /\ Request(L, D, planned) /\ DOMAIN D \subseteq DOMAIN T
      /\ \A l \in DOMAIN T : T[l] \in E
      /\ \A k, l \in DOMAIN T : T[k] = T[l] => k = l
      /\ DOMAIN L = (DOMAIN lines \ Removed(o, T)) \cup DOMAIN T
      /\ \A l \in DOMAIN lines : lines[l].order # o => L[l] = lines[l]
      /\ \A d, e \in E : d.dest = e.dest /\ d.item = e.item => d = e
      /\ DOMAIN N = DOMAIN L
      /\ \A l \in DOMAIN L \ DOMAIN D : N[l] = L[l]
      /\ \A l \in Kept(o, T) : lines[l].order = o
      /\ \A l : l \in Kept(o, T) <=> l \in DOMAIN T /\ l \in DOMAIN lines
  BY DEF EditMade, Edits, Reserves, Wanted
<1>2. \A l \in DOMAIN T :
         /\ IsLine(L[l]) /\ RowsGood(f, L[l], PhysicalPacked(cartons, l))
         /\ SameGrain(L[l], T[l])
         /\ l \notin DOMAIN lines => \A s \in Release : Held(L[l], s) = 0
         /\ l \in DOMAIN lines =>
               /\ \A s \in Release : Held(L[l], s) =
                     IF s \in Active(lines[l])
                     THEN Held(lines[l], s) - Taken(lines[l], Drop(T, l))[s] ELSE 0
               /\ \A s \in Active(lines[l]) :
                     /\ Taken(lines[l], Drop(T, l))[s] \in Nat
                     /\ l \in DOMAIN D => Taken(lines[l], Drop(T, l))[s] = 0
  BY DEF EditMade, EditedAs
<1>3. releases \in Seq(QaReleaseLine) /\ \A l \in DOMAIN lines : IsLine(lines[l])
  BY Facts
<1>4. \A l \in LinesOf(lines, o) : l \in DOMAIN T /\ l \in DOMAIN lines
  BY <1>1 DEF LinesOf, Removed
<1>5. ASSUME NEW l \in LinesOf(lines, o), r \in Active(lines[l])
      PROVE  Taken(lines[l], Drop(T, l))[r] = 0
  <2>1. PICK t, n : t = Taken(lines[l], Drop(T, l))[r] /\ n = Held(lines[l], r)
    OBVIOUS
  <2>2. t \in Nat /\ (l \in DOMAIN D => t = 0) /\ Held(L[l], r) = n - t
    BY <1>2, <1>4, <1>5, <2>1
  <2>3. n \in Nat
    BY <1>3, <1>4, <2>1, HeldTyped
  <2>4. l \notin DOMAIN D => Held(N[l], r) = n - t
    BY <1>1, <1>4, <2>2
  <2>5. ~ (Held(N[l], r) < n)
    BY <1>4, <2>1
  <2> QED
    BY <2>1, <2>2, <2>3, <2>4, <2>5
<1>6. planned[r] = 0
  <2>1. \A l \in LinesOf(lines, o) : \A s \in Active(lines[l]) :
           l \in DOMAIN T => Taken(lines[l], Drop(T, l))[s] \in Nat
    BY <1>2, <1>4
  <2>2. \A l \in LinesOf(lines, o) : ReleasedFrom(T, l, r) = 0
    BY <1>4, <1>5 DEF ReleasedFrom
  <2> QED
    BY <2>1, <2>2, PlannedTyped
<1>7. \A l \in DOMAIN lines : l \in DOMAIN L /\ Held(L[l], r) = Held(lines[l], r)
  <2> SUFFICES ASSUME NEW l \in DOMAIN lines
               PROVE  l \in DOMAIN L /\ Held(L[l], r) = Held(lines[l], r)
    OBVIOUS
  <2>1. l \in DOMAIN L
    BY <1>1
  <2>2. CASE lines[l].order # o
    BY <1>1, <2>1, <2>2
  <2>3. CASE lines[l].order = o
    <3>1. l \in LinesOf(lines, o)
      BY <2>3 DEF LinesOf
    <3>2. CASE r \in Active(lines[l])
      <4>1. Taken(lines[l], Drop(T, l))[r] = 0
        BY <1>5, <3>1, <3>2
      <4>2. Held(L[l], r) = Held(lines[l], r) - Taken(lines[l], Drop(T, l))[r]
        BY <1>2, <1>4, <3>1, <3>2
      <4>3. Held(lines[l], r) \in Nat
        BY <1>3, HeldTyped
      <4> QED
        BY <2>1, <4>1, <4>2, <4>3
    <3>3. CASE r \notin Active(lines[l])
      <4>1. Held(L[l], r) = 0
        BY <1>2, <1>4, <3>1, <3>3
      <4>2. Held(lines[l], r) = 0
        BY <3>3 DEF Held
      <4> QED
        BY <2>1, <4>1, <4>2
    <3> QED
      BY <3>2, <3>3
  <2> QED
    BY <2>2, <2>3
<1>8. Committed(L, r) = Committed(lines, r)
  <2>1. PICK B : B = lines
    OBVIOUS
  <2>2. /\ IsFiniteSet(DOMAIN L) /\ DOMAIN B \subseteq DOMAIN L
        /\ \A l \in DOMAIN B : IsLine(B[l]) /\ Held(L[l], r) = Held(B[l], r)
        /\ \A l \in DOMAIN L \ DOMAIN B : Held(L[l], r) = 0
    BY <1>1, <1>2, <1>3, <1>7, <2>1 DEF Request
  <2>3. Committed(L, r) = Committed(B, r)
    BY ONLY <1>3, <2>2, CommittedInPart
  <2> QED
    BY <2>1, <2>3
<1>9. /\ \A l \in DOMAIN D : \E p : RowsGood(f, L[l], p)
      /\ \A k, l \in DOMAIN D : L[k].item = L[l].item /\ L[k].dest = L[l].dest => k = l
  <2>1. \A l \in DOMAIN D : \E p : RowsGood(f, L[l], p)
    BY <1>1, <1>2
  <2>2. ASSUME NEW k \in DOMAIN D, NEW l \in DOMAIN D,
               L[k].item = L[l].item /\ L[k].dest = L[l].dest
        PROVE  k = l
    <3>1. k \in DOMAIN T /\ l \in DOMAIN T
      BY <1>1
    <3>2. T[k].dest = T[l].dest /\ T[k].item = T[l].item
      BY <1>2, <2>2, <3>1 DEF SameGrain
    <3> QED
      BY <1>1, <3>1, <3>2
  <2> QED
    BY <2>1, <2>2
<1>10. /\ Committed(L, r) \in Nat /\ Committed(N, r) \in Nat
       /\ \/ Committed(N, r) <= Committed(L, r)
          \/ Committed(N, r) <= releases[r].quantity + planned[r]
  <2>1. Request(L, D, planned)
    BY <1>1
  <2> QED
    BY ONLY <1>3, <1>9, <2>1, Sufficient(L, f, D, planned), N = Reserve(L, f, D, planned),
            r \in Release, TakenFromFree
<1>11. releases[r].quantity \in Nat
  BY <1>3, QuantityTyped
<1> QED
  BY <1>6, <1>8, <1>10, <1>11

\* An edit moves lines between destinations: the cartons of the lines that moved lose
\* their audit, and no other carton is changed.
LEMMA CartonsAfterEdit ==
    ASSUME IInv, NEW o \in Order, NEW T, NEW corrected, NEW N,
           \A c \in Touched(o, T, corrected) : cartons[c].version < MaxVersion,
           NEW C, C = Bumped(Touched(o, T, corrected)),
           ~ \E l \in Removed(o, T) : StillReferenced(l),
           \A l \in DOMAIN lines : lines[l].order # o => l \in DOMAIN N /\ N[l] = lines[l],
           \A l \in Kept(o, T) : l \in DOMAIN N /\ N[l].order = o /\ N[l].dest = T[l].dest
    PROVE  /\ DOMAIN C = DOMAIN cartons /\ SameElsewhere(cartons, C, o)
           /\ \A l : PhysicalPacked(C, l) = PhysicalPacked(cartons, l)
           /\ \A c \in DOMAIN cartons :
                 /\ C[c].order = cartons[c].order /\ C[c].dest = cartons[c].dest
                 /\ C[c].contents = cartons[c].contents /\ C[c].retired = cartons[c].retired
                 /\ DOMAIN C[c] = DOMAIN cartons[c] /\ C[c].weighed = cartons[c].weighed
                 /\ C[c].version \in 1 .. MaxVersion /\ C[c].audited \in 0 .. C[c].version
           /\ \A c \in CartonsOf(cartons, o) : \A l \in DOMAIN cartons[c].contents :
                 /\ l \in DOMAIN N /\ N[l].order = o
                 /\ ~ C[c].retired /\ C[c].audited = C[c].version => N[l].dest = C[c].dest
<1>1. PICK cs : cs = Touched(o, T, corrected)
  OBVIOUS
<1>2. /\ DOMAIN C = DOMAIN cartons
      /\ \A c \in DOMAIN cartons : C[c] = IF c \in cs THEN [cartons[c] EXCEPT !.version = @ + 1]
                                                      ELSE cartons[c]
  BY <1>1 DEF Bumped, Over, Touched, CartonsOf
<1>3. ASSUME NEW c \in DOMAIN cartons
      PROVE  /\ C[c].order = cartons[c].order /\ C[c].dest = cartons[c].dest
             /\ C[c].contents = cartons[c].contents /\ C[c].retired = cartons[c].retired
             /\ DOMAIN C[c] = DOMAIN cartons[c] /\ C[c].weighed = cartons[c].weighed
             /\ C[c].audited = cartons[c].audited
             /\ c \in cs => C[c].version = cartons[c].version + 1
             /\ C[c].version \in 1 .. MaxVersion /\ C[c].audited \in 0 .. C[c].version
             /\ c \in cs => C[c].audited # C[c].version
  <2>1. IsCarton(cartons[c]) /\ MaxVersion \in Nat
    BY Facts
  <2>2. DOMAIN cartons[c] = {"order", "dest", "contents", "weighed", "version",
                             "audited", "retired"}
    BY <2>1 DEF IsCarton
  <2>3. PICK v, a : v = cartons[c].version /\ a = cartons[c].audited
    OBVIOUS
  <2>4. v \in 1 .. MaxVersion /\ a \in 0 .. v
    BY <2>1, <2>3 DEF IsCarton
  <2>5. CASE c \notin cs
    BY <1>2, <2>3, <2>4, <2>5
  <2>6. CASE c \in cs
    <3>1. C[c] = [cartons[c] EXCEPT !.version = @ + 1]
      BY <1>2, <2>6
    <3>2. /\ C[c].order = cartons[c].order /\ C[c].dest = cartons[c].dest
          /\ C[c].contents = cartons[c].contents /\ C[c].retired = cartons[c].retired
          /\ DOMAIN C[c] = DOMAIN cartons[c] /\ C[c].weighed = cartons[c].weighed
          /\ C[c].audited = a /\ C[c].version = v + 1
      BY <2>2, <2>3, <3>1
    <3>3. v < MaxVersion
      BY <1>1, <2>3, <2>6
    <3>4. v + 1 \in 1 .. MaxVersion /\ a \in 0 .. v + 1 /\ a # v + 1
      BY <2>1, <2>4, <3>3
    <3> QED
      BY <2>3, <3>2, <3>4
  <2> QED
    BY <2>5, <2>6
<1>4. SameElsewhere(cartons, C, o)
  BY <1>1, <1>2, <1>3 DEF SameElsewhere, Touched, CartonsOf
<1>5. \A l : PhysicalPacked(C, l) = PhysicalPacked(cartons, l)
  <2>1. \A l : \A c \in DOMAIN cartons : InCarton(C[c], l) = InCarton(cartons[c], l)
    BY <1>3 DEF InCarton
  <2>2. \A l : [c \in DOMAIN C |-> InCarton(C[c], l)]
                  = [c \in DOMAIN cartons |-> InCarton(cartons[c], l)]
    BY <1>2, <2>1
  <2> QED
    BY <2>2 DEF PhysicalPacked
<1>6. ASSUME NEW c \in CartonsOf(cartons, o), NEW l \in DOMAIN cartons[c].contents
      PROVE  /\ l \in DOMAIN N /\ N[l].order = o
             /\ ~ C[c].retired /\ C[c].audited = C[c].version => N[l].dest = C[c].dest
  <2>1. c \in DOMAIN cartons /\ cartons[c].order = o
    BY DEF CartonsOf
  <2>2. l \in DOMAIN lines /\ lines[l].order = o
    BY <2>1, Facts
  <2>3. l \in Kept(o, T)
    BY <2>1, <2>2 DEF Kept, Removed, StillReferenced, LinesOf
  <2>4. ASSUME ~ C[c].retired, C[c].audited = C[c].version PROVE N[l].dest = C[c].dest
    <3>1. c \notin cs
      BY <1>3, <2>1, <2>4
    <3>2. ~ cartons[c].retired /\ cartons[c].audited = cartons[c].version
      BY <1>2, <2>1, <2>4, <3>1
    <3>3. lines[l].dest = cartons[c].dest
      BY <2>1, <3>2 DEF IInv, AuditedCartonMatches, Mismatched
    <3>4. l \notin Moved(o, T)
      BY <1>1, <3>1, <3>2 DEF Touched
    <3> QED
      BY <1>3, <2>1, <2>3, <3>3, <3>4 DEF Moved
  <2> QED
    BY <2>3, <2>4
<1> QED
  BY <1>2, <1>3, <1>4, <1>5, <1>6

LEMMA EditStep ==
    ASSUME IInv, NEW o \in Order, NEW want \in Requests, UpdateDispatchOrder(o, want)
    PROVE  /\ OrderStep(o) /\ CommitsNoMore
           /\ \A l \in LinesOf(lines', o) : Reserved(lines'[l]) = lines'[l].quantity
<1>1. PICK f, E, T, L, D, planned :
         /\ f = orders[o].factory /\ E = Expand(f, want) /\ T = Targets(lines, o, E)
         /\ L = Edited(o, T) /\ D = ExtraDemand(o, T) /\ planned = PlannedRelease(o, T)
  OBVIOUS
<1>2. /\ orders[o] # NoOrder /\ EditAllowed(o, want, T)
      /\ ~ \E l \in Removed(o, T) : StillReferenced(l)
      /\ DOMAIN T \subseteq LineId /\ Sufficient(L, f, D, planned)
      /\ lines' = Reserve(L, f, D, planned)
      /\ orders' = [orders EXCEPT ![o].dests = DestsOf(want)]
      /\ releases' = releases /\ dispatch' = dispatch /\ inspecting' = inspecting
  BY <1>1 DEF UpdateDispatchOrder
<1>3. PICK corrected :
         /\ \A c \in Touched(o, T, corrected) : cartons[c].version < MaxVersion
         /\ cartons' = Bumped(Touched(o, T, corrected))
  BY <1>1 DEF UpdateDispatchOrder
<1>4. PICK N, C : N = lines' /\ C = cartons'
  OBVIOUS
<1>5. EditMade(o, E, T, L, D, planned, f, N)
  <2>1. N = Reserve(L, f, D, planned)
    BY <1>2, <1>4
  <2> QED
    BY ONLY IInv, o \in Order, want \in Requests, <1>1, <1>2, <2>1, EditIsMade
<1>6. /\ DOMAIN N = (DOMAIN lines \ Removed(o, T)) \cup DOMAIN T
      /\ SameElsewhere(lines, N, o)
      /\ \A l \in LinesOf(N, o) : l \in DOMAIN T
      /\ \A l \in DOMAIN T :
            /\ IsLine(N[l]) /\ RowsGood(f, N[l], PhysicalPacked(cartons, l))
            /\ N[l].order = o /\ SameGrain(N[l], T[l]) /\ Reserved(N[l]) = N[l].quantity
      /\ \A k, l \in DOMAIN T : SameGrain(N[k], N[l]) => k = l
  <2>1. f = orders[o].factory
    BY <1>1
  <2>2. AfterEdit(o, T, f, N)
    BY ONLY IInv, o \in Order, <1>5, <2>1, LinesAfterEdit
  <2> QED
    BY <2>2 DEF AfterEdit
<1>7. /\ DOMAIN C = DOMAIN cartons /\ SameElsewhere(cartons, C, o)
      /\ \A l : PhysicalPacked(C, l) = PhysicalPacked(cartons, l)
      /\ \A c \in DOMAIN cartons :
            /\ C[c].order = cartons[c].order /\ C[c].dest = cartons[c].dest
            /\ C[c].contents = cartons[c].contents /\ C[c].retired = cartons[c].retired
            /\ DOMAIN C[c] = DOMAIN cartons[c] /\ C[c].weighed = cartons[c].weighed
            /\ C[c].version \in 1 .. MaxVersion /\ C[c].audited \in 0 .. C[c].version
      /\ \A c \in CartonsOf(cartons, o) : \A l \in DOMAIN cartons[c].contents :
            /\ l \in DOMAIN N /\ N[l].order = o
            /\ ~ C[c].retired /\ C[c].audited = C[c].version => N[l].dest = C[c].dest
  <2>1. \A l \in DOMAIN lines : lines[l].order # o => l \in DOMAIN N /\ N[l] = lines[l]
    BY <1>6 DEF SameElsewhere
  <2>2. \A l \in Kept(o, T) : l \in DOMAIN N /\ N[l].order = o /\ N[l].dest = T[l].dest
    BY <1>6 DEF Kept, SameGrain
  <2>3. C = Bumped(Touched(o, T, corrected))
    BY <1>3, <1>4
  <2>4. ~ \E l \in Removed(o, T) : StillReferenced(l)
    BY <1>2
  <2>5. \A c \in Touched(o, T, corrected) : cartons[c].version < MaxVersion
    BY <1>3
  <2> QED
    BY ONLY IInv, o \in Order, <2>1, <2>2, <2>3, <2>4, <2>5, CartonsAfterEdit
<1>8. /\ orders' \in [Order -> {NoOrder} \cup [factory: Factory, dests: SUBSET Dest]]
      /\ orders'[o].factory = f /\ orders'[o] # NoOrder
      /\ \A q \in Order \ {o} : orders'[q] = orders[q]
  <2>1. DestsOf(want) \subseteq Dest
    BY DestsAreTyped DEF DestsTyped
  <2>2. orders[o] \in [factory: Factory, dests: SUBSET Dest] /\ f \in Factory
    BY <1>1, <1>2, Facts
  <2>3. orders'[o] = [factory |-> f, dests |-> DestsOf(want)]
    BY <1>1, <1>2, <2>2, Facts
  <2>4. f # "none"
    BY <2>2, BoundsAssumption
  <2>5. orders'[o].factory = f /\ orders'[o] # NoOrder
    BY <2>3, <2>4 DEF NoOrder
  <2>6. \A q \in Order \ {o} : orders'[q] = orders[q]
    BY <1>2, Facts
  <2>7. orders' = [orders EXCEPT ![o] = [factory |-> f, dests |-> DestsOf(want)]]
    <3>1. PICK old, new : /\ old = orders[o] /\ new = [old EXCEPT !.dests = DestsOf(want)]
      OBVIOUS
    <3>2. new = [factory |-> f, dests |-> DestsOf(want)]
      BY <1>1, <2>2, <3>1
    <3>3. orders' = [orders EXCEPT ![o] = new]
      BY <1>2, <3>1
    <3> QED
      BY <3>2, <3>3
  <2> QED
    BY <2>1, <2>2, <2>5, <2>6, <2>7, Facts
<1>9. \A l \in LinesOf(lines', o) :
         /\ IsLine(lines'[l])
         /\ RowsGood(orders'[o].factory, lines'[l], PhysicalPacked(cartons', l))
         /\ Reserved(lines'[l]) \in {0, lines'[l].quantity}
         /\ Reserved(lines'[l]) = lines'[l].quantity
  BY <1>4, <1>6, <1>7, <1>8
<1>10. \A k, l \in LinesOf(lines', o) : SameGrain(lines'[k], lines'[l]) => k = l
  BY <1>4, <1>6
<1>11. \A c \in CartonsOf(cartons', o) : CartonGood(c)'
  <2> SUFFICES ASSUME NEW c \in CartonsOf(cartons', o) PROVE CartonGood(c)'
    OBVIOUS
  <2>1. c \in DOMAIN cartons /\ cartons'[c].order = o /\ cartons[c].order = o
        /\ cartons' = C
    BY <1>4, <1>7 DEF CartonsOf
  <2>2. IsCarton(cartons[c])
    BY <2>1, Facts
  <2>3. C[c].weighed \in BOOLEAN /\ C[c].retired \in BOOLEAN
    <3>1. cartons[c].weighed \in BOOLEAN /\ cartons[c].retired \in BOOLEAN
      BY <2>2 DEF IsCarton
    <3>2. C[c].weighed = cartons[c].weighed /\ C[c].retired = cartons[c].retired
      BY <1>7, <2>1
    <3> QED
      BY <3>1, <3>2, Zenon
  <2>4. /\ C[c].order = o /\ C[c].dest = cartons[c].dest
        /\ C[c].contents = cartons[c].contents
        /\ DOMAIN C[c] = DOMAIN cartons[c]
        /\ C[c].version \in 1 .. MaxVersion /\ C[c].audited \in 0 .. C[c].version
        /\ \A l \in DOMAIN cartons[c].contents :
              /\ l \in DOMAIN N /\ N[l].order = o
              /\ ~ C[c].retired /\ C[c].audited = C[c].version => N[l].dest = C[c].dest
    BY <1>7, <2>1 DEF CartonsOf
  <2>5. IsCarton(cartons[c])'
    <3>1. DOMAIN C[c].contents \subseteq DOMAIN lines'
      BY <1>4, <2>4
    <3>2. /\ cartons[c].dest \in Dest
          /\ \A l \in DOMAIN cartons[c].contents : cartons[c].contents[l] \in Nat \ {0}
          /\ DOMAIN cartons[c] = {"order", "dest", "contents", "weighed", "version",
                                  "audited", "retired"}
      BY <2>2 DEF IsCarton
    <3> QED
      BY <2>1, <2>3, <2>4, <3>1, <3>2 DEF IsCarton
  <2>6. \A l \in DOMAIN cartons'[c].contents : lines'[l].order = cartons'[c].order
    BY <1>4, <2>1, <2>4
  <2>7. (~ cartons[c].retired /\ cartons[c].audited = cartons[c].version => ~ Mismatched(c))'
    BY <1>4, <2>1, <2>4 DEF Mismatched
  <2> QED
    BY <2>5, <2>6, <2>7 DEF CartonGood
<1>12. ScreensOpen'
  BY <1>2, <1>4, <1>7 DEF IInv, ScreensOpen, NoScreen
<1>13. OrderStep(o)
  <2>1. ~ Locked(o)'
    BY <1>2 DEF Locked, EditAllowed
  <2>2. DOMAIN lines' \subseteq LineId /\ DOMAIN cartons' \subseteq CartonId
    BY <1>2, <1>4, <1>6, <1>7, Facts
  <2>3. SameElsewhere(lines, lines', o) /\ SameElsewhere(cartons, cartons', o)
    BY <1>4, <1>6, <1>7
  <2> QED
    BY <1>2, <1>8, <1>9, <1>10, <1>11, <1>12, <2>1, <2>2, <2>3, Facts DEF OrderStep
<1>14. CommitsNoMore
  <2>1. ASSUME NEW r \in Release,
               \A l \in DOMAIN lines : l \in DOMAIN N /\ ~ (Held(N[l], r) < Held(lines[l], r))
        PROVE  /\ Committed(N, r) \in Nat
               /\ \/ Committed(N, r) <= Committed(lines, r)
                  \/ Committed(N, r) <= releases[r].quantity
    <3>1. N = Reserve(L, f, D, planned) /\ Sufficient(L, f, D, planned)
      BY <1>2, <1>4
    <3> QED
      BY ONLY IInv, o \in Order, <1>1, <1>5, <2>1, <3>1, EditCommits
  <2> QED
    BY <1>4, <2>1, CommitsNoMoreThan
<1> QED
  BY <1>9, <1>13, <1>14

-----------------------------------------------------------------------------
(* The specification *)

LEMMA InitIInv == Init => IInv
<1> SUFFICES ASSUME Init PROVE IInv
  OBVIOUS
<1>1. /\ releases = <<>> /\ lines = <<>> /\ cartons = <<>>
      /\ orders = [o \in Order |-> NoOrder] /\ dispatch = [o \in Order |-> "none"]
      /\ inspecting = [i \in Inspector |-> NoScreen]
  BY DEF Init
<1>2. DOMAIN lines = {} /\ DOMAIN cartons = {} /\ releases \in Seq(QaReleaseLine)
  BY <1>1
<1>3. TypeOK
  <2>1. MaxCarton \in Nat /\ MaxVersion \in Nat
    BY BoundsAssumption
  <2>2. NoScreen \in [carton: 0 .. MaxCarton, version: 0 .. MaxVersion]
    BY <2>1 DEF NoScreen
  <2> QED
    BY <1>1, <1>2, <2>2 DEF TypeOK
<1>4. LinesGood /\ ContentsOfOrder /\ OneLinePerGrain /\ AuditedCartonMatches
  BY <1>2 DEF LinesGood, ContentsOfOrder, OneLinePerGrain, AuditedCartonMatches
<1>5. NothingWithoutOrder
  BY <1>1, <1>2 DEF NothingWithoutOrder, LinesOf, CartonsOf
<1>6. ScreensOpen
  BY <1>1 DEF ScreensOpen
<1>7. ReadyIsComplete
  BY <1>1 DEF ReadyIsComplete, Locked
<1> QED
  BY <1>3, <1>4, <1>5, <1>6, <1>7 DEF IInv

LEMMA MerchandiseStep ==
    ASSUME IInv, Merchandise
    PROVE  IInv' /\ CommitsNoMore
<1>1. PICK o \in Order, want \in Requests :
         \/ \E f \in Factory : CreateDispatchOrder(o, f, want)
         \/ UpdateDispatchOrder(o, want)
         \/ \E g \in Factory : ChangeFactory(o, g, want)
  BY DEF Merchandise
<1>2. OrderStep(o) /\ CommitsNoMore
  BY <1>1, CreateStep, EditStep, ChangeStep
<1> QED
  BY <1>2, OneOrderStep

LEMMA PackStep ==
    ASSUME IInv, Pack
    PROVE  IInv' /\ CommitsNoMore
<1>1. ASSUME NEW o \in Order, NEW d \in orders[o].dests, NEW weighed \in BOOLEAN,
             NEW contents \in Contents(o, d), AddFactoryPackingCarton(o, d, contents, weighed)
      PROVE  IInv' /\ CommitsNoMore
  BY <1>1, AddStep, OneOrderStep
<1>2. ASSUME NEW c \in DOMAIN cartons, NEW d \in orders[cartons[c].order].dests,
             NEW weighed \in BOOLEAN, NEW contents \in Contents(cartons[c].order, d),
             UpdateFactoryPackingCarton(c, d, contents, weighed)
      PROVE  IInv' /\ CommitsNoMore
  <2>1. OrderStep(cartons[c].order) /\ CommitsNoMore
    BY <1>2, UpdateStep
  <2> QED
    BY <2>1, OrderOfCarton, OneOrderStep
<1>3. ASSUME NEW c \in DOMAIN cartons, RemoveFactoryPackingCarton(c)
      PROVE  IInv' /\ CommitsNoMore
  BY <1>3, RemoveStep, OrderOfCarton, OneOrderStep
<1>4. ASSUME NEW o \in Order, DeleteFactoryDispatch(o) \/ FinalizeFactoryDispatch(o)
      PROVE  IInv' /\ CommitsNoMore
  BY <1>4, DeleteStep, FinalizeStep, OneOrderStep
<1> QED
  BY <1>1, <1>2, <1>3, <1>4 DEF Pack

LEMMA InspectStep ==
    ASSUME IInv, Inspect
    PROVE  IInv' /\ CommitsNoMore
<1>1. ASSUME NEW i \in Inspector, NEW c \in DOMAIN cartons,
             OpenCarton(i, c) \/ (CloseScreen(i) /\ c = inspecting[i].carton)
      PROVE  IInv' /\ CommitsNoMore
  BY <1>1, ScreenStep, OrderOfCarton, OneOrderStep
<1>2. ASSUME NEW i \in Inspector, ConfirmCartonPackingAudit(i)
      PROVE  IInv' /\ CommitsNoMore
  BY <1>2, ConfirmStep, OrderOfCarton, OneOrderStep
<1>3. ASSUME NEW i \in Inspector, CloseScreen(i)
      PROVE  IInv' /\ CommitsNoMore
  <2>1. inspecting[i].carton \in DOMAIN cartons
    BY <1>3 DEF CloseScreen, IInv, ScreensOpen
  <2> QED
    BY <1>1, <1>3, <2>1
<1> QED
  BY <1>1, <1>2, <1>3 DEF Inspect

LEMMA StutterStep ==
    ASSUME IInv, UNCHANGED vars
    PROVE  IInv' /\ CommitsNoMore
<1>1. /\ releases' = releases /\ orders' = orders /\ lines' = lines
      /\ dispatch' = dispatch /\ cartons' = cartons /\ inspecting' = inspecting
  BY DEF vars
<1>2. CommitsNoMore
  BY <1>1, CommitsTheSame
<1>3. TypeOK'
  BY <1>1 DEF IInv, TypeOK, IsLine, IsCarton, Allocated, Release, QaReleaseLine
<1>4. LinesGood' /\ NothingWithoutOrder' /\ ContentsOfOrder' /\ OneLinePerGrain' /\ ScreensOpen'
  BY <1>1 DEF IInv, LinesGood, RowsGood, NothingWithoutOrder, ContentsOfOrder, OneLinePerGrain,
              ScreensOpen, PoolOf, Release
<1>5. AuditedCartonMatches' /\ ReadyIsComplete'
  BY <1>1 DEF IInv, AuditedCartonMatches, ReadyIsComplete, Mismatched, Locked
<1> QED
  BY <1>2, <1>3, <1>4, <1>5 DEF IInv

\* The inductive step, and with it that no step but an edit that gives pieces back
\* commits a release line further than it reaches.
LEMMA NextIInv ==
    ASSUME IInv, [Next]_vars
    PROVE  IInv' /\ CommitsNoMore
<1>1. CASE Merchandise
  BY <1>1, MerchandiseStep
<1>2. CASE Pack
  BY <1>2, PackStep
<1>3. CASE Inspect
  BY <1>3, InspectStep
<1>4. CASE Produce
  BY <1>4, QaReleaseStep DEF Produce
<1>5. CASE UNCHANGED vars
  BY <1>5, StutterStep
<1> QED
  BY <1>1, <1>2, <1>3, <1>4, <1>5 DEF Next

THEOREM Invariance == Spec => []IInv
<1>1. IInv /\ [Next]_vars => IInv'
  BY NextIInv
<1> QED
  BY <1>1, InitIInv, PTL DEF Spec

\* The rows keep their types, and an order, a dispatch and a screen never refer to
\* what is not there, whatever is created, edited, packed and inspected.
THEOREM TypeCorrect == Spec => []TypeOK
  BY Invariance, PTL DEF IInv

\* The attribution of packed pieces to allocations always equals the cartons, row by
\* row: reconcileFactoryDispatchLineAttribution after a carton changes, and the edit
\* that takes pieces from allocations without asking the cartons.
THEOREM AttributionIsExact == Spec => []AttributionExact
<1>1. IInv => AttributionExact
  <2> SUFFICES ASSUME IInv PROVE AttributionExact
    OBVIOUS
  <2>1. \A l \in DOMAIN lines :
           RowsGood(orders[lines[l].order].factory, lines[l], PhysicalPacked(cartons, l))
    BY Facts
  <2>2. \A l \in DOMAIN lines : Attributed(lines[l]) = PhysicalPacked(cartons, l)
    BY <2>1 DEF RowsGood
  <2>3. \A l \in DOMAIN lines : \A r \in Allocated(lines[l]) :
           LET a == lines[l].allocations[r] IN
           a.packed <= IF a.active THEN a.quantity ELSE 0
    BY <2>1 DEF RowsGood
  <2> QED
    BY <2>2, <2>3 DEF AttributionExact, Consistent, LinesOf
<1> QED
  BY <1>1, Invariance, PTL

\* Goods in cartons are covered by reservations and no line is reserved beyond its
\* quantity (the releases of an edit stop at what is packed).
THEOREM PackedGoodsAreReserved == Spec => []PackedIsReserved
<1>1. IInv => PackedIsReserved
  <2> SUFFICES ASSUME IInv, NEW l \in DOMAIN lines
               PROVE  /\ PhysicalPacked(cartons, l) <= Reserved(lines[l])
                      /\ Reserved(lines[l]) <= lines[l].quantity
    BY DEF PackedIsReserved
  <2>1. PICK line, f, p : /\ line = lines[l] /\ p = PhysicalPacked(cartons, l)
                          /\ f = orders[lines[l].order].factory
    OBVIOUS
  <2>2. /\ releases \in Seq(QaReleaseLine) /\ IsLine(line) /\ RowsGood(f, line, p)
        /\ Reserved(line) \in {0, line.quantity}
    BY <2>1, Facts
  <2>3. line.quantity \in Nat \ {0} /\ Reserved(line) \in Nat /\ p <= Reserved(line)
    BY ONLY <2>2, LineTyped, AttributedIsReserved
  <2> QED
    BY <2>1, <2>2, <2>3
<1> QED
  BY <1>1, Invariance, PTL

\* Every reservation is of the order's own factory and the line's own item, also
\* after lines moved and the order went to another factory.
THEOREM ReservationsAreOfTheirPool == Spec => []ReservedFromItsPool
<1>1. IInv => ReservedFromItsPool
  BY Facts DEF ReservedFromItsPool, RowsGood
<1> QED
  BY <1>1, Invariance, PTL

\* A carton that counts as inspected holds lines of its own destination only: an
\* edit that moves a line bumps the version of its cartons.
THEOREM InspectedCartonsMatch == Spec => []AuditedCartonMatches
  BY Invariance, PTL DEF IInv

\* An order that is READY_FOR_ERVE is packed and reserved to the piece, every carton
\* weighed and inspected in its last version, from then on.
THEOREM ReadyOrdersAreComplete == Spec => []ReadyIsComplete
  BY Invariance, PTL DEF IInv

\* A new order and an edit within its factory leave every line of the order reserved
\* in full (the measure of what a line still needs, and reserveAcrossPools).
EditReservesInFull ==
    [][\A o \in Order, want \in Requests :
          (\E f \in Factory : CreateDispatchOrder(o, f, want)) \/ UpdateDispatchOrder(o, want)
            => \A l \in LinesOf(lines', o) : Reserved(lines'[l]) = lines'[l].quantity]_vars

\* For any number of orders, pools, sizes and destinations.
THEOREM EditsReserveInFull == Spec => EditReservesInFull
<1>1. IInv /\ [Next]_vars =>
        [\A o \in Order, want \in Requests :
            (\E f \in Factory : CreateDispatchOrder(o, f, want)) \/ UpdateDispatchOrder(o, want)
              => \A l \in LinesOf(lines', o) : Reserved(lines'[l]) = lines'[l].quantity]_vars
  BY CreateStep, EditStep
<1> QED
  BY <1>1, Invariance, PTL DEF Spec, EditReservesInFull

\* No step but an edit that gives pieces of a release line back commits more of it
\* than final inspection released (planPoolAllocation over the available pieces).
THEOREM OnlyReleasingEditsMay == Spec => OnlyReleasingEditsOverAllocate
<1>1. IInv /\ [Next]_vars =>
        [\A r \in Release :
            Committed(lines', r) > Max({releases[r].quantity, Committed(lines, r)})
              => \E l \in DOMAIN lines :
                    l \notin DOMAIN lines' \/ Held(lines'[l], r) < Held(lines[l], r)]_vars
  BY NextIInv DEF CommitsNoMore
<1> QED
  BY <1>1, Invariance, PTL DEF Spec, OnlyReleasingEditsOverAllocate

-----------------------------------------------------------------------------
(* PoolReservation *)

USE DEF InTransaction, Settled, Holder, Unread

Reserving == {"reading", "numbering", "writing"}

-----------------------------------------------------------------------------
(* Type correctness *)

LEMMA UnsentType == Unsent \in [key: Key, body: Body]
BY PoolAssumption DEF Unsent

LEMMA WantsType ==
    ASSUME ReservationTypeOK, NEW a \in Attempt
    PROVE  /\ KeyOf(a) \in Key
           /\ \A p \in Pool : Wants(a, p) \in Nat
           /\ Needs(a) \subseteq Pool
BY PoolAssumption DEF ReservationTypeOK, KeyOf, Wants, Needs

\* However a transaction ends, its locals and locks stay of their types.
LEMMA FinishType ==
    ASSUME ReservationTypeOK, NEW a \in Attempt, NEW outcome \in Settled, Finish(a, outcome)
    PROVE  /\ pc' \in [Attempt -> {"idle"} \cup InTransaction \cup Settled]
           /\ keyLock' \in [Key -> Holder] /\ poolLock' \in [Pool -> Holder]
           /\ sequenceLock' \in Holder
           /\ request' \in [Attempt -> [key: Key, body: Body]]
           /\ seen' \in [Attempt -> [Pool -> Int]]
           /\ number' \in [Attempt -> Nat]
BY DEF ReservationTypeOK, Finish

\* Every step, of a request or of its environment, keeps the types.
LEMMA TypeStep ==
    ASSUME ReservationTypeOK, [ReservationNext]_reservationVars
    PROVE  ReservationTypeOK'
<1> USE DEF ReservationTypeOK, database, locks, session
<1>1. ASSUME NEW a \in Attempt, NEW k \in Key, NEW b \in Body, Send(a, k, b)
      PROVE  ReservationTypeOK'
  BY <1>1 DEF Send, Advance
<1>2. ASSUME NEW a \in Attempt, LockKey(a)
      PROVE  ReservationTypeOK'
  BY <1>2, WantsType DEF LockKey, Advance
<1>3. ASSUME NEW a \in Attempt, FindRecord(a) \/ StartReading(a) \/ Plan(a)
      PROVE  ReservationTypeOK'
  BY <1>3 DEF FindRecord, StartReading, Plan, Advance
<1>4. ASSUME NEW a \in Attempt, Replay(a) \/ Refuse(a) \/ Abort(a)
      PROVE  ReservationTypeOK'
  <2>1. \E outcome \in Settled : Finish(a, outcome)
    BY <1>4 DEF Replay, Refuse, Abort
  <2>2. UNCHANGED database
    BY <1>4 DEF Replay, Refuse, Abort
  <2> QED
    BY <2>1, <2>2, FinishType
<1>5. ASSUME NEW a \in Attempt, LockPool(a)
      PROVE  ReservationTypeOK'
  BY <1>5 DEF LockPool, NextPools, Unlocked, Needs
<1>6. ASSUME NEW a \in Attempt, NEW p \in Pool, ReadPool(a, p)
      PROVE  ReservationTypeOK'
  <2>1. LeftIn(p) \in Int
    BY DEF LeftIn
  <2> QED
    BY <1>6, <2>1 DEF ReadPool
<1>7. ASSUME NEW a \in Attempt, AllocateSerial(a)
      PROVE  ReservationTypeOK'
  BY <1>7 DEF AllocateSerial, Advance
<1>8. ASSUME NEW a \in Attempt, Commit(a)
      PROVE  ReservationTypeOK'
  <2>1. taken' \in [Pool -> Nat] /\ record' \in [Key -> Holder] /\ serial' \in Nat
    BY <1>8, WantsType DEF Commit
  <2>2. Finish(a, "created") /\ released' = released
    BY <1>8 DEF Commit
  <2> QED
    BY <2>1, <2>2, FinishType
<1>9. ASSUME NEW p \in Pool, NEW n \in 1 .. MaxStock, ReleasePieces(p, n)
      PROVE  ReservationTypeOK'
  BY <1>9, PoolAssumption DEF ReleasePieces
<1>10. ASSUME NEW p \in Pool, NEW n \in 1 .. MaxStock, ReleaseAllocation(p, n)
       PROVE  ReservationTypeOK'
  BY <1>10, PoolAssumption DEF ReleaseAllocation
<1>11. CASE UNCHANGED reservationVars
  BY <1>11 DEF reservationVars
<1> QED
  BY <1>1, <1>2, <1>3, <1>4, <1>5, <1>6, <1>7, <1>8, <1>9, <1>10, <1>11
  DEF ReservationNext, Handle, Environment

\* Every variable keeps its type, whatever requests overlap and fail.
THEOREM ReservationTypeCorrect == ReservationSpec => []ReservationTypeOK
<1>1. ReservationInit => ReservationTypeOK
  BY PoolAssumption, UnsentType DEF ReservationInit, ReservationTypeOK
<1> QED
  BY <1>1, TypeStep, PTL DEF ReservationSpec

-----------------------------------------------------------------------------
(* The inductive invariant *)

\* A transaction past its key has the key's lock; past its pools, all of them.
LocksHeld ==
    /\ \A a \in Attempt :
          /\ pc[a] \in Reserving \cup {"keyed", "locking"} => keyLock[KeyOf(a)] = a
          /\ pc[a] \in Reserving => Unlocked(a) = {}
          /\ pc[a] = "writing" => sequenceLock = a
    /\ \A p \in Pool : poolLock[p] # NoAttempt =>
          pc[poolLock[p]] \in Reserving \cup {"locking"}

\* What a transaction read of a pool it holds can only have grown since, and
\* once it has planned it needs no more than it read.
ReadsStand ==
    \A a \in Attempt :
        /\ pc[a] \notin Reserving => \A p \in Pool : seen[a][p] = Unread
        /\ \A p \in Needs(a) : seen[a][p] <= LeftIn(p)
        /\ pc[a] \in {"numbering", "writing"} => Enough(a)

\* The committed record of a key is the request that created its order.
RecordsStand ==
    /\ \A a \in Attempt :
          /\ pc[a] \in Reserving \cup {"locking"} => record[KeyOf(a)] = NoAttempt
          /\ pc[a] = "created" => record[KeyOf(a)] = a
          /\ pc[a] = "replayed" => /\ record[KeyOf(a)] # NoAttempt
                                   /\ request[record[KeyOf(a)]] = request[a]
    /\ \A k \in Key : record[k] # NoAttempt =>
          pc[record[k]] = "created" /\ KeyOf(record[k]) = k

\* The serial being written is the next one, and only its holder has it.
SerialsStand ==
    /\ \A a \in Attempt : pc[a] = "writing" => number[a] = serial + 1
    /\ NumbersAreGapless

ReservationIInv ==
    /\ ReservationTypeOK /\ NoOverAllocation
    /\ LocksHeld /\ ReadsStand /\ RecordsStand /\ SerialsStand
    /\ PoolsLockedInOrder

-----------------------------------------------------------------------------
(* Its conjuncts, step by step *)

\* The locks: a request takes one only when it is free and drops all at its end.
LEMMA LocksStep ==
    ASSUME ReservationIInv, [ReservationNext]_reservationVars
    PROVE  LocksHeld'
<1> USE DEF ReservationIInv, ReservationTypeOK, LocksHeld, Reserving, KeyOf, Unlocked, Needs, Wants,
            database, locks, session
<1>1. ASSUME NEW a \in Attempt, NEW k \in Key, NEW b \in Body, Send(a, k, b)
      PROVE  LocksHeld'
  BY <1>1, PoolAssumption DEF Send, Advance
<1>2. ASSUME NEW a \in Attempt, LockKey(a)
      PROVE  LocksHeld'
  BY <1>2, PoolAssumption DEF LockKey, Advance
<1>3. ASSUME NEW a \in Attempt, FindRecord(a) \/ StartReading(a) \/ Plan(a)
      PROVE  LocksHeld'
  BY <1>3 DEF FindRecord, StartReading, Plan, Advance
<1>4. ASSUME NEW a \in Attempt, NEW outcome \in Settled, Finish(a, outcome)
      PROVE  LocksHeld'
  BY <1>4, PoolAssumption DEF Finish
<1>5. ASSUME NEW a \in Attempt, LockPool(a)
      PROVE  LocksHeld'
  BY <1>5, PoolAssumption DEF LockPool, NextPools
<1>6. ASSUME NEW a \in Attempt, NEW p \in Pool, ReadPool(a, p)
      PROVE  LocksHeld'
  BY <1>6 DEF ReadPool
<1>7. ASSUME NEW a \in Attempt, AllocateSerial(a)
      PROVE  LocksHeld'
  BY <1>7, PoolAssumption DEF AllocateSerial, Advance
<1>8. CASE Environment
  BY <1>8 DEF Environment, ReleasePieces, ReleaseAllocation
<1>9. CASE UNCHANGED reservationVars
  BY <1>9 DEF reservationVars
<1>10. ASSUME NEW a \in Attempt, Replay(a) \/ Refuse(a) \/ Commit(a) \/ Abort(a)
       PROVE  LocksHeld'
  <2>1. \E outcome \in Settled : Finish(a, outcome)
    BY <1>10 DEF Replay, Refuse, Commit, Abort
  <2> QED
    BY <2>1, <1>4
<1> QED
  BY <1>1, <1>2, <1>3, <1>4, <1>5, <1>6, <1>7, <1>8, <1>9, <1>10 DEF ReservationNext, Handle

\* The order of the locks: only the lowest missing pool is ever taken.
LEMMA LockOrderStep ==
    ASSUME ReservationIInv, [ReservationNext]_reservationVars
    PROVE  PoolsLockedInOrder'
<1> USE DEF ReservationIInv, ReservationTypeOK, LocksHeld, PoolsLockedInOrder, Reserving, Unlocked, Needs,
            Wants, database, locks, session
<1>1. ASSUME NEW a \in Attempt, NEW k \in Key, NEW b \in Body, Send(a, k, b)
      PROVE  PoolsLockedInOrder'
  BY <1>1 DEF Send, Advance
<1>2. ASSUME NEW a \in Attempt, LockKey(a) \/ StartReading(a) \/ Plan(a) \/ AllocateSerial(a)
      PROVE  PoolsLockedInOrder'
  <2>1. UNCHANGED <<poolLock, request>>
    BY <1>2 DEF LockKey, StartReading, Plan, AllocateSerial
  <2>2. \E step \in {"keyed", "reading", "numbering", "writing"} : pc' = [pc EXCEPT ![a] = step]
    BY <1>2 DEF LockKey, StartReading, Plan, AllocateSerial, Advance
  <2>3. \A b \in Attempt : pc'[b] = "locking" => pc[b] = "locking"
    BY <2>2
  <2> QED
    BY <2>1, <2>3
<1>3. ASSUME NEW a \in Attempt, FindRecord(a)
      PROVE  PoolsLockedInOrder'
  <2>1. pc[a] = "keyed" /\ pc' = [pc EXCEPT ![a] = "locking"]
    BY <1>3 DEF FindRecord, Advance
  <2>2. UNCHANGED <<poolLock, request>>
    BY <1>3 DEF FindRecord
  <2>3. ASSUME NEW p \in Pool, poolLock[p] = a
        PROVE  FALSE
    <3>1. poolLock[p] # NoAttempt
      BY <2>3, PoolAssumption
    <3>2. pc[a] \in Reserving \cup {"locking"}
      BY <2>3, <3>1 DEF LocksHeld
    <3> QED
      BY <2>1, <3>2
  <2>4. SUFFICES ASSUME NEW b \in Attempt, pc'[b] = "locking",
                         NEW held \in Needs(b)' \ Unlocked(b)', NEW p \in Unlocked(b)'
                  PROVE  held < p
    BY DEF PoolsLockedInOrder
  <2>5. CASE b = a
    BY <2>2, <2>3, <2>4, <2>5
  <2>6. CASE b # a
    <3>1. pc[b] = "locking"
      BY <2>1, <2>4, <2>6
    <3>2. held \in Needs(b) \ Unlocked(b) /\ p \in Unlocked(b)
      BY <2>2, <2>4
    <3> QED
      BY <3>1, <3>2
  <2> QED
    BY <2>5, <2>6
<1>4. ASSUME NEW a \in Attempt, NEW outcome \in Settled, Finish(a, outcome)
      PROVE  PoolsLockedInOrder'
  BY <1>4, PoolAssumption DEF Finish
<1>5. ASSUME NEW a \in Attempt, LockPool(a)
      PROVE  PoolsLockedInOrder'
  <2>1. PICK p \in NextPools(a) : /\ poolLock[p] = NoAttempt
                                  /\ poolLock' = [poolLock EXCEPT ![p] = a]
    BY <1>5 DEF LockPool
  <2>2. p \in Unlocked(a) /\ \A q \in Unlocked(a) : p <= q
    BY <2>1 DEF NextPools
  <2>3. UNCHANGED <<pc, request>> /\ pc[a] = "locking"
    BY <1>5 DEF LockPool
  <2>4. Unlocked(a)' = Unlocked(a) \ {p} /\ Needs(a)' = Needs(a)
    BY <2>1, <2>2, <2>3
  <2>5. \A q \in Unlocked(a) \ {p} : p < q
    BY <2>2, PoolAssumption
  <2>6. \A held \in Needs(a)' \ Unlocked(a)', q \in Unlocked(a)' : held < q
    BY <2>2, <2>3, <2>4, <2>5
  <2>7. ASSUME NEW b \in Attempt, b # a
        PROVE  Unlocked(b)' = Unlocked(b) /\ Needs(b)' = Needs(b)
    BY <2>1, <2>2, <2>3, <2>7, PoolAssumption
  <2> QED
    BY <2>3, <2>6, <2>7
<1>6. ASSUME NEW a \in Attempt, NEW p \in Pool, ReadPool(a, p)
      PROVE  PoolsLockedInOrder'
  BY <1>6 DEF ReadPool
<1>8. CASE Environment
  BY <1>8 DEF Environment, ReleasePieces, ReleaseAllocation
<1>9. CASE UNCHANGED reservationVars
  BY <1>9 DEF reservationVars
<1>10. ASSUME NEW a \in Attempt, Replay(a) \/ Refuse(a) \/ Commit(a) \/ Abort(a)
       PROVE  PoolsLockedInOrder'
  <2>1. \E outcome \in Settled : Finish(a, outcome)
    BY <1>10 DEF Replay, Refuse, Commit, Abort
  <2> QED
    BY <2>1, <1>4
<1> QED
  BY <1>1, <1>2, <1>3, <1>4, <1>5, <1>6, <1>8, <1>9, <1>10 DEF ReservationNext, Handle

\* A transaction about to commit finds what it planned from: PlannedStockIsThere.
LEMMA PlanStands ==
    ASSUME ReservationIInv, NEW a \in Attempt, pc[a] \in {"numbering", "writing"}, NEW p \in Pool
    PROVE  Wants(a, p) <= LeftIn(p)
<1>1. Wants(a, p) \in Nat /\ LeftIn(p) \in Nat
  BY WantsType DEF ReservationIInv, ReservationTypeOK, NoOverAllocation, LeftIn
<1>2. CASE p \in Needs(a)
  <2>1. Wants(a, p) <= seen[a][p] /\ seen[a][p] <= LeftIn(p)
    BY <1>2 DEF ReservationIInv, ReadsStand, Enough
  <2>2. seen[a][p] \in Int
    BY DEF ReservationIInv, ReservationTypeOK
  <2> QED
    BY <1>1, <2>1, <2>2
<1>3. CASE p \notin Needs(a)
  BY <1>1, <1>3 DEF Needs
<1> QED
  BY <1>2, <1>3

\* Releases and edits that give up stock only ever leave more of a pool.
LEMMA EnvironmentGrowsPools ==
    ASSUME ReservationTypeOK, Environment
    PROVE  /\ UNCHANGED <<record, serial, locks, session>>
           /\ \A p \in Pool : /\ released[p] <= released'[p] /\ taken'[p] <= taken[p]
                              /\ released'[p] \in Nat /\ taken'[p] \in Nat
<1> USE DEF ReservationTypeOK
<1>1. ASSUME NEW p \in Pool, NEW n \in 1 .. MaxStock, ReleasePieces(p, n)
      PROVE  \A q \in Pool : /\ released[q] <= released'[q] /\ taken'[q] = taken[q]
                             /\ released'[q] \in Nat
  <2>1. n \in Nat
    BY PoolAssumption
  <2> QED
    BY <1>1, <2>1 DEF ReleasePieces
<1>2. ASSUME NEW p \in Pool, NEW n \in 1 .. MaxStock, ReleaseAllocation(p, n)
      PROVE  \A q \in Pool : /\ released[q] = released'[q] /\ taken'[q] <= taken[q]
                             /\ taken'[q] \in Nat
  <2>1. n \in Nat
    BY PoolAssumption
  <2> QED
    BY <1>2, <2>1 DEF ReleaseAllocation
<1>3. UNCHANGED <<record, serial, locks, session>>
  BY DEF Environment, ReleasePieces, ReleaseAllocation
<1> QED
  BY <1>1, <1>2, <1>3 DEF Environment

\* The stock: only a commit takes any, and no more than is left.
LEMMA StockStep ==
    ASSUME ReservationIInv, [ReservationNext]_reservationVars
    PROVE  NoOverAllocation'
<1> USE DEF NoOverAllocation
<1>1. ASSUME NEW a \in Attempt, Commit(a)
      PROVE  NoOverAllocation'
  <2>1. pc[a] = "writing" /\ UNCHANGED released
        /\ taken' = [p \in Pool |-> taken[p] + Wants(a, p)]
    BY <1>1 DEF Commit
  <2>2. \A p \in Pool : Wants(a, p) \in Nat /\ Wants(a, p) <= LeftIn(p)
    BY <2>1, PlanStands, WantsType DEF ReservationIInv
  <2> QED
    BY <2>1, <2>2 DEF ReservationIInv, ReservationTypeOK, LeftIn
<1>2. CASE Environment
  BY <1>2, EnvironmentGrowsPools DEF ReservationIInv, ReservationTypeOK
<1>3. CASE UNCHANGED <<released, taken>>
  BY <1>3 DEF ReservationIInv
<1>4. ASSUME NEW a \in Attempt, NEW k \in Key, NEW b \in Body, Send(a, k, b)
      PROVE  UNCHANGED <<released, taken>>
  BY <1>4 DEF Send, database
<1>5. ASSUME NEW a \in Attempt, Handle(a) \/ Abort(a), ~ Commit(a)
      PROVE  UNCHANGED <<released, taken>>
  BY <1>5 DEF Handle, LockKey, FindRecord, Replay, LockPool, StartReading, ReadPool,
              Plan, Refuse, AllocateSerial, Abort, database
<1>6. CASE UNCHANGED reservationVars
  BY <1>6, <1>3 DEF reservationVars, database
<1> QED
  BY <1>1, <1>2, <1>3, <1>4, <1>5, <1>6 DEF ReservationNext, Handle

\* A pool has one holder, and a transaction that reads or plans holds its pools.
LEMMA OneHolder ==
    ASSUME ReservationIInv, NEW a \in Attempt, NEW b \in Attempt, NEW p \in Needs(a) \cap Needs(b),
           pc[a] \in Reserving, pc[b] \in Reserving
    PROVE  a = b
BY DEF ReservationIInv, LocksHeld, Unlocked

\* The reads: what a transaction has read of its pools stays available, for
\* nobody else can take from a pool it holds.
LEMMA ReadsStep ==
    ASSUME ReservationIInv, [ReservationNext]_reservationVars
    PROVE  ReadsStand'
<1> USE DEF ReadsStand, Reserving, Enough, Needs, Wants
<1>0. ReservationTypeOK /\ ReservationTypeOK' /\ NoOverAllocation' /\ ReadsStand
  BY TypeStep, StockStep DEF ReservationIInv
<1>1. ASSUME NEW a \in Attempt, NEW outcome \in Settled, Finish(a, outcome),
             \A b \in Attempt : b # a => \A p \in Needs(b) : seen[b][p] <= LeftIn(p)'
      PROVE  ReadsStand'
  <2>1. pc' = [pc EXCEPT ![a] = outcome] /\ UNCHANGED request
        /\ seen' = [seen EXCEPT ![a] = [p \in Pool |-> Unread]]
    BY <1>1 DEF Finish
  <2>2. \A p \in Pool : Unread <= LeftIn(p)'
    BY <1>0 DEF ReservationTypeOK, NoOverAllocation, LeftIn
  <2>3. \A p \in Pool : seen'[a][p] = Unread
    BY <1>0, <2>1 DEF ReservationTypeOK
  <2>4. pc'[a] = outcome /\ pc'[a] \notin Reserving
    BY <1>0, <2>1 DEF ReservationTypeOK
  <2>5. ASSUME NEW b \in Attempt, b # a
        PROVE  pc'[b] = pc[b] /\ seen'[b] = seen[b]
    BY <1>0, <2>1, <2>5 DEF ReservationTypeOK
  <2> QED
    BY <1>0, <1>1, <2>1, <2>2, <2>3, <2>4, <2>5
<1>2. ASSUME NEW a \in Attempt, Replay(a) \/ Refuse(a) \/ Abort(a)
      PROVE  ReadsStand'
  <2>1. \E outcome \in Settled : Finish(a, outcome)
    BY <1>2 DEF Replay, Refuse, Abort
  <2>2. \A p \in Pool : LeftIn(p)' = LeftIn(p)
    BY <1>2 DEF Replay, Refuse, Abort, database, LeftIn
  <2> QED
    BY <1>0, <1>1, <2>1, <2>2
<1>3. ASSUME NEW a \in Attempt, Commit(a)
      PROVE  ReadsStand'
  <2>1. pc[a] = "writing" /\ UNCHANGED released /\ Finish(a, "created")
        /\ taken' = [p \in Pool |-> taken[p] + Wants(a, p)]
    BY <1>3 DEF Commit
  <2>2. ASSUME NEW b \in Attempt, b # a, NEW p \in Needs(b)
        PROVE  seen[b][p] <= LeftIn(p)'
    <3>1. CASE pc[b] \in Reserving
      <4>1. p \notin Needs(a)
        BY <2>1, <2>2, <3>1, OneHolder
      <4>2. Wants(a, p) = 0
        BY <4>1, <1>0, WantsType
      <4> QED
        BY <1>0, <2>1, <4>2 DEF LeftIn, ReservationTypeOK
    <3>2. CASE pc[b] \notin Reserving
      BY <1>0, <3>2 DEF LeftIn, ReservationTypeOK, NoOverAllocation
    <3> QED
      BY <3>1, <3>2
  <2> QED
    BY <1>1, <2>1, <2>2
<1>4. ASSUME NEW a \in Attempt, NEW k \in Key, NEW b \in Body, Send(a, k, b)
      PROVE  ReadsStand'
  <2>1. \A p \in Pool : LeftIn(p)' = LeftIn(p) /\ Unread <= LeftIn(p)
    BY <1>0, <1>4 DEF Send, database, LeftIn, ReservationTypeOK, NoOverAllocation
  <2>2. /\ pc[a] = "idle" /\ pc' = [pc EXCEPT ![a] = "opened"] /\ UNCHANGED seen
        /\ request' = [request EXCEPT ![a] = [key |-> k, body |-> b]]
    BY <1>4 DEF Send, Advance
  <2> QED
    BY <1>0, <2>1, <2>2 DEF ReservationTypeOK
<1>5. ASSUME NEW a \in Attempt, LockKey(a) \/ FindRecord(a) \/ LockPool(a)
                                \/ StartReading(a) \/ Plan(a) \/ AllocateSerial(a)
      PROVE  ReadsStand'
  <2>1. \A p \in Pool : LeftIn(p)' = LeftIn(p)
    BY <1>5 DEF LockKey, FindRecord, LockPool, StartReading, Plan, AllocateSerial,
                database, LeftIn
  <2>2. UNCHANGED <<request, seen>>
    BY <1>5 DEF LockKey, FindRecord, LockPool, StartReading, Plan, AllocateSerial, session
  <2>3. /\ \A b \in Attempt : pc'[b] \notin Reserving => pc[b] \notin Reserving
        /\ \A b \in Attempt : pc'[b] \in {"numbering", "writing"} =>
              pc[b] \in {"numbering", "writing"} \/ Enough(b)
    BY <1>0, <1>5 DEF LockKey, FindRecord, LockPool, StartReading, Plan, AllocateSerial,
                      session, Advance, ReservationTypeOK
  <2> QED
    BY <1>0, <2>1, <2>2, <2>3
<1>6. ASSUME NEW a \in Attempt, NEW p \in Pool, ReadPool(a, p)
      PROVE  ReadsStand'
  <2>1. \A q \in Pool : LeftIn(q)' = LeftIn(q) /\ LeftIn(q) \in Int
    BY <1>0, <1>6 DEF ReadPool, database, LeftIn, ReservationTypeOK
  <2> QED
    BY <1>0, <1>6, <2>1 DEF ReadPool, ReservationTypeOK
<1>7. CASE Environment
  <2>1. \A p \in Pool : LeftIn(p) <= LeftIn(p)' /\ LeftIn(p) \in Int
                        /\ LeftIn(p)' \in Int
    BY <1>0, <1>7, EnvironmentGrowsPools DEF ReservationTypeOK, LeftIn
  <2>2. UNCHANGED session
    BY <1>0, <1>7, EnvironmentGrowsPools
  <2> QED
    BY <1>0, <2>1, <2>2 DEF session, ReservationTypeOK
<1>8. CASE UNCHANGED reservationVars
  BY <1>0, <1>8 DEF reservationVars, database, session, LeftIn
<1> QED
  BY <1>2, <1>3, <1>4, <1>5, <1>6, <1>7, <1>8 DEF ReservationNext, Handle

\* The records: two transactions with one key never run side by side, so the
\* record a commit writes is the first of its key.
LEMMA RecordsStep ==
    ASSUME ReservationIInv, [ReservationNext]_reservationVars
    PROVE  RecordsStand'
<1> USE DEF RecordsStand, Reserving, KeyOf
<1>0. ReservationTypeOK /\ ReservationTypeOK' /\ RecordsStand /\ LocksHeld
  BY TypeStep DEF ReservationIInv
<1>1. ASSUME NEW a \in Attempt, Replay(a) \/ Refuse(a) \/ Abort(a)
      PROVE  RecordsStand'
  <2>1. UNCHANGED <<record, request>>
    BY <1>1 DEF Replay, Refuse, Abort, Finish, database
  <2>2. PICK outcome \in {"replayed", "refused", "failed"} :
            /\ pc' = [pc EXCEPT ![a] = outcome]
            /\ outcome = "replayed" => /\ record[KeyOf(a)] # NoAttempt
                                       /\ request[record[KeyOf(a)]].body = request[a].body
    BY <1>1 DEF Replay, Refuse, Abort, Finish
  <2>3. pc[a] \in InTransaction
    BY <1>1 DEF Replay, Refuse, Abort
  <2>4. ASSUME outcome = "replayed"
        PROVE  request[record[KeyOf(a)]] = request[a]
    <3>1. PICK first \in Attempt : first = record[KeyOf(a)]
      BY <1>0, <2>2, <2>4 DEF ReservationTypeOK
    <3>2. request[first].key = request[a].key /\ request[first].body = request[a].body
      BY <1>0, <2>2, <2>4, <3>1 DEF ReservationTypeOK
    <3>3. /\ request[first] = [key |-> request[first].key, body |-> request[first].body]
          /\ request[a] = [key |-> request[a].key, body |-> request[a].body]
      BY <1>0 DEF ReservationTypeOK
    <3> QED
      BY <3>1, <3>2, <3>3
  <2>5. \A b \in Attempt : b # a => pc'[b] = pc[b]
    BY <1>0, <2>2 DEF ReservationTypeOK
  <2>6. pc'[a] = outcome /\ pc[a] # "created"
    BY <1>0, <2>2, <2>3 DEF ReservationTypeOK
  <2>7. \A b \in Attempt :
          /\ pc'[b] \in Reserving \cup {"locking"} => record'[KeyOf(b)] = NoAttempt
          /\ pc'[b] = "created" => record'[KeyOf(b)] = b
          /\ pc'[b] = "replayed" => /\ record'[KeyOf(b)] # NoAttempt
                                    /\ request'[record'[KeyOf(b)]] = request'[b]
    BY <1>0, <2>1, <2>2, <2>4, <2>5, <2>6
  <2>8. \A k \in Key : record[k] # NoAttempt => record[k] # a
    BY <1>0, <2>6
  <2>9. \A k \in Key : record[k] # NoAttempt =>
          pc'[record[k]] = "created" /\ KeyOf(record[k]) = k
    BY <1>0, <2>5, <2>8 DEF ReservationTypeOK
  <2> QED
    BY <2>1, <2>7, <2>9
<1>2. ASSUME NEW a \in Attempt, Commit(a)
      PROVE  RecordsStand'
  <2>1. /\ pc[a] = "writing" /\ pc' = [pc EXCEPT ![a] = "created"]
        /\ record' = [record EXCEPT ![KeyOf(a)] = a] /\ UNCHANGED request
    BY <1>2 DEF Commit, Finish
  <2>2. record[KeyOf(a)] = NoAttempt
    BY <1>0, <2>1
  <2>3. ASSUME NEW b \in Attempt, b # a, KeyOf(b) = KeyOf(a)
        PROVE  pc[b] \notin Reserving \cup {"locking", "created", "replayed"}
    BY <1>0, <2>1, <2>2, <2>3, PoolAssumption DEF LocksHeld
  <2> QED
    BY <1>0, <2>1, <2>2, <2>3, PoolAssumption DEF ReservationTypeOK
<1>3. ASSUME NEW a \in Attempt, NEW k \in Key, NEW b \in Body, Send(a, k, b)
      PROVE  RecordsStand'
  <2>1. /\ pc[a] = "idle" /\ pc' = [pc EXCEPT ![a] = "opened"] /\ UNCHANGED record
        /\ request' = [request EXCEPT ![a] = [key |-> k, body |-> b]]
    BY <1>3 DEF Send, Advance, database
  <2> QED
    BY <1>0, <2>1 DEF ReservationTypeOK
<1>4. ASSUME NEW a \in Attempt, FindRecord(a)
      PROVE  RecordsStand'
  BY <1>0, <1>4 DEF FindRecord, Advance, database, ReservationTypeOK
<1>5. ASSUME NEW a \in Attempt, LockKey(a) \/ LockPool(a) \/ StartReading(a) \/ Plan(a)
                                \/ AllocateSerial(a) \/ \E p \in Pool : ReadPool(a, p)
      PROVE  RecordsStand'
  <2>1. UNCHANGED <<record, request>>
    BY <1>5 DEF LockKey, LockPool, StartReading, ReadPool, Plan, AllocateSerial,
                database, session
  <2>2. \/ UNCHANGED pc
        \/ /\ pc[a] = "opened" /\ pc' = [pc EXCEPT ![a] = "keyed"]
        \/ /\ pc[a] \in Reserving \cup {"locking"}
           /\ \E step \in Reserving : pc' = [pc EXCEPT ![a] = step]
    BY <1>5 DEF LockKey, LockPool, StartReading, ReadPool, Plan, AllocateSerial,
                Advance, session
  <2> QED
    BY <1>0, <2>1, <2>2 DEF ReservationTypeOK
<1>6. CASE Environment
  BY <1>0, <1>6, EnvironmentGrowsPools DEF session
<1>7. CASE UNCHANGED reservationVars
  BY <1>0, <1>7 DEF reservationVars, database, session
<1> QED
  BY <1>1, <1>2, <1>3, <1>4, <1>5, <1>6, <1>7 DEF ReservationNext, Handle

\* The serials: the holder of the sequence is the only one that commits, and
\* commits the number after the last committed one.
LEMMA SerialsStep ==
    ASSUME ReservationIInv, [ReservationNext]_reservationVars
    PROVE  SerialsStand'
<1> USE DEF SerialsStand, NumbersAreGapless
<1>0. ReservationTypeOK /\ SerialsStand /\ LocksHeld
  BY DEF ReservationIInv
<1>1. ASSUME NEW a \in Attempt, Replay(a) \/ Refuse(a) \/ Abort(a)
      PROVE  SerialsStand'
  <2>1. UNCHANGED serial /\ pc[a] \in InTransaction
    BY <1>1 DEF Replay, Refuse, Abort, database
  <2>2. PICK outcome \in {"replayed", "refused", "failed"} :
            /\ pc' = [pc EXCEPT ![a] = outcome]
            /\ number' = [number EXCEPT ![a] = 0]
    BY <1>1 DEF Replay, Refuse, Abort, Finish
  <2>3. \A b \in Attempt : /\ pc'[b] = "created" <=> pc[b] = "created"
                           /\ pc'[b] \in {"created", "writing"} =>
                                 pc'[b] = pc[b] /\ number'[b] = number[b]
    BY <1>0, <2>1, <2>2 DEF ReservationTypeOK
  <2> QED
    BY <1>0, <2>1, <2>3
<1>2. ASSUME NEW a \in Attempt, Commit(a)
      PROVE  SerialsStand'
  <2>1. /\ pc[a] = "writing" /\ pc' = [pc EXCEPT ![a] = "created"]
        /\ serial' = number[a] /\ number[a] = serial + 1
        /\ number' = number
    BY <1>0, <1>2 DEF Commit, Finish, ReservationTypeOK
  <2>2. ASSUME NEW b \in Attempt, pc'[b] = "writing"
        PROVE  FALSE
    <3>1. b # a /\ pc[b] = "writing"
      BY <1>0, <2>1, <2>2 DEF ReservationTypeOK
    <3> QED
      BY <1>0, <2>1, <3>1 DEF LocksHeld
  <2>3. {b \in Attempt : pc'[b] = "created"} = {b \in Attempt : pc[b] = "created"} \cup {a}
    BY <1>0, <2>1 DEF ReservationTypeOK
  <2>4. {number'[b] : b \in {b \in Attempt : pc'[b] = "created"}}
           = {number[b] : b \in {b \in Attempt : pc[b] = "created"}} \cup {serial + 1}
    BY <2>1, <2>3
  <2>5. (1 .. serial') = (1 .. serial) \cup {serial + 1}
    <3>1. serial \in Nat /\ serial' = serial + 1
      BY <1>0, <2>1 DEF ReservationTypeOK
    <3>2. \A n : n \in 1 .. serial' <=> n \in (1 .. serial) \cup {serial + 1}
      BY <3>1
    <3> QED
      BY <3>2
  <2>6. \A b \in {b \in Attempt : pc[b] = "created"} : number[b] \in 1 .. serial
    BY <1>0
  <2>7. \A b, c \in {b \in Attempt : pc'[b] = "created"} :
           number'[b] = number'[c] => b = c
    BY <1>0, <2>1, <2>3, <2>6 DEF ReservationTypeOK
  <2> QED
    BY <1>0, <2>2, <2>4, <2>5, <2>7
<1>3. ASSUME NEW a \in Attempt, AllocateSerial(a)
      PROVE  SerialsStand'
  <2>1. \A b \in Attempt : /\ pc'[b] = "created" <=> pc[b] = "created"
                           /\ b # a => pc'[b] = pc[b] /\ number'[b] = number[b]
    BY <1>0, <1>3 DEF AllocateSerial, Advance, ReservationTypeOK
  <2>2. pc[a] = "numbering" /\ number'[a] = serial + 1 /\ UNCHANGED serial
    BY <1>0, <1>3 DEF AllocateSerial, database, ReservationTypeOK
  <2>3. \A b \in Attempt : pc[b] = "created" => number'[b] = number[b]
    BY <2>1, <2>2
  <2> QED
    BY <1>0, <2>1, <2>2, <2>3
<1>4. ASSUME NEW a \in Attempt, LockKey(a) \/ FindRecord(a) \/ LockPool(a) \/ StartReading(a)
                                \/ Plan(a) \/ \E p \in Pool : ReadPool(a, p)
      PROVE  SerialsStand'
  <2>1. UNCHANGED <<serial, number>>
    BY <1>4 DEF LockKey, FindRecord, LockPool, StartReading, ReadPool, Plan, database, session
  <2>2. \/ UNCHANGED pc
        \/ /\ pc[a] \in InTransaction \ {"writing"}
           /\ \E step \in InTransaction \ {"writing"} : pc' = [pc EXCEPT ![a] = step]
    BY <1>4 DEF LockKey, FindRecord, LockPool, StartReading, ReadPool, Plan, Advance, session
  <2>3. \A b \in Attempt : pc'[b] \in {"created", "writing"} \/ pc[b] \in {"created", "writing"}
                              => pc'[b] = pc[b]
    BY <1>0, <2>2 DEF ReservationTypeOK
  <2> QED
    BY <1>0, <2>1, <2>3
<1>5. ASSUME NEW a \in Attempt, NEW k \in Key, NEW b \in Body, Send(a, k, b)
      PROVE  SerialsStand'
  <2>1. \A c \in Attempt : pc'[c] \in {"created", "writing"} \/ pc[c] \in {"created", "writing"}
                              => pc'[c] = pc[c]
    BY <1>0, <1>5 DEF Send, Advance, ReservationTypeOK
  <2> QED
    BY <1>0, <1>5, <2>1 DEF Send, database
<1>6. CASE Environment
  BY <1>0, <1>6, EnvironmentGrowsPools DEF session
<1>7. CASE UNCHANGED reservationVars
  BY <1>0, <1>7 DEF reservationVars, database, session
<1> QED
  BY <1>1, <1>2, <1>3, <1>4, <1>5, <1>6, <1>7 DEF ReservationNext, Handle

-----------------------------------------------------------------------------
(* What follows for every behaviour *)

LEMMA Inductive == ReservationSpec => []ReservationIInv
<1>1. ReservationInit => ReservationIInv
  <2> SUFFICES ASSUME ReservationInit
               PROVE  ReservationIInv
    OBVIOUS
  <2> USE DEF ReservationInit
  <2>1. ReservationTypeOK
    BY PoolAssumption, UnsentType DEF ReservationTypeOK
  <2>2. NoOverAllocation
    BY DEF NoOverAllocation
  <2>3. LocksHeld /\ RecordsStand /\ PoolsLockedInOrder
    BY DEF LocksHeld, Reserving, RecordsStand, PoolsLockedInOrder
  <2>4. ReadsStand
    BY DEF ReadsStand, Reserving, Needs, LeftIn
  <2>5. SerialsStand
    <3>1. {a \in Attempt : pc[a] = "created"} = {} /\ 1 .. serial = {}
      OBVIOUS
    <3> QED
      BY <3>1 DEF SerialsStand, NumbersAreGapless
  <2> QED
    BY <2>1, <2>2, <2>3, <2>4, <2>5 DEF ReservationIInv
<1>2. ReservationIInv /\ [ReservationNext]_reservationVars => ReservationIInv'
  BY TypeStep, LocksStep, LockOrderStep, StockStep, ReadsStep, RecordsStep, SerialsStep DEF ReservationIInv
<1> QED
  BY <1>1, <1>2, PTL DEF ReservationSpec

\* No pool is ever taken beyond what final inspection released into it, for any
\* number of concurrent creations.
THEOREM NeverOverAllocated == ReservationSpec => []NoOverAllocation
<1>1. ReservationIInv => NoOverAllocation
  BY DEF ReservationIInv
<1> QED
  BY <1>1, Inductive, PTL

\* The pieces an order was planned from are still there when it commits.
THEOREM PlansStand == ReservationSpec => []PlannedStockIsThere
<1>1. ReservationIInv => PlannedStockIsThere
  BY PlanStands DEF PlannedStockIsThere, Needs
<1> QED
  BY <1>1, Inductive, PTL

\* An idempotency key yields one order, and a replay answers with it.
THEOREM KeysAreIdempotent == ReservationSpec => []OneOrderPerKey
<1>1. ReservationIInv => OneOrderPerKey
  BY DEF ReservationIInv, ReservationTypeOK, RecordsStand, OneOrderPerKey, KeyOf
<1> QED
  BY <1>1, Inductive, PTL

\* The numbers of the created orders are 1 .. serial, each given once.
THEOREM GaplessNumbers == ReservationSpec => []NumbersAreGapless
<1>1. ReservationIInv => NumbersAreGapless
  BY DEF ReservationIInv, SerialsStand
<1> QED
  BY <1>1, Inductive, PTL

\* Pools are locked in ascending order, so no circle of waiting requests forms.
THEOREM LocksAreOrdered == ReservationSpec => []PoolsLockedInOrder
<1>1. ReservationIInv => PoolsLockedInOrder
  BY DEF ReservationIInv
<1> QED
  BY <1>1, Inductive, PTL

-----------------------------------------------------------------------------
(* Refinement *)

\* Every step of a request but its commit is invisible to the ledger; the
\* commit is one atomic reservation.
LEMMA LedgerStep ==
    ASSUME ReservationIInv, [ReservationNext]_reservationVars
    PROVE  [Ledger!LedgerNext]_(Ledger!ledger)
<1> DEFINE fulfilled == {k \in Key : record[k] # NoAttempt}
<1> USE DEF Ledger!ledger, Ledger!LedgerNext
<1>1. ASSUME NEW a \in Attempt, Commit(a)
      PROVE  Ledger!Reserve
  <2>1. /\ pc[a] = "writing" /\ UNCHANGED released
        /\ taken' = [p \in Pool |-> taken[p] + Demand[request[a].body][p]]
        /\ record' = [record EXCEPT ![KeyOf(a)] = a]
    BY <1>1 DEF Commit, Wants
  <2>2. KeyOf(a) \in Key /\ request[a].body \in Body
    BY DEF ReservationIInv, ReservationTypeOK, KeyOf
  <2>3. record[KeyOf(a)] = NoAttempt
    BY <2>1 DEF ReservationIInv, RecordsStand, Reserving
  <2>4. fulfilled' = fulfilled \cup {KeyOf(a)}
    BY <2>1, <2>2, PoolAssumption DEF ReservationIInv, ReservationTypeOK
  <2>5. ASSUME NEW p \in Pool
        PROVE  taken[p] + Demand[request[a].body][p] <= released[p]
    <3>1. Wants(a, p) <= LeftIn(p) /\ Wants(a, p) \in Nat
      BY <2>1, PlanStands, WantsType DEF ReservationIInv
    <3> QED
      BY <3>1 DEF Wants, LeftIn, ReservationIInv, ReservationTypeOK
  <2>6. Demand[request[a].body] \in {Demand[b] : b \in Body} /\ KeyOf(a) \in Key \ fulfilled
    BY <2>2, <2>3
  <2> QED
    BY <2>1, <2>4, <2>5, <2>6 DEF Ledger!Reserve
<1>2. ASSUME NEW p \in Pool, NEW n \in 1 .. MaxStock, ReleasePieces(p, n)
      PROVE  Ledger!AddStock
  <2>1. released' = [released EXCEPT ![p] = released[p] + n] /\ UNCHANGED <<taken, record>>
    BY <1>2 DEF ReleasePieces
  <2>2. released'[p] = released[p] + n /\ n > 0 /\ n \in Nat /\ released[p] \in Nat
    BY <2>1, PoolAssumption DEF ReservationIInv, ReservationTypeOK
  <2>3. released'[p] > released[p]
    BY <2>2
  <2>4. released' = [released EXCEPT ![p] = released'[p]]
    BY <2>1, <2>2, Zenon
  <2> QED
    BY <2>1, <2>3, <2>4 DEF Ledger!AddStock
<1>3. ASSUME NEW p \in Pool, NEW n \in 1 .. MaxStock, ReleaseAllocation(p, n)
      PROVE  Ledger!GiveBack
  <2>1. /\ n <= taken[p] /\ taken' = [taken EXCEPT ![p] = taken[p] - n]
        /\ UNCHANGED <<released, record>>
    BY <1>3 DEF ReleaseAllocation
  <2>2. taken'[p] = taken[p] - n /\ n > 0 /\ n \in Nat /\ taken[p] \in Nat
    BY <2>1, PoolAssumption DEF ReservationIInv, ReservationTypeOK
  <2>3. taken'[p] >= 0 /\ taken'[p] < taken[p]
    BY <2>1, <2>2
  <2>4. taken' = [taken EXCEPT ![p] = taken'[p]]
    BY <2>1, <2>2, Zenon
  <2> QED
    BY <2>1, <2>3, <2>4 DEF Ledger!GiveBack
<1>4. ASSUME NEW a \in Attempt, NEW k \in Key, NEW b \in Body, Send(a, k, b)
      PROVE  UNCHANGED <<released, taken, record>>
  BY <1>4 DEF Send, database
<1>5. ASSUME NEW a \in Attempt, Handle(a) \/ Abort(a), ~ Commit(a)
      PROVE  UNCHANGED <<released, taken, record>>
  BY <1>5 DEF Handle, LockKey, FindRecord, Replay, LockPool, StartReading, ReadPool,
              Plan, Refuse, AllocateSerial, Abort, database
<1>6. CASE UNCHANGED reservationVars
  BY <1>6 DEF reservationVars, database
<1>7. ASSUME UNCHANGED <<released, taken, record>>
      PROVE  UNCHANGED Ledger!ledger
  BY <1>7
<1> QED
  BY <1>1, <1>2, <1>3, <1>4, <1>5, <1>6, <1>7 DEF ReservationNext, Handle, Environment

\* The interleaved statements of all requests implement atomic reservation
\* from the pools: no order takes part of its demand, more than there is, or a
\* second time under its key.
THEOREM ReservesAtomically == ReservationSpec => ReservationIsAtomic
<1>1. ReservationInit => Ledger!LedgerInit
  BY DEF ReservationInit, Ledger!LedgerInit
<1>2. ReservationIInv /\ [ReservationNext]_reservationVars => [Ledger!LedgerNext]_(Ledger!ledger)
  BY LedgerStep
<1> QED
  BY <1>1, <1>2, Inductive, PTL DEF ReservationSpec, ReservationIsAtomic, Ledger!LedgerSpec
=============================================================================
