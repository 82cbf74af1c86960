--------------------------- MODULE DistributorProofs ---------------------------
(***************************************************************************)
(* The distributor's side: the goods he holds on sale or return            *)
(* (SaleOrReturn), and the delivery they come from (DistributorReceipt,    *)
(* in the second half), for any pairs, lines, quantities and people.       *)
(***************************************************************************)
EXTENDS SaleOrReturn, DistributorReceipt, SumTheorems

-----------------------------------------------------------------------------
(* The inductive invariant *)

\* what the first queries of a pair have come to, at most
Bound(query, p) ==
    CASE query = 1 -> 0
      [] query = 2 -> received[p]
      [] query = 3 \/ query = 4 -> received[p] - sold[p]
      [] OTHER -> Room(p)

\* A pair is locked by one request.
LocksExclusive ==
    \A c, d \in Clerk : c # d => request[c].held \cap request[d].held = {}

\* An open request has a body of its form, reads under its locks, and an approval
\* is of a return that waits for it and that no other request acts on.
RequestOpen(c) ==
    LET t == request[c]
    IN  /\ t.kind # "idle" => t.entries \in Entries /\ t.query # 0
        /\ t.query > 1 => LocksAll(c)
        /\ t.kind = "approve" =>
             /\ t.return \in Return /\ returns[t.return].status = "SUBMITTED" /\ NamesTheLines(t.entries, t.return)
             /\ \A i \in DOMAIN t.entries :
                  t.entries[i].quantity <= returns[t.return].requested[t.entries[i].pair]
        /\ t.return # 0 => \A d \in Clerk \ {c} : request[d].return # t.return

\* What a report or an approval has checked so far there is room for until it ends.
CheckHolds(c) ==
    LET t == request[c]
    IN  t.kind \in {"report", "approve"} =>
          /\ \A i \in DOMAIN t.entries : i < t.line /\ t.entries[i].quantity > 0 =>
               LocksAll(c) /\ t.entries[i].quantity <= Room(t.entries[i].pair)
          /\ t.line \in DOMAIN t.entries => t.left <= Bound(t.query, t.entries[t.line].pair)

\* A credit note stands on an approval, and an approval on a request.
ReturnsInOrder ==
    \A r \in Return :
        /\ returns[r].credited => returns[r].status \in {"APPROVED", "RECEIVED"}
        /\ \A p \in Pair : returns[r].requested[p] = 0 => returns[r].approved[p] = 0

IInv ==
    /\ TypeOK /\ LocksExclusive /\ ReturnsInOrder
    /\ \A c \in Clerk : RequestOpen(c) /\ CheckHolds(c)

-----------------------------------------------------------------------------
(* Entries *)

LEMMA EntriesAre ==
    ASSUME NEW e \in Entries
    PROVE  /\ e \in Seq(Entry) /\ e # << >> /\ DOMAIN e = 1 .. Len(e) /\ Len(e) \in Nat
           /\ IsFiniteSet(DOMAIN e)
           /\ \A i \in DOMAIN e : e[i].pair \in Pair /\ e[i].quantity \in Nat
           /\ PairsOf(e) \subseteq Pair
<1>1. e \in BoundedSeq(Entry, Cardinality(Pair)) /\ e # << >>
  BY DEF Entries
<1>2. PICK m \in 0 .. Cardinality(Pair) : e \in [1 .. m -> Entry]
  BY <1>1 DEF BoundedSeq, SeqOf
<1>3. m \in Nat
  BY <1>2, FS_CardinalityType, BoundsAssumption
<1>4. e \in Seq(Entry) /\ Len(e) = m /\ DOMAIN e = 1 .. m
  BY ONLY <1>2, <1>3
<1>5. IsFiniteSet(1 .. m)
  BY ONLY <1>3, FS_Interval
<1>6. \A i \in DOMAIN e : e[i] \in Entry
  BY <1>2
<1>7. \A i \in DOMAIN e : e[i].pair \in Pair /\ e[i].quantity \in Nat
  <2>1. Dispatched \in Nat
    BY BoundsAssumption
  <2> QED
    BY ONLY <1>6, <2>1 DEF Entry, Quantity
<1> QED
  BY <1>1, <1>3, <1>4, <1>5, <1>7 DEF PairsOf

LEMMA AskedNat ==
    ASSUME NEW e \in Entries, NEW I \in SUBSET DOMAIN e
    PROVE  /\ Asked(e, I) \in Nat
           /\ (\A i \in I : e[i].quantity = 0) => Asked(e, I) = 0
           /\ \A i \in I : I = {i} => Asked(e, I) = e[i].quantity
<1> DEFINE f == [i \in DOMAIN e |-> e[i].quantity]
<1>1. IsFiniteSet(I) /\ \A i \in I : f[i] \in Nat /\ f[i] = e[i].quantity
  BY EntriesAre, FS_Subset
<1>2. Asked(e, I) = Sum(f, I)
  BY DEF Asked
<1> HIDE DEF f
<1>3. Sum(f, I) \in Nat
  BY <1>1, SumNat
<1>4. (\A i \in I : f[i] = 0) => Sum(f, I) = 0
  BY <1>1, SumZero
<1>5. \A i \in I : I = {i} => Sum(f, I) = f[i]
  BY <1>1, SumOne
<1> QED
  BY <1>1, <1>2, <1>3, <1>4, <1>5

\* What is written of a pair stands in one of its entries, if it has any.
LEMMA WrittenIs ==
    ASSUME NEW e \in Entries, NEW p \in Pair
    PROVE  /\ Written(e, p) \in Nat
           /\ p \notin PairsOf(e) => At(e, p) = {} /\ Written(e, p) = 0
           /\ p \in PairsOf(e) =>
                \E i \in DOMAIN e : e[i].pair = p /\ Written(e, p) = e[i].quantity
<1>1. p \in PairsOf(e) <=> At(e, p) # {}
  BY DEF PairsOf, At
<1>2. CASE At(e, p) = {}
  BY <1>1, <1>2 DEF Written
<1>3. CASE At(e, p) # {}
  <2>1. At(e, p) \in SUBSET (0 .. Len(e)) /\ Len(e) \in Nat
    BY EntriesAre DEF At
  <2>2. Max(At(e, p)) \in At(e, p)
    BY <1>3, <2>1, MaxOfNats
  <2>3. Written(e, p) = e[Max(At(e, p))].quantity
    BY <1>3 DEF Written
  <2>4. Max(At(e, p)) \in DOMAIN e /\ e[Max(At(e, p))].pair = p
    BY <2>2 DEF At
  <2> QED
    BY <1>1, <1>3, <2>3, <2>4, EntriesAre
<1> QED
  BY <1>2, <1>3

-----------------------------------------------------------------------------
(* What is approved to come back *)

Share(t, p)      == IF t.status = "APPROVED" THEN t.approved[p] ELSE 0
AwaitingIn(s, p) == Sum([r \in DOMAIN s |-> Share(s[r], p)], DOMAIN s)

LEMMA RowsAre ==
    ASSUME NEW s \in Seq(ReturnRow), NEW p \in Pair
    PROVE  /\ IsFiniteSet(DOMAIN s) /\ DOMAIN s = 1 .. Len(s) /\ Len(s) \in Nat
           /\ \A r \in DOMAIN s : /\ s[r] \in ReturnRow /\ Share(s[r], p) \in Nat
                                  /\ s[r].approved[p] \in Nat /\ s[r].got[p] \in Nat /\ s[r].requested[p] \in Nat
<1>1. DOMAIN s = 1 .. Len(s) /\ Len(s) \in Nat /\ \A r \in DOMAIN s : s[r] \in ReturnRow
  OBVIOUS
<1>2. IsFiniteSet(1 .. Len(s))
  BY <1>1, FS_Interval
<1>3. \A t \in ReturnRow : Share(t, p) \in Nat /\ t.approved[p] \in Nat /\ t.got[p] \in Nat /\ t.requested[p] \in Nat
  BY DEF ReturnRow, PerPair, Share
<1> QED
  BY <1>1, <1>2, <1>3

LEMMA AwaitingSum ==
    ASSUME NEW s \in Seq(ReturnRow), NEW p \in Pair
    PROVE  /\ Sum([r \in DOMAIN s |-> s[r].approved[p]], {r \in DOMAIN s : s[r].status = "APPROVED"})
                = AwaitingIn(s, p)
           /\ AwaitingIn(s, p) \in Nat
<1> DEFINE f == [r \in DOMAIN s |-> s[r].approved[p]]
           g == [r \in DOMAIN s |-> Share(s[r], p)]
           S == DOMAIN s
           T == {r \in DOMAIN s : s[r].status = "APPROVED"}
<1>1. IsFiniteSet(S) /\ T \in SUBSET S /\ \A r \in S : g[r] \in Nat
  BY RowsAre
<1>2. \A r \in T : f[r] \in Int /\ g[r] = f[r]
  BY RowsAre DEF Share
<1>3. \A r \in S \ T : g[r] = 0
  BY DEF Share
<1> HIDE DEF f, g, S, T
<1>4. Sum(g, S) = Sum(f, T)
  BY <1>1, <1>2, <1>3, SumWhere
<1>5. Sum(g, S) \in Nat
  BY <1>1, SumNat
<1> QED
  BY <1>4, <1>5 DEF AwaitingIn, f, g, S, T

LEMMA AwaitingIs ==
    ASSUME TypeOK, NEW p \in Pair
    PROVE  Awaiting(p) = AwaitingIn(returns, p) /\ Awaiting(p) \in Nat
<1>1. Awaiting(p) = Sum([r \in Return |-> returns[r].approved[p]], With("APPROVED"))
  BY DEF Awaiting, Answer
<1>2. returns \in Seq(ReturnRow)
  BY DEF TypeOK
<1> QED
  BY <1>1, <1>2, AwaitingSum DEF Return, With

\* A row that is rewritten changes it by its own share.
LEMMA AwaitingRewritten ==
    ASSUME NEW s \in Seq(ReturnRow), NEW p \in Pair, NEW r \in DOMAIN s, NEW row \in ReturnRow,
           NEW t, t = [s EXCEPT ![r] = row]
    PROVE  /\ t \in Seq(ReturnRow)
           /\ AwaitingIn(t, p) = AwaitingIn(s, p) - Share(s[r], p) + Share(row, p)
           /\ Share(row, p) <= Share(s[r], p) => AwaitingIn(t, p) <= AwaitingIn(s, p)
<1> DEFINE f == [q \in DOMAIN s |-> Share(s[q], p)]
           g == [q \in DOMAIN t |-> Share(t[q], p)]
           S == DOMAIN s
<1>1. t \in Seq(ReturnRow) /\ DOMAIN t = S /\ t[r] = row /\ \A q \in S \ {r} : t[q] = s[q]
  OBVIOUS
<1>2. IsFiniteSet(S) /\ \A q \in S : f[q] \in Int /\ g[q] \in Int
  <2>1. \A q \in S : Share(s[q], p) \in Nat
    BY RowsAre
  <2>2. \A q \in DOMAIN t : Share(t[q], p) \in Nat
    BY <1>1, RowsAre
  <2> QED
    BY <1>1, <2>1, <2>2, RowsAre
<1>3. /\ \A q \in S \ {r} : g[q] = f[q]
      /\ f[r] = Share(s[r], p) /\ g[r] = Share(row, p)
  BY <1>1
<1>4. AwaitingIn(s, p) = Sum(f, S) /\ AwaitingIn(t, p) = Sum(g, S)
  BY <1>1 DEF AwaitingIn
<1> HIDE DEF f, g
<1>5. Sum(g, S) = Sum(f, S) - f[r] + g[r]
  BY <1>2, <1>3, SumChange
<1>6. Sum(f, S) \in Int
  BY <1>2, SumInt
<1>7. Share(row, p) <= Share(s[r], p) => AwaitingIn(t, p) <= AwaitingIn(s, p)
  BY <1>2, <1>3, <1>4, <1>5, <1>6
<1> QED
  BY <1>1, <1>3, <1>4, <1>5, <1>7

\* A new return adds nothing to it.
LEMMA AwaitingAppended ==
    ASSUME NEW s \in Seq(ReturnRow), NEW p \in Pair, NEW row \in ReturnRow, row.status = "SUBMITTED",
           NEW t, t = Append(s, row)
    PROVE  t \in Seq(ReturnRow) /\ AwaitingIn(t, p) = AwaitingIn(s, p)
<1> DEFINE f == [q \in DOMAIN s |-> Share(s[q], p)]
           g == [q \in DOMAIN t |-> Share(t[q], p)]
<1>1. /\ t \in Seq(ReturnRow) /\ DOMAIN s \subseteq DOMAIN t /\ \A q \in DOMAIN s : t[q] = s[q]
      /\ \A q \in DOMAIN t \ DOMAIN s : t[q] = row
  OBVIOUS
<1>2. IsFiniteSet(DOMAIN t) /\ \A q \in DOMAIN s : f[q] \in Int /\ g[q] = f[q]
  BY <1>1, RowsAre
<1>3. \A q \in DOMAIN t \ DOMAIN s : g[q] = 0
  BY <1>1 DEF Share
<1> HIDE DEF f, g
<1>4. Sum(g, DOMAIN t) = Sum(f, DOMAIN s)
  BY <1>1, <1>2, <1>3, SumWhere
<1> QED
  BY <1>1, <1>4 DEF AwaitingIn, f, g

\* What has come back is no negative number.
LEMMA ReturnedNat == ASSUME TypeOK, NEW p \in Pair PROVE Answer("returned", p) \in Nat
<1> DEFINE f == [r \in Return |-> returns[r].got[p]]
<1>1. Answer("returned", p) = Sum(f, With("RECEIVED"))
  BY DEF Answer
<1>2. returns \in Seq(ReturnRow)
  BY DEF TypeOK
<1>3. IsFiniteSet(With("RECEIVED"))
  BY <1>2, RowsAre, FS_Subset DEF With, Return
<1>4. \A r \in With("RECEIVED") : f[r] \in Nat
  BY <1>2, RowsAre DEF With, Return
<1> HIDE DEF f
<1> QED
  BY <1>1, <1>3, <1>4, SumNat

LEMMA PendingNat == ASSUME TypeOK, NEW p \in Pair PROVE Answer("pending", p) \in Nat
<1> DEFINE f == [r \in Return |-> returns[r].requested[p]]
<1>1. Answer("pending", p) = Sum(f, With("SUBMITTED"))
  BY DEF Answer
<1>2. returns \in Seq(ReturnRow)
  BY DEF TypeOK
<1>3. IsFiniteSet(With("SUBMITTED"))
  BY <1>2, RowsAre, FS_Subset DEF With, Return
<1>4. \A r \in With("SUBMITTED") : f[r] \in Nat
  BY <1>2, RowsAre DEF With, Return
<1> HIDE DEF f
<1> QED
  BY <1>1, <1>3, <1>4, SumNat

-----------------------------------------------------------------------------
(* Steps *)

LEMMA Typed ==
    ASSUME TypeOK
    PROVE  /\ \A p \in Pair : received[p] \in Nat /\ sold[p] \in Nat /\ Awaiting(p) \in Nat
           /\ \A c \in Clerk : /\ request[c] \in RequestRow /\ request[c].query \in 0 .. 5
                               /\ request[c].left \in Int /\ request[c].line \in Nat
                               /\ request[c].held \subseteq PairsOf(request[c].entries)
           /\ \A r \in Return : returns[r] \in ReturnRow
<1>1. Dispatched \in Nat /\ Len(Queries) = 5
  BY BoundsAssumption DEF Queries
<1>2. \A p \in Pair : received[p] \in Nat /\ sold[p] \in Nat
  BY <1>1 DEF TypeOK, Quantity, PerPair
<1>3. \A c \in Clerk : request[c] \in RequestRow /\ request[c].held \subseteq PairsOf(request[c].entries)
  BY DEF TypeOK
<1>4. \A t \in RequestRow : t.query \in 0 .. 5 /\ t.left \in Int /\ t.line \in Nat
  BY <1>1 DEF RequestRow
<1>5. \A r \in Return : returns[r] \in ReturnRow
  BY DEF TypeOK, Return
<1> QED
  BY <1>2, <1>3, <1>4, <1>5, AwaitingIs

LEMMA TypedNext ==
    TypeOK' => \A p \in Pair : /\ received'[p] \in Nat /\ sold'[p] \in Nat /\ Awaiting(p)' \in Nat
                               /\ Awaiting(p)' = AwaitingIn(returns', p)
<1> SUFFICES ASSUME TypeOK', NEW p \in Pair
             PROVE  /\ received'[p] \in Nat /\ sold'[p] \in Nat /\ Awaiting(p)' \in Nat
                    /\ Awaiting(p)' = AwaitingIn(returns', p)
  OBVIOUS
<1>1. Awaiting(p)' = Sum([r \in DOMAIN returns' |-> returns'[r].approved[p]],
                         {r \in DOMAIN returns' : returns'[r].status = "APPROVED"})
  BY DEF Awaiting, Answer, With, Return
<1>2. returns' \in Seq(ReturnRow) /\ received' \in [Pair -> Quantity] /\ sold' \in PerPair
  BY DEF TypeOK
<1>3. Awaiting(p)' \in Nat /\ Awaiting(p)' = AwaitingIn(returns', p)
  BY <1>1, <1>2, AwaitingSum
<1> QED
  BY <1>2, <1>3, BoundsAssumption DEF Quantity, PerPair

\* What a request has checked outlasts a step that takes nothing of the pairs it
\* has locked and leaves it, and the return it approves, alone.
LEMMA CheckKept ==
    ASSUME IInv, TypeOK', NEW c \in Clerk, request'[c] = request[c],
           \A p \in request[c].held :
             sold'[p] = sold[p] /\ received[p] <= received'[p] /\ Awaiting(p)' <= Awaiting(p)
    PROVE  CheckHolds(c)'
<1> SUFFICES ASSUME request[c].kind \in {"report", "approve"} PROVE CheckHolds(c)'
  BY DEF CheckHolds
<1>0. PICK t : t = request[c]
  OBVIOUS
<1>1. t.entries \in Entries
  BY <1>0 DEF IInv, RequestOpen
<1>2. /\ \A i \in DOMAIN t.entries : i < t.line /\ t.entries[i].quantity > 0 =>
           LocksAll(c) /\ t.entries[i].quantity <= Room(t.entries[i].pair)
      /\ t.line \in DOMAIN t.entries => t.left <= Bound(t.query, t.entries[t.line].pair)
  BY <1>0 DEF IInv, CheckHolds
<1>3. t.query > 1 => LocksAll(c)
  BY <1>0 DEF IInv, RequestOpen
<1>4. t.query \in 0 .. 5 /\ t.left \in Int
  BY <1>0, Typed DEF IInv
<1>5. \A i \in DOMAIN t.entries : t.entries[i].pair \in Pair /\ t.entries[i].quantity \in Nat
  BY <1>1, EntriesAre
<1>6. LocksAll(c) => \A i \in DOMAIN t.entries : t.entries[i].pair \in t.held
  BY <1>0 DEF LocksAll, PairsOf
<1>7. \A p \in Pair : /\ received[p] \in Nat /\ sold[p] \in Nat /\ Awaiting(p) \in Nat
                      /\ received'[p] \in Nat /\ sold'[p] \in Nat /\ Awaiting(p)' \in Nat
  BY Typed, TypedNext DEF IInv
<1>8. ASSUME NEW p \in Pair, p \in t.held
      PROVE  Room(p) <= Room(p)' /\ \A q \in 2 .. 5 : Bound(q, p) <= Bound(q, p)'
  <2>1. sold'[p] = sold[p] /\ received[p] <= received'[p] /\ Awaiting(p)' <= Awaiting(p)
    BY <1>0, <1>8
  <2>2. Room(p) <= Room(p)'
    BY <1>7, <2>1 DEF Room
  <2> QED
    BY <1>7, <2>1, <2>2 DEF Bound
<1>9. \A p \in Pair : Room(p) \in Int /\ Room(p)' \in Int /\ \A q \in 2 .. 5 : Bound(q, p) \in Int /\ Bound(q, p)' \in Int
  BY <1>7 DEF Room, Bound
<1>10. ASSUME NEW i \in DOMAIN t.entries, i < t.line, t.entries[i].quantity > 0
       PROVE  LocksAll(c) /\ t.entries[i].quantity <= Room(t.entries[i].pair)'
  BY <1>2, <1>5, <1>6, <1>8, <1>9, <1>10
<1>11. ASSUME t.line \in DOMAIN t.entries
       PROVE  t.left <= Bound(t.query, t.entries[t.line].pair)'
  <2>0. PICK p : p = t.entries[t.line].pair
    OBVIOUS
  <2>1. p \in Pair /\ t.left <= Bound(t.query, p)
    BY <1>2, <1>5, <1>11, <2>0
  <2>2. CASE t.query > 1
    <3>1. t.query \in 2 .. 5 /\ p \in t.held
      BY <1>3, <1>4, <1>6, <1>11, <2>0, <2>2
    <3>2. Bound(t.query, p) <= Bound(t.query, p)'
      BY <1>8, <2>1, <3>1
    <3> QED
      BY <1>4, <1>9, <2>0, <2>1, <3>1, <3>2
  <2>3. CASE t.query = 1
    BY <2>0, <2>1, <2>3 DEF Bound
  <2>4. CASE t.query = 0
    BY <1>0, <2>4 DEF IInv, RequestOpen
  <2> QED
    BY <1>4, <2>2, <2>3, <2>4
<1>12. LocksAll(c)' <=> LocksAll(c)
  BY DEF LocksAll
<1> QED
  BY <1>0, <1>10, <1>11, <1>12 DEF CheckHolds

\* A step of at most one request (none: of a handler without pair locks).
LEMMA StepKeepsIInv ==
    ASSUME IInv, TypeOK', ReturnsInOrder', NEW A \in SUBSET Clerk, \A c, d \in A : c = d,
           \A c \in A : \/ request'[c] = Idle
                        \/ /\ RequestOpen(c)' /\ CheckHolds(c)'
                           /\ \A d \in Clerk \ {c} : request'[c].held \cap request[d].held = {},
           \A d \in Clerk \ A :
             /\ request'[d] = request[d]
             /\ \A p \in request[d].held :
                  sold'[p] = sold[p] /\ received[p] <= received'[p] /\ Awaiting(p)' <= Awaiting(p)
             /\ request[d].kind = "approve" =>
                  request[d].return \in Return' /\ returns'[request[d].return] = returns[request[d].return]
    PROVE  IInv'
<1>1. /\ Idle.kind = "idle" /\ Idle.held = {} /\ Idle.return = 0 /\ Idle.query = 0
  BY DEF Idle
<1>2. \A c \in Clerk : CheckHolds(c)'
  <2>1. \A c \in A : request'[c] = Idle => CheckHolds(c)'
    BY <1>1 DEF CheckHolds
  <2>2. \A c \in Clerk \ A : CheckHolds(c)'
    BY CheckKept
  <2> QED
    BY <2>1, <2>2
<1>3. \A c \in Clerk : RequestOpen(c)'
  <2>1. \A c \in A : request'[c] = Idle => RequestOpen(c)'
    BY <1>1 DEF RequestOpen
  <2>2. ASSUME NEW d \in Clerk \ A PROVE RequestOpen(d)'
    <3>1. RequestOpen(d) /\ request'[d] = request[d] /\ (LocksAll(d)' <=> LocksAll(d))
      BY DEF IInv, LocksAll
    <3>2. request[d].return # 0 => \A e \in Clerk \ {d} : request'[e].return # request[d].return
      <4> SUFFICES ASSUME request[d].return # 0, NEW e \in Clerk \ {d}
                   PROVE  request'[e].return # request[d].return
        OBVIOUS
      <4>1. CASE e \notin A
        BY <3>1, <4>1 DEF RequestOpen
      <4>2. CASE e \in A /\ request'[e] = Idle
        BY <1>1, <4>2
      <4>3. CASE e \in A /\ RequestOpen(e)'
        <5>1. request'[e].return # 0 => request'[d].return # request'[e].return
          BY <4>3 DEF RequestOpen
        <5> QED
          BY <3>1, <5>1
      <4> QED
        BY <4>1, <4>2, <4>3
    <3>3. request[d].kind = "approve" =>
            /\ request[d].return \in Return' /\ returns'[request[d].return].status = "SUBMITTED"
            /\ NamesTheLines(request[d].entries, request[d].return)'
            /\ \A i \in DOMAIN request[d].entries : request[d].entries[i].quantity
                 <= returns'[request[d].return].requested[request[d].entries[i].pair]
      BY <3>1 DEF RequestOpen, NamesTheLines
    <3> QED
      BY <3>1, <3>2, <3>3 DEF RequestOpen
  <2> QED
    BY <2>1, <2>2
<1>4. LocksExclusive'
  <2> SUFFICES ASSUME NEW c \in Clerk, NEW d \in Clerk, c # d
               PROVE  request'[c].held \cap request'[d].held = {}
    BY DEF LocksExclusive
  <2>1. CASE c \notin A /\ d \notin A
    BY <2>1 DEF IInv, LocksExclusive
  <2>2. CASE c \in A
    BY <1>1, <2>2
  <2>3. CASE d \in A
    BY <1>1, <2>3
  <2> QED
    BY <2>1, <2>2, <2>3
<1> QED
  BY <1>2, <1>3, <1>4 DEF IInv

LEMMA InitIInv == Init => IInv
<1> SUFFICES ASSUME Init PROVE IInv
  OBVIOUS
<1>1. Idle.kind = "idle" /\ Idle.held = {} /\ Idle.return = 0 /\ Idle.query = 0 /\ Idle \in RequestRow
  <2>1. << >> \in Seq(Entry) /\ 0 \in 0 .. Len(Queries)
    BY DEF Queries
  <2> QED
    BY <2>1 DEF Idle, RequestRow
<1>2. request \in [Clerk -> RequestRow] /\ \A c \in Clerk : request[c] = Idle
  BY <1>1 DEF Init
<1>3. returns = << >> /\ returns \in Seq(ReturnRow) /\ Return = {}
  BY DEF Init, Return
<1>4. received \in [Pair -> Quantity] /\ sold \in PerPair
  BY BoundsAssumption DEF Init, NotDelivered, Quantity, PerPair
<1>5. TypeOK
  BY <1>1, <1>2, <1>3, <1>4 DEF TypeOK
<1>6. LocksExclusive /\ ReturnsInOrder
  BY <1>1, <1>2, <1>3 DEF LocksExclusive, ReturnsInOrder
<1>7. \A c \in Clerk : RequestOpen(c) /\ CheckHolds(c)
  BY <1>1, <1>2 DEF RequestOpen, CheckHolds
<1> QED
  BY <1>5, <1>6, <1>7 DEF IInv

-----------------------------------------------------------------------------
(* Requests that go on *)

LEMMA QueriesAre == Len(Queries) = 5
BY DEF Queries

\* A row of which the line, the query or the balance changes.
LEMMA RowChanged ==
    ASSUME NEW t \in RequestRow, NEW n \in Nat, NEW k \in 0 .. 5, NEW l \in Int,
           NEW row, row = [t EXCEPT !.query = k, !.left = l, !.line = n]
    PROVE  row \in RequestRow
<1>1. /\ t.kind \in {"idle", "report", "submit", "approve"} /\ t.entries \in Seq(Entry)
      /\ t.return \in Nat /\ t.held \in SUBSET Pair
  BY DEF RequestRow
<1>2. row = [kind |-> t.kind, entries |-> t.entries, return |-> t.return, held |-> t.held,
             line |-> n, query |-> k, left |-> l]
  BY DEF RequestRow
<1>3. \A kind \in {"idle", "report", "submit", "approve"}, e \in Seq(Entry), r \in Nat,
         held \in SUBSET Pair :
        [kind |-> kind, entries |-> e, return |-> r, held |-> held, line |-> n, query |-> k,
         left |-> l] \in RequestRow
  BY QueriesAre DEF RequestRow
<1> QED
  BY ONLY <1>1, <1>2, <1>3

\* A request moves while nothing of the goods changes.
LEMMA MovingKeepsIInv ==
    ASSUME IInv, NEW c \in Clerk, NEW row \in RequestRow, request' = [request EXCEPT ![c] = row],
           UNCHANGED <<received, sold, returns>>,
           row.held \subseteq PairsOf(row.entries),
           \/ row = Idle
           \/ /\ RequestOpen(c)' /\ CheckHolds(c)'
              /\ \A d \in Clerk \ {c} : row.held \cap request[d].held = {}
    PROVE  IInv'
<1>1. request'[c] = row /\ \A d \in Clerk \ {c} : request'[d] = request[d]
  BY DEF IInv, TypeOK
<1>2. TypeOK'
  BY <1>1 DEF IInv, TypeOK
<1>3. ReturnsInOrder'
  BY DEF IInv, ReturnsInOrder, Return
<1>4. \A p \in Pair : /\ sold'[p] = sold[p] /\ received[p] <= received'[p]
                      /\ Awaiting(p)' <= Awaiting(p)
  <2>1. \A p \in Pair : Awaiting(p)' = Awaiting(p)
    BY <1>2, AwaitingIs, TypedNext DEF IInv
  <2> QED
    BY <2>1, Typed DEF IInv
<1>5. \A d \in Clerk : request[d].held \subseteq Pair
  BY Typed DEF IInv, RequestRow
<1>6. \A d \in Clerk : request[d].kind = "approve" =>
        request[d].return \in Return' /\ returns'[request[d].return] = returns[request[d].return]
  BY DEF IInv, RequestOpen, Return
<1> DEFINE A == {c}
<1>7. \A a \in A : \/ request'[a] = Idle
                   \/ /\ RequestOpen(a)' /\ CheckHolds(a)'
                      /\ \A d \in Clerk \ {a} : request'[a].held \cap request[d].held = {}
  BY <1>1
<1>8. A \in SUBSET Clerk /\ (\A a, b \in A : a = b) /\ \A d \in Clerk \ A : request'[d] = request[d]
  BY <1>1
<1> HIDE DEF A
<1> QED
  BY <1>2, <1>3, <1>4, <1>5, <1>6, <1>7, <1>8, StepKeepsIInv

LEMMA IdleIs ==
    /\ Idle \in RequestRow /\ Idle.kind = "idle" /\ Idle.held = {} /\ Idle.return = 0
    /\ Idle.query = 0 /\ Idle.entries = << >>
<1>1. << >> \in Seq(Entry)
  OBVIOUS
<1> QED
  BY <1>1, QueriesAre DEF Idle, RequestRow

LEMMA RollbackKeepsIInv == ASSUME IInv, NEW c \in Clerk, Rollback(c) PROVE IInv'
<1>1. PICK row : row = Idle
  OBVIOUS
<1>2. row \in RequestRow /\ row.held \subseteq PairsOf(row.entries)
  BY <1>1, IdleIs
<1> QED
  BY <1>1, <1>2, MovingKeepsIInv DEF Rollback

LEMMA LockPairKeepsIInv == ASSUME IInv, NEW c \in Clerk, LockPair(c) PROVE IInv'
<1>1. PICK t, next : t = request[c] /\ next = NextPair(t.entries, t.held)
  OBVIOUS
<1>2. PICK row : row = [t EXCEPT !.held = @ \cup {next}]
  OBVIOUS
<1>3. /\ t.kind # "idle" /\ t.held # PairsOf(t.entries) /\ \A d \in Clerk \ {c} : next \notin request[d].held
      /\ request' = [request EXCEPT ![c] = row] /\ UNCHANGED <<received, sold, returns>>
  BY <1>1, <1>2 DEF LockPair, LocksAll
<1>4. t \in RequestRow /\ t.held \subseteq PairsOf(t.entries) /\ t.entries \in Entries
  BY <1>1, <1>3, Typed DEF IInv, RequestOpen
<1>5. next \in PairsOf(t.entries) /\ next \in Pair
  <2>1. PairsOf(t.entries) \subseteq Pair /\ Pair \subseteq Nat
    BY <1>4, EntriesAre, BoundsAssumption
  <2>2. PairsOf(t.entries) \ t.held # {}
    BY <1>3, <1>4
  <2>3. PairsOf(t.entries) \ t.held \in SUBSET Nat
    BY <2>1
  <2>4. Min(PairsOf(t.entries) \ t.held) \in PairsOf(t.entries) \ t.held
    BY <2>2, <2>3, MinOfNats
  <2> QED
    BY <1>1, <2>1, <2>4 DEF NextPair
<1>6. /\ row \in RequestRow /\ row.held = t.held \cup {next} /\ row.kind = t.kind /\ row.entries = t.entries
      /\ row.query = t.query /\ row.line = t.line /\ row.left = t.left /\ row.return = t.return
  BY <1>2, <1>4, <1>5 DEF RequestRow
<1>7. request'[c] = row /\ \A d \in Clerk \ {c} : request'[d] = request[d]
  BY <1>3 DEF IInv, TypeOK
<1>8. \A d \in Clerk \ {c} : row.held \cap request[d].held = {}
  BY <1>1, <1>3, <1>6 DEF IInv, LocksExclusive
<1>9. t.query \in 0 .. 5 /\ ~(t.query > 1) /\ t.query # 0
  BY <1>1, <1>3, Typed DEF IInv, RequestOpen, LocksAll
<1>10. RequestOpen(c)'
  <2>1. RequestOpen(c)
    BY DEF IInv
  <2> QED
    BY <1>1, <1>3, <1>4, <1>6, <1>7, <1>9, <2>1 DEF RequestOpen, NamesTheLines, Return
<1>11. CheckHolds(c)'
  <2>1. CheckHolds(c) /\ ~LocksAll(c)
    BY <1>1, <1>3 DEF IInv, LocksAll
  <2>2. t.query = 1 /\ Bound(t.query, t.entries[t.line].pair) = 0
    BY <1>9 DEF Bound
  <2>3. Bound(row.query, row.entries[row.line].pair)' = 0
    BY <1>6, <1>9 DEF Bound
  <2> QED
    BY <1>1, <1>6, <1>7, <2>1, <2>2, <2>3 DEF CheckHolds
<1> QED
  BY <1>3, <1>4, <1>5, <1>6, <1>8, <1>10, <1>11, MovingKeepsIInv

\* A transaction is opened: nothing is checked but what is approved with 0.
LEMMA OpenKeepsIInv ==
    ASSUME IInv, NEW c \in Clerk, NEW kind \in {"report", "submit", "approve"}, NEW e \in Entries,
           NEW r \in Nat, Open(c, kind, e, r),
           kind # "approve" => r = 0,
           kind = "approve" => /\ r \in Return /\ returns[r].status = "SUBMITTED" /\ ReturnIsFree(r)
                               /\ NamesTheLines(e, r) /\ Asked(e, DOMAIN e) > 0
                               /\ \A i \in DOMAIN e : e[i].quantity <= returns[r].requested[e[i].pair]
    PROVE  IInv'
<1> DEFINE S == {i \in DOMAIN e : kind = "approve" => e[i].quantity > 0}
<1>1. S \in SUBSET Nat /\ S # {}
  <2>1. DOMAIN e \subseteq Nat /\ DOMAIN e # {} /\ \A i \in DOMAIN e : e[i].quantity \in Nat
    BY EntriesAre
  <2>2. CASE kind = "approve"
    <3>1. ~(\A i \in DOMAIN e : e[i].quantity = 0)
      BY <2>2, AskedNat
    <3> QED
      BY <2>1, <3>1
  <2> QED
    BY <2>1, <2>2
<1>2. Min(S) \in Nat /\ \A i \in S : Min(S) <= i
  <2> HIDE DEF S
  <2> QED
    BY <1>1, MinOfNats
<1>3. PICK row : row = [Idle EXCEPT !.kind = kind, !.entries = e, !.return = r, !.query = 1, !.line = Min(S)]
  OBVIOUS
<1>4. /\ request[c].kind = "idle" /\ request' = [request EXCEPT ![c] = row]
      /\ UNCHANGED <<received, sold, returns>>
  BY <1>3 DEF Open
<1>5. /\ row.kind = kind /\ row.entries = e /\ row.return = r /\ row.query = 1 /\ row.held = {}
      /\ row.left = 0 /\ row.line = Min(S)
  BY <1>3 DEF Idle
<1>6. row \in RequestRow
  <2> HIDE DEF S
  <2>1. e \in Seq(Entry) /\ {} \in SUBSET Pair
    BY EntriesAre
  <2>2. row = [kind |-> kind, entries |-> e, return |-> r, held |-> {}, line |-> Min(S), query |-> 1,
               left |-> 0]
    BY <1>3 DEF Idle
  <2>3. \A n \in Nat : [kind |-> kind, entries |-> e, return |-> r, held |-> {}, line |-> n, query |-> 1,
                          left |-> 0] \in RequestRow
    BY <2>1, QueriesAre DEF RequestRow
  <2> QED
    BY ONLY <1>2, <2>2, <2>3
<1>7. request'[c] = row /\ \A d \in Clerk \ {c} : request'[d] = request[d]
  BY <1>4 DEF IInv, TypeOK
<1>8. RequestOpen(c)'
  <2>1. r # 0 => \A d \in Clerk : request[d].return # r
    BY DEF ReturnIsFree
  <2> HIDE DEF S
  <2> QED
    BY <1>4, <1>5, <1>7, <2>1 DEF RequestOpen, NamesTheLines, Return
<1>9. CheckHolds(c)'
  <2>1. \A i \in DOMAIN e : i < Min(S) => ~(e[i].quantity > 0)
    <3> SUFFICES ASSUME NEW i \in DOMAIN e, i < Min(S), e[i].quantity > 0 PROVE FALSE
      OBVIOUS
    <3>1. i \in S /\ i \in Nat
      BY EntriesAre
    <3> QED
      BY <1>2, <3>1
  <2>2. Bound(row.query, row.entries[row.line].pair)' = 0
    BY <1>5 DEF Bound
  <2> HIDE DEF S
  <2> QED
    BY <1>5, <1>7, <2>1, <2>2 DEF CheckHolds
<1> HIDE DEF S
<1> QED
  BY <1>4, <1>5, <1>6, <1>8, <1>9, MovingKeepsIInv

LEMMA OpensKeepIInv ==
    ASSUME IInv, NEW c \in Clerk, OpenReport(c) \/ OpenSubmit(c) \/ OpenApprove(c)
    PROVE  IInv'
<1>1. CASE OpenReport(c)
  BY <1>1, OpenKeepsIInv DEF OpenReport
<1>2. CASE OpenSubmit(c)
  BY <1>2, OpenKeepsIInv DEF OpenSubmit
<1>3. CASE OpenApprove(c)
  <2>1. PICK r \in Return, e \in Entries :
          /\ ReturnIsFree(r) /\ returns[r].status = "SUBMITTED"
          /\ NamesTheLines(e, r) /\ Asked(e, DOMAIN e) > 0
          /\ \A i \in DOMAIN e : e[i].quantity <= returns[r].requested[e[i].pair]
          /\ Open(c, "approve", e, r)
    BY <1>3 DEF OpenApprove
  <2>2. r \in Nat
    BY DEF IInv, TypeOK, Return
  <2> QED
    BY <2>1, <2>2, OpenKeepsIInv
<1> QED
  BY <1>1, <1>2, <1>3

\* A read: the answers to the queries so far bound what is left, and once all are
\* in, the line is checked.
LEMMA QueryKeepsIInv == ASSUME IInv, NEW c \in Clerk, Query(c) PROVE IInv'
<1>1. PICK t : t = request[c]
  OBVIOUS
<1>2. PICK e, q, left, p :
        /\ e = t.entries[t.line] /\ q = Queries[t.query] /\ p = e.pair
        /\ left = t.left + Counts(q, t.kind) * Answer(q, p)
  OBVIOUS
<1>3. /\ t.kind # "idle" /\ LocksAll(c) /\ t.line \in DOMAIN t.entries /\ Len(Queries) = 5
      /\ request' = [request EXCEPT ![c] =
           IF t.query # 5 THEN [t EXCEPT !.query = @ + 1, !.left = left]
           ELSE IF e.quantity > left THEN Idle
           ELSE [t EXCEPT !.query = 1, !.left = 0, !.line = NextLine(c, t.line)]]
      /\ UNCHANGED <<received, sold, returns>>
  BY <1>1, <1>2 DEF Query, Queries
<1>4. /\ t \in RequestRow /\ t.entries \in Entries /\ t.query \in 1 .. 5 /\ t.left \in Int
      /\ t.held = PairsOf(t.entries)
  BY <1>1, <1>3, Typed DEF IInv, RequestOpen, LocksAll
<1>5. p \in Pair /\ e.quantity \in Nat /\ \A i \in DOMAIN t.entries : t.entries[i].quantity \in Nat /\ i \in Nat
  BY <1>2, <1>3, <1>4, EntriesAre
<1>6. received[p] \in Nat /\ sold[p] \in Nat /\ Awaiting(p) \in Nat /\ Answer("returned", p) \in Nat
  BY <1>5, Typed, ReturnedNat DEF IInv
<1>7. Room(p) \in Int /\ Awaiting(p)' = Awaiting(p) /\ Room(p)' = Room(p)
  BY <1>3, <1>6 DEF Room, Awaiting, Answer, With, Return
<1>8. \A d \in Clerk \ {c} : t.held \cap request[d].held = {}
  BY <1>1 DEF IInv, LocksExclusive
<1>9. RequestOpen(c) /\ CheckHolds(c)
  BY DEF IInv
<1>10. ASSUME NEW row \in RequestRow, request' = [request EXCEPT ![c] = row],
              row.kind = t.kind, row.entries = t.entries, row.return = t.return, row.held = t.held,
              row.query # 0,
              t.kind \in {"report", "approve"} =>
                /\ \A i \in DOMAIN t.entries : i < row.line /\ t.entries[i].quantity > 0 =>
                     t.entries[i].quantity <= Room(t.entries[i].pair)
                /\ row.line \in DOMAIN t.entries =>
                     row.left <= Bound(row.query, t.entries[row.line].pair)
       PROVE  IInv'
  <2>1. request'[c] = row /\ \A d \in Clerk \ {c} : request'[d] = request[d]
    BY <1>10 DEF IInv, TypeOK
  <2>2. LocksAll(c)'
    BY <1>4, <1>10, <2>1 DEF LocksAll
  <2>3. RequestOpen(c)'
    BY <1>1, <1>3, <1>4, <1>9, <1>10, <2>1, <2>2 DEF RequestOpen, NamesTheLines, Return
  <2>4. \A b \in Pair : Room(b)' = Room(b) /\ \A n \in 0 .. 5 : Bound(n, b)' = Bound(n, b)
    BY <1>3 DEF Room, Bound, Awaiting, Answer, With, Return
  <2>5. \A i \in DOMAIN t.entries : t.entries[i].pair \in Pair
    BY <1>4, EntriesAre
  <2>6. row.query \in 0 .. 5
    BY <1>3, <1>10 DEF RequestRow
  <2>7. CheckHolds(c)'
    BY <1>10, <2>1, <2>2, <2>4, <2>5, <2>6 DEF CheckHolds
  <2>8. row.held \subseteq PairsOf(row.entries) /\ \A d \in Clerk \ {c} : row.held \cap request[d].held = {}
    BY <1>4, <1>8, <1>10
  <2> QED
    BY <1>3, <1>10, <2>3, <2>7, <2>8, MovingKeepsIInv
<1>11. t.kind \in {"report", "approve"} =>
         /\ \A i \in DOMAIN t.entries : i < t.line /\ t.entries[i].quantity > 0 =>
              t.entries[i].quantity <= Room(t.entries[i].pair)
         /\ t.left <= Bound(t.query, p)
  BY <1>1, <1>2, <1>3, <1>9 DEF CheckHolds
<1>12. t.kind \in {"report", "approve"} =>
         /\ left \in Int
         /\ t.query # 5 => left <= Bound(t.query + 1, p)
         /\ t.query = 5 => left <= Room(p)
  <2> SUFFICES ASSUME t.kind \in {"report", "approve"}
               PROVE  /\ left \in Int
                      /\ t.query # 5 => left <= Bound(t.query + 1, p)
                      /\ t.query = 5 => left <= Room(p)
    OBVIOUS
  <2>1. CASE t.query = 1
    <3>1. q = "received"
      BY <1>2, <2>1 DEF Queries
    <3>2. Counts(q, t.kind) = 1 /\ Answer(q, p) = received[p]
      BY <3>1 DEF Counts, Answer
    <3>3. left = t.left + received[p]
      BY <1>2, <1>4, <1>6, <3>2
    <3> QED
      BY <1>4, <1>6, <1>11, <2>1, <3>3 DEF Bound
  <2>2. CASE t.query = 2
    <3>1. q = "sold"
      BY <1>2, <2>2 DEF Queries
    <3>2. Counts(q, t.kind) = -1 /\ Answer(q, p) = sold[p]
      BY <3>1 DEF Counts, Answer
    <3>3. left = t.left - sold[p]
      BY <1>2, <1>4, <1>6, <3>2
    <3> QED
      BY <1>4, <1>6, <1>11, <2>2, <3>3 DEF Bound
  <2>3. CASE t.query = 3
    <3>1. q = "returned"
      BY <1>2, <2>3 DEF Queries
    <3>2. left = t.left - Answer("returned", p)
      BY <1>2, <1>4, <1>6, <3>1 DEF Counts
    <3> QED
      BY <1>4, <1>6, <1>11, <2>3, <3>2 DEF Bound
  <2>4. CASE t.query = 4
    <3>1. q = "awaiting"
      BY <1>2, <2>4 DEF Queries
    <3>2. left = t.left - Awaiting(p)
      BY <1>2, <1>4, <1>6, <3>1 DEF Counts, Awaiting
    <3> QED
      BY <1>4, <1>6, <1>7, <1>11, <2>4, <3>2 DEF Bound, Room
  <2>5. CASE t.query = 5
    <3>1. q = "pending"
      BY <1>2, <2>5 DEF Queries
    <3>2. Counts(q, t.kind) = 0 /\ Answer(q, p) \in Int
      BY <1>5, <3>1, PendingNat DEF Counts, IInv
    <3>3. left = t.left
      BY <1>2, <1>4, <3>2
    <3> QED
      BY <1>4, <1>7, <1>11, <2>5, <3>3 DEF Bound
  <2> QED
    BY <1>4, <2>1, <2>2, <2>3, <2>4, <2>5
<1>13. left \in Int
  <2>1. q \in {"received", "sold", "returned", "awaiting", "pending"}
    BY <1>2, <1>4 DEF Queries
  <2>2. Answer(q, p) \in Int
    BY <1>5, <1>6, <2>1, PendingNat DEF Answer, Awaiting, IInv
  <2>3. Counts(q, t.kind) \in {-1, 0, 1}
    BY DEF Counts
  <2> QED
    BY <1>2, <1>4, <2>2, <2>3
<1>14. CASE t.query # 5
  <2>1. PICK row : row = [t EXCEPT !.query = t.query + 1, !.left = left, !.line = t.line]
    OBVIOUS
  <2>2. row \in RequestRow
    <3>1. t.query + 1 \in 0 .. 5
      BY <1>4, <1>14
    <3> QED
      BY <1>3, <1>4, <1>5, <1>13, <2>1, <3>1, RowChanged
  <2>3. /\ row.kind = t.kind /\ row.entries = t.entries /\ row.return = t.return /\ row.held = t.held
        /\ row.query = t.query + 1 /\ row.left = left /\ row.line = t.line
    BY <1>4, <2>1 DEF RequestRow
  <2>4. request' = [request EXCEPT ![c] = row]
    <3>1. row = [t EXCEPT !.query = @ + 1, !.left = left]
      BY <1>4, <2>1 DEF RequestRow
    <3> QED
      BY <1>3, <1>14, <3>1
  <2>5. t.kind \in {"report", "approve"} =>
          /\ \A i \in DOMAIN t.entries : i < row.line /\ t.entries[i].quantity > 0 =>
               t.entries[i].quantity <= Room(t.entries[i].pair)
          /\ row.line \in DOMAIN t.entries => row.left <= Bound(row.query, t.entries[row.line].pair)
    BY <1>2, <1>11, <1>12, <1>14, <2>3
  <2>6. row.query # 0
    BY <1>4, <2>3
  <2> QED
    BY <1>10, <2>2, <2>3, <2>4, <2>5, <2>6
<1>15. CASE t.query = 5 /\ e.quantity > left
  <2>1. request' = [request EXCEPT ![c] = Idle]
    BY <1>3, <1>15
  <2>2. PICK row : row = Idle
    OBVIOUS
  <2>3. row \in RequestRow /\ row.held \subseteq PairsOf(row.entries)
    BY <2>2, IdleIs
  <2> QED
    BY <1>3, <2>1, <2>2, <2>3, MovingKeepsIInv
<1>16. CASE t.query = 5 /\ e.quantity <= left
  <2>1. PICK next : next = NextLine(c, t.line)
    OBVIOUS
  <2>2. /\ next \in Nat
        /\ \A i \in DOMAIN t.entries : t.line < i /\ i < next => ~(t.kind = "approve" => t.entries[i].quantity > 0)
    <3> DEFINE S == {i \in DOMAIN t.entries : i > t.line /\ (t.kind = "approve" => t.entries[i].quantity > 0)}
                      \cup {Len(t.entries) + 1}
    <3>1. S \in SUBSET Nat /\ S # {} /\ next = Min(S)
      <4>1. DOMAIN t.entries \subseteq Nat /\ Len(t.entries) \in Nat
        BY <1>4, EntriesAre
      <4>2. Len(t.entries) + 1 \in S /\ S \subseteq Nat
        BY <4>1
      <4>3. next = Min(S)
        BY <1>1, <2>1 DEF NextLine
      <4> QED
        BY ONLY <4>2, <4>3
    <3>2. next \in Nat /\ \A i \in S : next <= i
      <4> HIDE DEF S
      <4> QED
        BY <3>1, MinOfNats
    <3>3. ASSUME NEW i \in DOMAIN t.entries, t.line < i, i < next, t.kind = "approve" => t.entries[i].quantity > 0
          PROVE  FALSE
      <4>1. i \in S /\ i \in Nat
        BY <1>5, <1>4, <3>3, Typed
      <4> HIDE DEF S
      <4> QED
        BY <3>2, <3>3, <4>1
    <3> QED
      BY <3>2, <3>3
  <2>3. PICK row : row = [t EXCEPT !.query = 1, !.left = 0, !.line = next]
    OBVIOUS
  <2>4. row \in RequestRow
    <3>1. PICK k, l : k = 1 /\ l = 0
      OBVIOUS
    <3>2. k \in 0 .. 5 /\ l \in Int /\ t \in RequestRow /\ next \in Nat
      BY <1>4, <2>2, <3>1
    <3>3. row = [t EXCEPT !.query = k, !.left = l, !.line = next]
      BY <2>3, <3>1
    <3> QED
      BY <3>2, <3>3, RowChanged
  <2>5. /\ row.kind = t.kind /\ row.entries = t.entries /\ row.return = t.return /\ row.held = t.held
        /\ row.query = 1 /\ row.left = 0 /\ row.line = next
    BY <1>4, <2>3 DEF RequestRow
  <2>6. request' = [request EXCEPT ![c] = row]
    <3>1. ~(e.quantity > left)
      BY <1>5, <1>13, <1>16
    <3> QED
      BY <1>3, <1>16, <2>1, <2>3, <3>1
  <2>7. ASSUME t.kind \in {"report", "approve"}, NEW i \in DOMAIN t.entries, i < next, t.entries[i].quantity > 0
        PROVE  t.entries[i].quantity <= Room(t.entries[i].pair)
    <3>1. i \in Nat /\ t.line \in Nat
      BY <1>3, <1>5
    <3>2. CASE i < t.line
      BY <1>11, <2>7, <3>2
    <3>3. CASE i = t.line
      BY <1>2, <1>5, <1>7, <1>12, <1>16, <2>7, <3>3
    <3>4. CASE t.line < i
      BY <2>2, <2>7, <3>4
    <3> QED
      BY <3>1, <3>2, <3>3, <3>4
  <2>8. Bound(row.query, t.entries[row.line].pair) = 0
    BY <2>5 DEF Bound
  <2>9. t.kind \in {"report", "approve"} =>
          /\ \A i \in DOMAIN t.entries : i < row.line /\ t.entries[i].quantity > 0 =>
               t.entries[i].quantity <= Room(t.entries[i].pair)
          /\ row.line \in DOMAIN t.entries => row.left <= Bound(row.query, t.entries[row.line].pair)
    BY <2>5, <2>7, <2>8
  <2>10. row.query # 0
    BY <2>5
  <2> QED
    BY <1>10, <2>4, <2>5, <2>6, <2>9, <2>10
<1> QED
  BY <1>4, <1>5, <1>13, <1>14, <1>15, <1>16

-----------------------------------------------------------------------------
(* Requests that commit *)

\* A commit writes what no other request reads: pairs it has locked, and no return
\* that another request approves.
LEMMA CommitKeepsIInv ==
    ASSUME IInv, NEW c \in Clerk, LocksAll(c), request' = [request EXCEPT ![c] = Idle],
           received' = received, sold' \in PerPair, returns' \in Seq(ReturnRow), ReturnsInOrder',
           \A p \in Pair \ PairsOf(request[c].entries) :
             sold'[p] = sold[p] /\ AwaitingIn(returns', p) <= AwaitingIn(returns, p),
           \A d \in Clerk \ {c} : request[d].kind = "approve" =>
             request[d].return \in Return' /\ returns'[request[d].return] = returns[request[d].return]
    PROVE  IInv'
<1>1. request'[c] = Idle /\ \A d \in Clerk \ {c} : request'[d] = request[d]
  BY DEF IInv, TypeOK
<1>2. TypeOK'
  <2>1. request' \in [Clerk -> RequestRow]
    BY IdleIs DEF IInv, TypeOK
  <2>2. \A d \in Clerk : request'[d].held \subseteq PairsOf(request'[d].entries)
    BY <1>1, IdleIs DEF IInv, TypeOK
  <2> QED
    BY <2>1, <2>2 DEF IInv, TypeOK
<1>3. \A p \in Pair : received[p] <= received'[p]
  BY Typed DEF IInv
<1>4. ASSUME NEW d \in Clerk \ {c}, NEW p \in request[d].held
      PROVE  sold'[p] = sold[p] /\ received[p] <= received'[p] /\ Awaiting(p)' <= Awaiting(p)
  <2>1. p \in Pair /\ p \notin request[c].held
    BY <1>4, Typed DEF IInv, RequestRow, LocksExclusive
  <2>2. sold'[p] = sold[p] /\ AwaitingIn(returns', p) <= AwaitingIn(returns, p)
    BY <2>1 DEF LocksAll
  <2>3. Awaiting(p) = AwaitingIn(returns, p) /\ Awaiting(p)' = AwaitingIn(returns', p)
    BY <1>2, <2>1, AwaitingIs, TypedNext DEF IInv
  <2> QED
    BY <1>3, <2>1, <2>2, <2>3
<1> DEFINE A == {c}
<1>5. A \in SUBSET Clerk /\ (\A a, b \in A : a = b) /\ \A a \in A : request'[a] = Idle
  BY <1>1
<1>6. \A d \in Clerk \ A : /\ request'[d] = request[d] /\ d \in Clerk \ {c}
  BY <1>1
<1> HIDE DEF A
<1> QED
  BY <1>2, <1>4, <1>5, <1>6, StepKeepsIInv

LEMMA ReportKeepsIInv == ASSUME IInv, NEW c \in Clerk, Report(c) PROVE IInv'
<1>1. PICK e : e = request[c].entries
  OBVIOUS
<1>2. /\ request[c].kind = "report" /\ LocksAll(c) /\ request' = [request EXCEPT ![c] = Idle]
      /\ sold' = [p \in Pair |-> sold[p] + Asked(e, At(e, p))]
      /\ received' = received /\ returns' = returns
  BY <1>1 DEF Report, Checked
<1>3. e \in Entries
  BY <1>1, <1>2 DEF IInv, RequestOpen
<1>4. \A p \in Pair : /\ sold[p] \in Nat /\ Asked(e, At(e, p)) \in Nat
                      /\ p \notin PairsOf(e) => Asked(e, At(e, p)) = 0
  <2> SUFFICES ASSUME NEW p \in Pair
               PROVE  /\ sold[p] \in Nat /\ Asked(e, At(e, p)) \in Nat
                      /\ p \notin PairsOf(e) => Asked(e, At(e, p)) = 0
    OBVIOUS
  <2>1. At(e, p) \in SUBSET DOMAIN e
    BY DEF At
  <2>2. p \notin PairsOf(e) => At(e, p) = {}
    BY <1>3, WrittenIs
  <2> QED
    BY <1>3, <2>1, <2>2, AskedNat, Typed DEF IInv
<1>5. /\ sold' \in PerPair
      /\ \A p \in Pair \ PairsOf(e) : sold'[p] = sold[p]
  BY <1>2, <1>4 DEF PerPair
<1>6. /\ returns' \in Seq(ReturnRow) /\ ReturnsInOrder'
      /\ \A p \in Pair : AwaitingIn(returns', p) <= AwaitingIn(returns, p)
  <2>1. returns \in Seq(ReturnRow)
    BY DEF IInv, TypeOK
  <2>2. \A p \in Pair : AwaitingIn(returns, p) \in Nat
    BY <2>1, AwaitingSum
  <2> QED
    BY <1>2, <2>1, <2>2 DEF IInv, ReturnsInOrder, Return
<1>7. \A d \in Clerk : request[d].kind = "approve" =>
        request[d].return \in Return' /\ returns'[request[d].return] = returns[request[d].return]
  BY <1>2 DEF IInv, RequestOpen, Return
<1> QED
  BY <1>1, <1>2, <1>5, <1>6, <1>7, CommitKeepsIInv

LEMMA SubmitKeepsIInv ==
    ASSUME IInv, NEW c \in Clerk, Submit(c)
    PROVE  IInv' /\ \A p \in Pair : Awaiting(p)' <= Awaiting(p)
<1>1. PICK e : e = request[c].entries
  OBVIOUS
<1>2. PICK row : row = [status |-> "SUBMITTED", credited |-> FALSE,
                        requested |-> [p \in Pair |-> Written(e, p)],
                        approved |-> [p \in Pair |-> 0], got |-> [p \in Pair |-> 0],
                        lot |-> [p \in Pair |-> 0]]
  OBVIOUS
<1>3. /\ request[c].kind = "submit" /\ LocksAll(c) /\ request' = [request EXCEPT ![c] = Idle]
      /\ returns' = returns \/ returns' = Append(returns, row)
      /\ received' = received /\ sold' = sold
  BY <1>1, <1>2 DEF Submit, Checked
<1>4. e \in Entries
  BY <1>1, <1>3 DEF IInv, RequestOpen
<1>5. row \in ReturnRow /\ row.status = "SUBMITTED" /\ ~row.credited /\ \A p \in Pair : row.approved[p] = 0
  <2>1. \A p \in Pair : Written(e, p) \in Nat
    BY <1>4, WrittenIs
  <2>2. [p \in Pair |-> Written(e, p)] \in PerPair /\ [p \in Pair |-> 0] \in PerPair
    BY <2>1 DEF PerPair
  <2> QED
    BY <1>2, <2>2 DEF ReturnRow, Statuses
<1>6. returns \in Seq(ReturnRow) /\ sold \in PerPair
  BY DEF IInv, TypeOK
<1>7. returns' \in Seq(ReturnRow) /\ \A p \in Pair : AwaitingIn(returns', p) <= AwaitingIn(returns, p)
  <2>1. \A p \in Pair : AwaitingIn(returns, p) \in Nat
    BY <1>6, AwaitingSum
  <2>2. CASE returns' = returns
    BY <1>6, <2>1, <2>2
  <2>3. CASE returns' = Append(returns, row)
    <3>1. PICK s : s = Append(returns, row)
      OBVIOUS
    <3>2. s \in Seq(ReturnRow)
      BY <1>5, <1>6, <3>1
    <3>3. \A p \in Pair : AwaitingIn(s, p) = AwaitingIn(returns, p)
      BY <1>5, <1>6, <3>1, AwaitingAppended
    <3> QED
      BY <2>1, <2>3, <3>1, <3>2, <3>3
  <2> QED
    BY <1>3, <2>2, <2>3
<1>8. /\ \A r \in Return : r \in Return' /\ returns'[r] = returns[r]
      /\ \A r \in Return' \ Return : returns'[r] = row
  BY <1>3, <1>6 DEF Return
<1>9. ReturnsInOrder'
  BY <1>5, <1>8 DEF IInv, ReturnsInOrder
<1>10. \A d \in Clerk : request[d].kind = "approve" =>
         request[d].return \in Return' /\ returns'[request[d].return] = returns[request[d].return]
  BY <1>8 DEF IInv, RequestOpen
<1>11. IInv'
  BY <1>3, <1>6, <1>7, <1>9, <1>10, CommitKeepsIInv
<1>12. TypeOK /\ TypeOK'
  BY <1>11 DEF IInv
<1>13. \A p \in Pair : Awaiting(p) = AwaitingIn(returns, p) /\ Awaiting(p)' = AwaitingIn(returns', p)
  BY <1>12, AwaitingIs, TypedNext
<1> QED
  BY <1>7, <1>11, <1>13

LEMMA ApproveKeepsIInv == ASSUME IInv, NEW c \in Clerk, Approve(c) PROVE IInv'
<1>1. PICK e, r : e = request[c].entries /\ r = request[c].return
  OBVIOUS
<1>2. PICK approved : approved = [p \in Pair |-> Written(e, p)]
  OBVIOUS
<1>3. PICK row : row = [returns[r] EXCEPT !.status = "APPROVED", !.approved = approved]
  OBVIOUS
<1>4. /\ request[c].kind = "approve" /\ LocksAll(c) /\ request' = [request EXCEPT ![c] = Idle]
      /\ received' = received /\ sold' = sold
  BY DEF Approve, Checked
<1>5. /\ e \in Entries /\ r \in Return /\ returns[r].status = "SUBMITTED" /\ NamesTheLines(e, r)
      /\ \A d \in Clerk \ {c} : request[d].return # r
  <2>1. r # 0
    BY <1>1, <1>4 DEF IInv, RequestOpen, TypeOK, Return
  <2> QED
    BY <1>1, <1>4, <2>1 DEF IInv, RequestOpen
<1>6. returns \in Seq(ReturnRow) /\ sold \in PerPair /\ returns[r] \in ReturnRow
  BY <1>5 DEF IInv, TypeOK, Return
<1>7. \A p \in Pair : Written(e, p) \in Nat /\ (p \notin PairsOf(e) => Written(e, p) = 0)
  BY <1>5, WrittenIs
<1>8. /\ row \in ReturnRow /\ row.status = "APPROVED" /\ row.credited = returns[r].credited
      /\ row.requested = returns[r].requested /\ row.approved = approved
  <2>1. approved \in PerPair
    BY <1>2, <1>7 DEF PerPair
  <2> QED
    BY <1>3, <1>6, <2>1 DEF ReturnRow, Statuses
<1>9. returns' = [returns EXCEPT ![r] = row]
  <2>1. returns' = [returns EXCEPT ![r].status = "APPROVED", ![r].approved = approved]
    BY <1>1, <1>2 DEF Approve
  <2> QED
    BY <1>3, <1>5, <1>6, <2>1 DEF Return
<1>10. /\ returns' \in Seq(ReturnRow)
       /\ \A p \in Pair \ PairsOf(e) : AwaitingIn(returns', p) <= AwaitingIn(returns, p)
  <2>1. PICK s, old : s = returns' /\ old = returns
    OBVIOUS
  <2>2. s = [old EXCEPT ![r] = row] /\ old \in Seq(ReturnRow) /\ r \in DOMAIN old
    BY <1>5, <1>6, <1>9, <2>1 DEF Return
  <2>3. s \in Seq(ReturnRow)
    BY <1>8, <2>2
  <2>4. ASSUME NEW p \in Pair \ PairsOf(e) PROVE AwaitingIn(s, p) <= AwaitingIn(old, p)
    <3>1. Share(old[r], p) = 0 /\ Share(row, p) = 0
      BY <1>2, <1>5, <1>7, <1>8, <2>1 DEF Share
    <3>2. Share(row, p) <= Share(old[r], p) /\ p \in Pair
      BY <3>1
    <3> QED
      BY <1>8, <2>2, <3>2, AwaitingRewritten
  <2> QED
    BY <2>1, <2>3, <2>4
<1>11. Return' = Return /\ returns'[r] = row /\ \A q \in Return \ {r} : returns'[q] = returns[q]
  BY <1>5, <1>6, <1>9 DEF Return
<1>12. ReturnsInOrder'
  <2>1. ~returns[r].credited
    BY <1>5 DEF IInv, ReturnsInOrder
  <2>2. \A p \in Pair : returns[r].requested[p] = 0 => approved[p] = 0
    <3>1. \A p \in Pair : returns[r].requested[p] \in Nat
      BY <1>6 DEF ReturnRow, PerPair
    <3>2. \A p \in Pair : returns[r].requested[p] = 0 => p \notin PairsOf(e)
      BY <1>5, <3>1 DEF NamesTheLines
    <3> QED
      BY <1>2, <1>7, <3>2
  <2> QED
    BY <1>8, <1>11, <2>1, <2>2 DEF IInv, ReturnsInOrder
<1>13. \A d \in Clerk \ {c} : request[d].kind = "approve" =>
         request[d].return \in Return' /\ returns'[request[d].return] = returns[request[d].return]
  BY <1>5, <1>11 DEF IInv, RequestOpen
<1> QED
  BY <1>1, <1>4, <1>6, <1>10, <1>12, <1>13, CommitKeepsIInv

-----------------------------------------------------------------------------
(* Steps that take no pair lock *)

\* A return that no request acts on is rewritten, and no more is awaited of it.
LEMMA RewriteKeepsIInv ==
    ASSUME IInv, NEW r \in Return, NEW row \in ReturnRow, Rewrite(r, row),
           \A p \in Pair : Share(row, p) <= Share(returns[r], p),
           row.credited => row.status \in {"APPROVED", "RECEIVED"},
           row.requested = returns[r].requested, row.approved = returns[r].approved
    PROVE  IInv' /\ \A p \in Pair : Awaiting(p)' <= Awaiting(p)
<1>1. PICK s, old : s = returns' /\ old = returns
  OBVIOUS
<1>2. /\ s = [old EXCEPT ![r] = row] /\ old \in Seq(ReturnRow) /\ r \in DOMAIN old
      /\ UNCHANGED <<received, sold, request>> /\ \A c \in Clerk : request[c].return # r
  BY <1>1 DEF Rewrite, ReturnIsFree, IInv, TypeOK, Return
<1>3. s \in Seq(ReturnRow) /\ DOMAIN s = DOMAIN old /\ s[r] = row /\ \A q \in DOMAIN s \ {r} : s[q] = old[q]
  BY <1>2
<1>4. TypeOK'
  BY <1>1, <1>2, <1>3 DEF IInv, TypeOK
<1>5. ReturnsInOrder'
  BY <1>1, <1>2, <1>3 DEF IInv, ReturnsInOrder, Return
<1>6. ASSUME NEW p \in Pair PROVE Awaiting(p)' <= Awaiting(p)
  <2>1. AwaitingIn(s, p) <= AwaitingIn(old, p)
    BY <1>1, <1>2, <1>6, AwaitingRewritten
  <2> QED
    BY <1>1, <1>4, <1>6, <2>1, AwaitingIs, TypedNext DEF IInv
<1>7. \A d \in Clerk : \A p \in request[d].held :
        sold'[p] = sold[p] /\ received[p] <= received'[p] /\ Awaiting(p)' <= Awaiting(p)
  BY <1>2, <1>6, Typed DEF IInv, RequestRow
<1>8. \A d \in Clerk : request[d].kind = "approve" =>
        request[d].return \in Return' /\ returns'[request[d].return] = returns[request[d].return]
  BY <1>1, <1>2, <1>3 DEF IInv, RequestOpen, Return
<1> DEFINE A == {}
<1>9. A \in SUBSET Clerk /\ (\A a, b \in A : a = b) /\ \A d \in Clerk \ A : request'[d] = request[d]
  BY <1>2
<1>10. \A a \in A : request'[a] = Idle
  OBVIOUS
<1> HIDE DEF A
<1> QED
  BY <1>4, <1>5, <1>6, <1>7, <1>8, <1>9, <1>10, StepKeepsIInv

LEMMA ReturnStepsKeepIInv ==
    ASSUME IInv, NEW r \in Return, Reject(r) \/ RecordCreditNote(r) \/ Cancel(r) \/ Receive(r)
    PROVE  IInv' /\ \A p \in Pair : Awaiting(p)' <= Awaiting(p)
<1>1. PICK old : old = returns[r]
  OBVIOUS
<1>2. /\ old \in ReturnRow /\ \A p \in Pair : old.approved[p] \in Nat /\ Share(old, p) \in Nat
  <2>1. returns \in Seq(ReturnRow) /\ r \in DOMAIN returns
    BY DEF IInv, TypeOK, Return
  <2> QED
    BY <1>1, <2>1, RowsAre
<1>3. old.credited => old.status \in {"APPROVED", "RECEIVED"}
  BY <1>1 DEF IInv, ReturnsInOrder
<1>4. ASSUME NEW row \in ReturnRow, Rewrite(r, row), row.status # "APPROVED" \/ row.status = old.status,
             row.credited => row.status \in {"APPROVED", "RECEIVED"},
             row.requested = old.requested, row.approved = old.approved
      PROVE  IInv' /\ \A p \in Pair : Awaiting(p)' <= Awaiting(p)
  <2>1. \A p \in Pair : Share(row, p) <= Share(old, p)
    BY <1>2, <1>4 DEF Share
  <2> QED
    BY <1>1, <1>4, <2>1, RewriteKeepsIInv
<1>5. CASE Reject(r)
  <2>1. PICK row : row = [old EXCEPT !.status = "REJECTED"]
    OBVIOUS
  <2>2. /\ row \in ReturnRow /\ row.status = "REJECTED" /\ row.credited = old.credited
        /\ row.requested = old.requested /\ row.approved = old.approved
    BY <1>2, <2>1 DEF ReturnRow, Statuses
  <2>3. Rewrite(r, row) /\ old.status = "SUBMITTED"
    BY <1>1, <1>5, <2>1 DEF Reject
  <2> QED
    BY <1>3, <1>4, <2>2, <2>3
<1>6. CASE RecordCreditNote(r)
  <2>1. PICK row : row = [old EXCEPT !.credited = TRUE]
    OBVIOUS
  <2>2. /\ row \in ReturnRow /\ row.status = old.status
        /\ row.requested = old.requested /\ row.approved = old.approved
    BY <1>2, <2>1 DEF ReturnRow, Statuses
  <2>3. Rewrite(r, row) /\ old.status \in {"APPROVED", "RECEIVED"}
    BY <1>1, <1>6, <2>1 DEF RecordCreditNote
  <2> QED
    BY <1>4, <2>2, <2>3
<1>7. CASE Cancel(r)
  <2>1. PICK row : row = [old EXCEPT !.status = "CANCELLED"]
    OBVIOUS
  <2>2. /\ row \in ReturnRow /\ row.status = "CANCELLED" /\ row.credited = old.credited
        /\ row.requested = old.requested /\ row.approved = old.approved
    BY <1>2, <2>1 DEF ReturnRow, Statuses
  <2>3. Rewrite(r, row) /\ (old.status = "SUBMITTED" \/ ~old.credited)
    BY <1>1, <1>7, <2>1 DEF Cancel
  <2> QED
    BY <1>3, <1>4, <2>2, <2>3
<1>8. CASE Receive(r)
  <2>1. PICK e \in Entries :
          Rewrite(r, [old EXCEPT !.status = "RECEIVED",
                        !.got = [p \in Pair |-> Written(e, p)],
                        !.lot = [p \in Pair |-> Asked(e, {i \in At(e, p) : e[i].quantity > 0})]])
    BY <1>1, <1>8 DEF Receive
  <2>2. PICK got, lot : /\ got = [p \in Pair |-> Written(e, p)]
                        /\ lot = [p \in Pair |-> Asked(e, {i \in At(e, p) : e[i].quantity > 0})]
    OBVIOUS
  <2>3. got \in PerPair /\ lot \in PerPair
    <3>1. \A p \in Pair : Written(e, p) \in Nat
      BY WrittenIs
    <3>2. \A p \in Pair : {i \in At(e, p) : e[i].quantity > 0} \in SUBSET DOMAIN e
      BY DEF At
    <3>3. \A p \in Pair : Asked(e, {i \in At(e, p) : e[i].quantity > 0}) \in Nat
      BY <3>2, AskedNat
    <3> QED
      BY <2>2, <3>1, <3>3 DEF PerPair
  <2>4. PICK row : row = [old EXCEPT !.status = "RECEIVED", !.got = got, !.lot = lot]
    OBVIOUS
  <2>5. /\ row \in ReturnRow /\ row.status = "RECEIVED"
        /\ row.requested = old.requested /\ row.approved = old.approved
    BY <1>2, <2>3, <2>4 DEF ReturnRow, Statuses
  <2>6. Rewrite(r, row)
    BY <2>1, <2>2, <2>4
  <2> QED
    BY <1>4, <2>5, <2>6
<1> QED
  BY <1>5, <1>6, <1>7, <1>8

LEMMA DeliverKeepsIInv == ASSUME IInv, Deliver PROVE IInv'
<1>1. TypeOK' /\ ReturnsInOrder'
  BY DEF Deliver, IInv, TypeOK, ReturnsInOrder, Return
<1>2. \A p \in Pair : /\ sold'[p] = sold[p] /\ received[p] <= received'[p]
                      /\ Awaiting(p)' <= Awaiting(p)
  <2>1. \A p \in Pair : received[p] = 0 /\ received'[p] \in Nat
    BY <1>1, TypedNext DEF Deliver, NotDelivered
  <2>2. \A p \in Pair : Awaiting(p)' = Awaiting(p) /\ Awaiting(p) \in Nat
    BY <1>1, AwaitingIs, TypedNext DEF IInv, Deliver
  <2> QED
    BY <2>1, <2>2 DEF Deliver
<1>3. \A d \in Clerk : request[d].held \subseteq Pair
  BY Typed DEF IInv, RequestRow
<1>4. \A d \in Clerk : request[d].kind = "approve" =>
        request[d].return \in Return' /\ returns'[request[d].return] = returns[request[d].return]
  BY DEF IInv, RequestOpen, Return, Deliver
<1> DEFINE A == {}
<1>5. A \in SUBSET Clerk /\ (\A a, b \in A : a = b) /\ \A d \in Clerk \ A : request'[d] = request[d]
  BY DEF Deliver
<1>6. \A a \in A : request'[a] = Idle
  OBVIOUS
<1> HIDE DEF A
<1> QED
  BY <1>1, <1>2, <1>3, <1>4, <1>5, <1>6, StepKeepsIInv

LEMMA NextIInv == IInv /\ [Next]_vars => IInv'
<1> SUFFICES ASSUME IInv, [Next]_vars PROVE IInv'
  OBVIOUS
<1>1. CASE Deliver
  BY <1>1, DeliverKeepsIInv
<1>2. ASSUME NEW c \in Clerk, OpenReport(c) \/ OpenSubmit(c) \/ OpenApprove(c) PROVE IInv'
  BY <1>2, OpensKeepIInv
<1>3. ASSUME NEW c \in Clerk, LockPair(c) PROVE IInv'
  BY <1>3, LockPairKeepsIInv
<1>4. ASSUME NEW c \in Clerk, Query(c) PROVE IInv'
  BY <1>4, QueryKeepsIInv
<1>5. ASSUME NEW c \in Clerk, Report(c) PROVE IInv'
  BY <1>5, ReportKeepsIInv
<1>6. ASSUME NEW c \in Clerk, Submit(c) PROVE IInv'
  BY <1>6, SubmitKeepsIInv
<1>7. ASSUME NEW c \in Clerk, Approve(c) PROVE IInv'
  BY <1>7, ApproveKeepsIInv
<1>8. ASSUME NEW c \in Clerk, Rollback(c) PROVE IInv'
  BY <1>8, RollbackKeepsIInv
<1>9. ASSUME NEW r \in Return, Reject(r) \/ RecordCreditNote(r) \/ Cancel(r) \/ Receive(r) PROVE IInv'
  BY <1>9, ReturnStepsKeepIInv
<1>10. CASE UNCHANGED vars
  <2>1. TypeOK' /\ LocksExclusive' /\ ReturnsInOrder'
    BY <1>10 DEF vars, IInv, TypeOK, LocksExclusive, ReturnsInOrder, Return
  <2>2. \A c \in Clerk : RequestOpen(c)'
    BY <1>10 DEF vars, IInv, RequestOpen, Return, LocksAll, NamesTheLines
  <2>3. ASSUME NEW c \in Clerk PROVE CheckHolds(c)'
    <3>1. request'[c] = request[c] /\ (LocksAll(c)' <=> LocksAll(c))
      BY <1>10 DEF vars, LocksAll
    <3>2. \A p : Room(p)' = Room(p)
      BY <1>10 DEF vars, Room, Awaiting, Answer, With, Return
    <3>3. \A n, p : Bound(n, p)' = Bound(n, p)
      BY <1>10, <3>2 DEF vars, Bound
    <3>4. CheckHolds(c)
      BY DEF IInv
    <3> QED
      BY ONLY <3>1, <3>2, <3>3, <3>4 DEF CheckHolds
  <2> QED
    BY <2>1, <2>2, <2>3 DEF IInv
<1> QED
  BY <1>1, <1>2, <1>3, <1>4, <1>5, <1>6, <1>7, <1>8, <1>9, <1>10 DEF Next

\* The strengthened invariant holds of every state of a behavior.
THEOREM Invariance == Spec => []IInv
<1> QED
  BY InitIInv, NextIInv, PTL DEF Spec

\* Every variable has its type in every state, for any pairs, quantities and
\* requests.
THEOREM TypeCorrect == Spec => []TypeOK
<1>1. IInv => TypeOK
  BY DEF IInv
<1> QED
  BY <1>1, Invariance, PTL

-----------------------------------------------------------------------------
(* Committed within received *)

\* Goods are committed by a report and by an approval, and by nothing else.
LEMMA OthersCommitNothing ==
    ASSUME IInv, [Next]_vars, NEW p \in Pair
    PROVE  \/ \E c \in Clerk : Report(c) \/ Approve(c)
           \/ sold'[p] = sold[p] /\ received[p] <= received'[p] /\ Awaiting(p)' <= Awaiting(p)
<1>1. received[p] \in Nat /\ sold[p] \in Nat /\ Awaiting(p) \in Nat /\ TypeOK'
  BY Typed, NextIInv DEF IInv
<1>2. CASE UNCHANGED <<received, sold, returns>>
  BY <1>1, <1>2, AwaitingIs, TypedNext DEF IInv
<1>3. CASE Deliver
  <2>1. received[p] = 0 /\ received'[p] \in Nat
    BY <1>1, <1>3, TypedNext DEF Deliver, NotDelivered
  <2> QED
    BY <1>1, <1>3, <2>1, AwaitingIs, TypedNext DEF IInv, Deliver
<1>4. ASSUME NEW c \in Clerk, Submit(c)
      PROVE  sold'[p] = sold[p] /\ received[p] <= received'[p] /\ Awaiting(p)' <= Awaiting(p)
  <2>1. received' = received /\ sold' = sold
    BY <1>4 DEF Submit
  <2> QED
    BY <1>1, <1>4, <2>1, SubmitKeepsIInv
<1>5. ASSUME NEW r \in Return, Reject(r) \/ RecordCreditNote(r) \/ Cancel(r) \/ Receive(r)
      PROVE  sold'[p] = sold[p] /\ received[p] <= received'[p] /\ Awaiting(p)' <= Awaiting(p)
  <2>1. received' = received /\ sold' = sold
    BY <1>5 DEF Reject, RecordCreditNote, Cancel, Receive, Rewrite
  <2> QED
    BY <1>1, <1>5, <2>1, ReturnStepsKeepIInv
<1>6. ASSUME NEW c \in Clerk, \/ OpenReport(c) \/ OpenSubmit(c) \/ OpenApprove(c)
                              \/ LockPair(c) \/ Query(c) \/ Rollback(c)
      PROVE  UNCHANGED <<received, sold, returns>>
  BY <1>6 DEF OpenReport, OpenSubmit, OpenApprove, Open, LockPair, Query, Rollback
<1> QED
  BY <1>2, <1>3, <1>4, <1>5, <1>6 DEF Next, vars

\* The lines a request has checked, in the end all of them, there is room for.
LEMMA AllChecked ==
    ASSUME IInv, NEW c \in Clerk, NEW kind \in {"report", "approve"}, Checked(c, kind)
    PROVE  /\ request[c].entries \in Entries
           /\ \A i \in DOMAIN request[c].entries :
                LET n == request[c].entries[i].quantity
                IN  n = 0 \/ n <= Room(request[c].entries[i].pair)
<1>1. PICK t : t = request[c]
  OBVIOUS
<1>2. t.kind = kind /\ t.line = Len(t.entries) + 1 /\ t.entries \in Entries
  BY <1>1 DEF Checked, IInv, RequestOpen
<1>3. \A i \in DOMAIN t.entries : i < t.line /\ t.entries[i].quantity \in Nat
  <2>1. DOMAIN t.entries = 1 .. Len(t.entries) /\ Len(t.entries) \in Nat
    BY <1>2, EntriesAre
  <2> QED
    BY <1>2, <2>1, EntriesAre
<1>4. \A i \in DOMAIN t.entries : i < t.line /\ t.entries[i].quantity > 0 =>
        t.entries[i].quantity <= Room(t.entries[i].pair)
  BY <1>1, <1>2 DEF IInv, CheckHolds
<1> QED
  BY <1>1, <1>2, <1>3, <1>4

\* A report takes from the rest of a pair what its lines of the pair ask for.
LEMMA ReportTakes ==
    ASSUME IInv, NEW c \in Clerk, Report(c), NEW p \in Pair
    PROVE  /\ request[c].entries \in Entries /\ received' = received /\ Awaiting(p)' = Awaiting(p)
           /\ sold'[p] = sold[p] + Asked(request[c].entries, At(request[c].entries, p))
           /\ Asked(request[c].entries, At(request[c].entries, p)) \in Nat
<1>1. request[c].entries \in Entries /\ received' = received
  BY AllChecked DEF Report
<1>2. sold'[p] = sold[p] + Asked(request[c].entries, At(request[c].entries, p))
  BY DEF Report
<1>3. Awaiting(p)' = Awaiting(p)
  BY DEF Report, Awaiting, Answer, With, Return
<1>4. At(request[c].entries, p) \in SUBSET DOMAIN request[c].entries
  BY DEF At
<1> QED
  BY <1>1, <1>2, <1>3, <1>4, AskedNat

\* An approval takes at most what it writes on the line of the pair.
LEMMA ApproveTakes ==
    ASSUME IInv, NEW c \in Clerk, Approve(c), NEW p \in Pair
    PROVE  /\ request[c].entries \in Entries /\ received' = received /\ sold' = sold
           /\ Awaiting(p)' <= Awaiting(p) + Written(request[c].entries, p)
           /\ Written(request[c].entries, p) \in Nat
<1>1. PICK e, r : e = request[c].entries /\ r = request[c].return
  OBVIOUS
<1>2. PICK approved : approved = [q \in Pair |-> Written(e, q)]
  OBVIOUS
<1>3. PICK row : row = [returns[r] EXCEPT !.status = "APPROVED", !.approved = approved]
  OBVIOUS
<1>4. e \in Entries /\ received' = received /\ sold' = sold
  BY <1>1, AllChecked DEF Approve
<1>5. r \in Return /\ returns \in Seq(ReturnRow) /\ r \in DOMAIN returns /\ returns[r] \in ReturnRow
  <2>1. r \in Return
    BY <1>1 DEF Approve, Checked, IInv, RequestOpen
  <2> QED
    BY <2>1 DEF IInv, TypeOK, Return
<1>6. \A q \in Pair : Written(e, q) \in Nat
  BY <1>4, WrittenIs
<1>7. row \in ReturnRow /\ row.status = "APPROVED" /\ row.approved = approved
  <2>1. approved \in PerPair
    BY <1>2, <1>6 DEF PerPair
  <2> QED
    BY <1>3, <1>5, <2>1 DEF ReturnRow, Statuses
<1>8. PICK s, old : s = returns' /\ old = returns
  OBVIOUS
<1>9. s = [old EXCEPT ![r] = row] /\ r \in DOMAIN old /\ old \in Seq(ReturnRow)
  <2>1. returns' = [returns EXCEPT ![r].status = "APPROVED", ![r].approved = approved]
    BY <1>1, <1>2 DEF Approve
  <2> QED
    BY <1>3, <1>5, <1>8, <2>1
<1>10. /\ AwaitingIn(s, p) = AwaitingIn(old, p) - Share(old[r], p) + Share(row, p)
       /\ Share(old[r], p) \in Nat
  BY <1>7, <1>9, AwaitingRewritten, RowsAre
<1>11. Awaiting(p) = AwaitingIn(old, p) /\ Awaiting(p)' = AwaitingIn(s, p) /\ Awaiting(p) \in Nat
  <2>1. TypeOK'
    BY ApproveKeepsIInv DEF IInv
  <2> QED
    BY <1>8, <2>1, AwaitingIs, TypedNext, Typed DEF IInv
<1>12. Share(row, p) = Written(e, p) /\ Written(e, p) \in Nat
  BY <1>2, <1>6, <1>7 DEF Share
<1> QED
  BY <1>1, <1>4, <1>10, <1>11, <1>12

\* What is sold of a pair and approved to come back grows only by a report or an
\* approval each of whose lines of the pair fits, at its commit, into what is left of
\* the goods received: the pair locks keep each check true until then.
THEOREM LinesAreCovered == Spec => EachLineIsCovered
<1>1. ASSUME IInv, [Next]_vars, NEW p \in Pair, sold'[p] + Awaiting(p)' > sold[p] + Awaiting(p)
      PROVE  \E c \in Clerk :
               /\ Report(c) \/ Approve(c)
               /\ \A i \in At(request[c].entries, p) : request[c].entries[i].quantity <= Room(p)
  <2>1. /\ received[p] \in Nat /\ sold[p] \in Nat /\ Awaiting(p) \in Nat
        /\ sold'[p] \in Nat /\ Awaiting(p)' \in Nat
    BY <1>1, Typed, TypedNext, NextIInv DEF IInv
  <2>2. PICK c \in Clerk : Report(c) \/ Approve(c)
    BY <1>1, <2>1, OthersCommitNothing
  <2>3. PICK e : e = request[c].entries
    OBVIOUS
  <2>4. /\ e \in Entries
        /\ \A i \in DOMAIN e : e[i].quantity = 0 \/ e[i].quantity <= Room(e[i].pair)
    BY <1>1, <2>2, <2>3, AllChecked DEF Report, Approve
  <2>5. \E i \in At(e, p) : e[i].quantity # 0
    <3>1. CASE Report(c)
      <4>1. Asked(e, At(e, p)) # 0
        BY <1>1, <2>1, <2>3, <3>1, ReportTakes
      <4>2. At(e, p) \in SUBSET DOMAIN e
        BY DEF At
      <4> QED
        BY <2>4, <4>1, <4>2, AskedNat
    <3>2. CASE Approve(c)
      <4>1. Written(e, p) # 0
        BY <1>1, <2>1, <2>3, <3>2, ApproveTakes
      <4>2. p \in PairsOf(e)
        BY <2>4, <4>1, WrittenIs
      <4> QED
        BY <2>4, <4>1, <4>2, WrittenIs DEF At
    <3> QED
      BY <2>2, <3>1, <3>2
  <2>6. \A i \in At(e, p) : i \in DOMAIN e /\ e[i].pair = p /\ e[i].quantity \in Nat
    BY <2>4, EntriesAre DEF At
  <2>7. \A i \in At(e, p) : e[i].quantity = 0 \/ e[i].quantity <= Room(p)
    BY <2>4, <2>6
  <2>8. Room(p) \in Int
    BY <2>1 DEF Room
  <2>9. \A i \in At(e, p) : e[i].quantity <= Room(p)
    BY <2>5, <2>6, <2>7, <2>8
  <2> QED
    BY <2>2, <2>3, <2>9
<1>2. IInv /\ [Next]_vars =>
        [\A p \in Pair : sold'[p] + Awaiting(p)' > sold[p] + Awaiting(p) =>
           \E c \in Clerk :
             /\ Report(c) \/ Approve(c)
             /\ \A i \in At(request[c].entries, p) : request[c].entries[i].quantity <= Room(p)]_vars
  BY <1>1
<1> QED
  BY <1>2, Invariance, PTL DEF Spec, EachLineIsCovered

\* What is asked for of a pair that stands on at most one line is what that line says.
LEMMA OnOneLine ==
    ASSUME NEW e \in Entries, NEW p \in Pair, ~(Cardinality(At(e, p)) > 1)
    PROVE  Asked(e, At(e, p)) = 0 \/ \E i \in At(e, p) : Asked(e, At(e, p)) = e[i].quantity
<1>1. At(e, p) \in SUBSET DOMAIN e /\ IsFiniteSet(At(e, p))
  BY EntriesAre, FS_Subset DEF At
<1>2. Cardinality(At(e, p)) \in Nat
  BY <1>1, FS_CardinalityType
<1>3. CASE At(e, p) = {}
  BY <1>1, <1>3, AskedNat
<1>4. CASE At(e, p) # {}
  <2>1. PICK i : i \in At(e, p)
    BY <1>4
  <2>2. Cardinality(At(e, p)) = 1
    BY <1>1, <1>2, <1>4, FS_EmptySet
  <2>3. At(e, p) = {i}
    BY <1>1, <2>1, <2>2, FS_Singleton
  <2>4. Asked(e, At(e, p)) = e[i].quantity
    BY <1>1, <2>1, <2>3, AskedNat
  <2> QED
    BY <2>1, <2>4
<1> QED
  BY <1>3, <1>4

\* Only a report that names a pair on two lines takes what is sold of it and approved
\* to come back beyond what was received.
THEOREM OnlyRepeats == Spec => OnlyRepeatsOversell
<1>1. ASSUME IInv, [Next]_vars, NEW p \in Pair, Room(p)' < Room(p), Room(p)' < 0
      PROVE  \E c \in Clerk : Report(c) /\ Cardinality(At(request[c].entries, p)) > 1
  <2>1. /\ received[p] \in Nat /\ sold[p] \in Nat /\ Awaiting(p) \in Nat
        /\ received'[p] \in Nat /\ sold'[p] \in Nat /\ Awaiting(p)' \in Nat
        /\ Room(p)' = received'[p] - sold'[p] - Awaiting(p)'
    BY <1>1, Typed, TypedNext, NextIInv DEF IInv, Room
  <2>2. PICK c \in Clerk : Report(c) \/ Approve(c)
    BY <1>1, <2>1, OthersCommitNothing DEF Room
  <2>3. PICK e : e = request[c].entries
    OBVIOUS
  <2>4. /\ e \in Entries
        /\ \A i \in DOMAIN e : e[i].quantity = 0 \/ e[i].quantity <= Room(e[i].pair)
    BY <1>1, <2>2, <2>3, AllChecked DEF Report, Approve
  <2>5. CASE Approve(c)
    <3>1. Written(e, p) \in Nat /\ Room(p)' >= Room(p) - Written(e, p)
      BY <1>1, <2>1, <2>3, <2>5, ApproveTakes DEF Room
    <3>2. Written(e, p) = 0 \/ Written(e, p) <= Room(p)
      BY <2>4, WrittenIs
    <3>3. Room(p) \in Int /\ Room(p)' \in Int
      BY <2>1 DEF Room
    <3> QED
      BY <1>1, <3>1, <3>2, <3>3
  <2>6. CASE Report(c) /\ ~(Cardinality(At(e, p)) > 1)
    <3>1. Asked(e, At(e, p)) \in Nat /\ Room(p)' = Room(p) - Asked(e, At(e, p))
      BY <1>1, <2>1, <2>3, <2>6, ReportTakes DEF Room
    <3>2. Asked(e, At(e, p)) = 0 \/ Asked(e, At(e, p)) <= Room(p)
      <4>1. \A i \in At(e, p) : i \in DOMAIN e /\ e[i].pair = p
        BY DEF At
      <4>2. PICK n : n = Asked(e, At(e, p))
        OBVIOUS
      <4>3. n = 0 \/ \E i \in At(e, p) : n = e[i].quantity
        BY <2>4, <2>6, <4>2, OnOneLine
      <4> QED
        BY <2>4, <4>1, <4>2, <4>3
    <3>3. Room(p) \in Int /\ Room(p)' \in Int
      BY <2>1 DEF Room
    <3> QED
      BY <1>1, <3>1, <3>2, <3>3
  <2> QED
    BY <2>2, <2>3, <2>5, <2>6
<1>2. IInv /\ [Next]_vars =>
        [\A p \in Pair : Room(p)' < Room(p) /\ Room(p)' < 0 =>
           \E c \in Clerk : Report(c) /\ Cardinality(At(request[c].entries, p)) > 1]_vars
  BY <1>1
<1> QED
  BY <1>2, Invariance, PTL DEF Spec, OnlyRepeatsOversell

-----------------------------------------------------------------------------
(* Credit notes and lots *)

\* A receipt of a return with a credit note writes what was approved.
LEMMA ReceiptIs ==
    ASSUME IInv, NEW r \in Return, NEW e \in Entries, NamesTheLines(e, r), NEW p \in Pair
    PROVE  (returns[r].credited => \A i \in DOMAIN e : e[i].quantity = returns[r].approved[e[i].pair]) =>
             (returns[r].credited => Written(e, p) = returns[r].approved[p])
<1> SUFFICES ASSUME returns[r].credited, \A i \in DOMAIN e : e[i].quantity = returns[r].approved[e[i].pair]
             PROVE  Written(e, p) = returns[r].approved[p]
  OBVIOUS
<1>1. CASE p \in PairsOf(e)
  BY <1>1, WrittenIs
<1>2. CASE p \notin PairsOf(e)
  <2>1. Written(e, p) = 0
    BY <1>2, WrittenIs
  <2>2. returns[r].requested[p] \in Nat
    BY RowsAre DEF IInv, TypeOK, Return
  <2>3. returns[r].approved[p] = 0
    BY <1>2, <2>2 DEF NamesTheLines, IInv, ReturnsInOrder
  <2> QED
    BY <2>1, <2>3
<1> QED
  BY <1>1, <1>2

\* A step leaves a return as it is, or is one of its own.
LEMMA ReturnStays ==
    ASSUME IInv, [Next]_vars, NEW q \in Return
    PROVE  \/ returns'[q] = returns[q]
           \/ \E c \in Clerk : Approve(c) /\ request[c].return = q
           \/ Reject(q) \/ RecordCreditNote(q) \/ Cancel(q) \/ Receive(q)
<1>1. returns \in Seq(ReturnRow) /\ q \in DOMAIN returns
  BY DEF IInv, TypeOK, Return
<1>2. ASSUME NEW c \in Clerk, Submit(c) PROVE returns'[q] = returns[q]
  <2>1. \A row : Append(returns, row)[q] = returns[q]
    BY <1>1
  <2> QED
    BY <1>2, <2>1 DEF Submit
<1>3. ASSUME NEW c \in Clerk, Approve(c), request[c].return # q PROVE returns'[q] = returns[q]
  <2>1. PICK r, m : r = request[c].return /\ m = [p \in Pair |-> Written(request[c].entries, p)]
    OBVIOUS
  <2>2. returns' = [returns EXCEPT ![r].status = "APPROVED", ![r].approved = m]
    BY <1>3, <2>1 DEF Approve
  <2> QED
    BY <1>1, <1>3, <2>1, <2>2
<1>4. ASSUME NEW r \in Return, r # q, NEW row, Rewrite(r, row) PROVE returns'[q] = returns[q]
  BY <1>1, <1>4 DEF Rewrite
<1>5. ASSUME NEW r \in Return, r # q, Reject(r) \/ RecordCreditNote(r) \/ Cancel(r) \/ Receive(r)
      PROVE  returns'[q] = returns[q]
  BY <1>4, <1>5 DEF Reject, RecordCreditNote, Cancel, Receive
<1>6. ASSUME NEW c \in Clerk, \/ OpenReport(c) \/ OpenSubmit(c) \/ OpenApprove(c)
                              \/ LockPair(c) \/ Query(c) \/ Report(c) \/ Rollback(c)
      PROVE  returns'[q] = returns[q]
  BY <1>6 DEF OpenReport, OpenSubmit, OpenApprove, Open, LockPair, Query, Rollback, Report
<1>7. CASE Deliver \/ UNCHANGED vars
  BY <1>7 DEF Deliver, vars
<1> QED
  BY <1>2, <1>3, <1>5, <1>6, <1>7 DEF Next

\* The goods a credit note covers are fixed when it is recorded: no receipt,
\* cancellation or approval changes what it stands for, whatever the requests name.
THEOREM CreditStays == Spec => CreditNotesStayCovered
<1>1. ASSUME IInv, [Next]_vars
      PROVE  \A r \in Return : returns[r].credited =>
               \A p \in Pair : Covered(returns'[r], p) = Covered(returns[r], p)
  <2> SUFFICES ASSUME NEW r \in Return, returns[r].credited, NEW p \in Pair
               PROVE  Covered(returns'[r], p) = Covered(returns[r], p)
    OBVIOUS
  <2>1. PICK old : old = returns[r]
    OBVIOUS
  <2>2. /\ returns \in Seq(ReturnRow) /\ r \in DOMAIN returns /\ old \in ReturnRow
        /\ old.credited /\ old.status \in {"APPROVED", "RECEIVED"}
    BY <1>1, <2>1 DEF IInv, TypeOK, Return, ReturnsInOrder
  <2>3. ASSUME NEW c \in Clerk, Approve(c), request[c].return = r PROVE FALSE
    BY <1>1, <2>1, <2>2, <2>3 DEF IInv, RequestOpen, Approve, Checked
  <2>4. CASE Reject(r) \/ Cancel(r)
    BY <2>1, <2>2, <2>4 DEF Reject, Cancel
  <2>5. ASSUME NEW row, Rewrite(r, row) PROVE returns'[r] = row
    BY <2>2, <2>5 DEF Rewrite
  <2>6. CASE RecordCreditNote(r)
    <3>1. PICK row : row = [old EXCEPT !.credited = TRUE]
      OBVIOUS
    <3>2. returns'[r] = row
      BY <2>1, <2>5, <2>6, <3>1 DEF RecordCreditNote
    <3>3. row.status = old.status /\ row.approved = old.approved /\ row.got = old.got
      BY <2>2, <3>1 DEF ReturnRow
    <3> QED
      BY <2>1, <3>2, <3>3 DEF Covered
  <2>7. CASE Receive(r)
    <3>1. PICK e \in Entries :
            /\ old.status = "APPROVED" /\ NamesTheLines(e, r)
            /\ \A i \in DOMAIN e : old.credited => e[i].quantity = old.approved[e[i].pair]
            /\ Rewrite(r, [old EXCEPT !.status = "RECEIVED",
                             !.got = [n \in Pair |-> Written(e, n)],
                             !.lot = [n \in Pair |-> Asked(e, {i \in At(e, n) : e[i].quantity > 0})]])
      BY <2>1, <2>7 DEF Receive
    <3>2. PICK got, lot : /\ got = [n \in Pair |-> Written(e, n)]
                          /\ lot = [n \in Pair |-> Asked(e, {i \in At(e, n) : e[i].quantity > 0})]
      OBVIOUS
    <3>3. PICK row : row = [old EXCEPT !.status = "RECEIVED", !.got = got, !.lot = lot]
      OBVIOUS
    <3>4. returns'[r] = row /\ row.status = "RECEIVED" /\ row.got = got
      BY <2>2, <2>5, <3>1, <3>2, <3>3 DEF ReturnRow
    <3>5. Written(e, p) = old.approved[p]
      BY <1>1, <2>1, <2>2, <3>1, ReceiptIs
    <3> QED
      BY <2>1, <3>1, <3>2, <3>4, <3>5 DEF Covered
  <2>8. CASE returns'[r] = returns[r]
    BY <2>8
  <2> QED
    BY <1>1, <2>3, <2>4, <2>6, <2>7, <2>8, ReturnStays
<1>2. IInv /\ [Next]_vars =>
        [\A r \in Return : returns[r].credited =>
           \A p \in Pair : Covered(returns'[r], p) = Covered(returns[r], p)]_vars
  BY <1>1
<1> QED
  BY <1>2, Invariance, PTL DEF Spec, CreditNotesStayCovered

\* No more is written of a pair than stands in any of its entries, and at most one of
\* them above 0 is asked for.
LEMMA LotIs ==
    ASSUME NEW e \in Entries, NEW p \in Pair, NEW top \in Nat,
           \A i \in DOMAIN e : e[i].pair = p => e[i].quantity <= top,
           Cardinality({i \in At(e, p) : e[i].quantity > 0}) <= 1
    PROVE  /\ Written(e, p) \in Nat /\ Asked(e, {i \in At(e, p) : e[i].quantity > 0}) \in Nat
           /\ Written(e, p) <= Asked(e, {i \in At(e, p) : e[i].quantity > 0})
           /\ Asked(e, {i \in At(e, p) : e[i].quantity > 0}) <= top
<1>1. PICK above : above = {i \in At(e, p) : e[i].quantity > 0}
  OBVIOUS
<1>2. above \in SUBSET DOMAIN e /\ IsFiniteSet(above) /\ Cardinality(above) <= 1 /\ Cardinality(above) \in Nat
  BY <1>1, EntriesAre, FS_Subset, FS_CardinalityType DEF At
<1>3. Written(e, p) \in Nat /\ (Written(e, p) # 0 => \E i \in above : Written(e, p) = e[i].quantity)
  <2>1. \A i \in DOMAIN e : e[i].pair = p /\ e[i].quantity # 0 => i \in above
    BY <1>1, EntriesAre DEF At
  <2> QED
    BY <2>1, WrittenIs
<1>4. CASE above = {}
  <2>1. Asked(e, above) = 0
    BY <1>2, <1>4, AskedNat
  <2> QED
    BY <1>1, <1>3, <1>4, <2>1
<1>5. CASE above # {}
  <2>1. PICK i : i \in above
    BY <1>5
  <2>2. Cardinality(above) = 1
    BY <1>2, <1>5, FS_EmptySet
  <2>3. above = {i}
    BY <1>2, <2>1, <2>2, FS_Singleton
  <2>4. Asked(e, above) = e[i].quantity
    BY <1>2, <2>1, <2>3, AskedNat
  <2>5. i \in DOMAIN e /\ e[i].pair = p /\ e[i].quantity \in Nat
    BY <1>1, <2>1, EntriesAre DEF At
  <2> QED
    BY <1>1, <1>3, <2>3, <2>4, <2>5
<1> QED
  BY <1>4, <1>5

\* A return only dwindles: approved within requested, in stock within approved, and
\* what its line says came back within stock, whatever the requests name and repeat.
THEOREM ReturnsOnlyDwindle == Spec => []ReturnsDwindle
<1> DEFINE Dwindles(t, p) == t.got[p] <= t.lot[p] /\ t.lot[p] <= t.approved[p] /\ t.approved[p] <= t.requested[p]
           Fresh(t) == t.status \in {"SUBMITTED", "APPROVED"} => \A p \in Pair : t.got[p] = 0 /\ t.lot[p] = 0
           Inv == \A r \in Return : Fresh(returns[r]) /\ \A p \in Pair : Dwindles(returns[r], p)
<1>1. Init => Inv
  BY DEF Init, Return
<1>2. IInv /\ Inv /\ [Next]_vars => Inv'
  <2> SUFFICES ASSUME IInv, Inv, [Next]_vars, NEW q \in Return'
               PROVE  Fresh(returns'[q]) /\ \A p \in Pair : Dwindles(returns'[q], p)
    OBVIOUS
  <2>1. returns \in Seq(ReturnRow) /\ returns' \in Seq(ReturnRow)
    BY NextIInv DEF IInv, TypeOK
  <2>2. CASE q \notin Return
    <3>1. PICK c \in Clerk : Submit(c)
      <4>1. ASSUME NEW c \in Clerk, Approve(c) PROVE Return' = Return
        BY <2>1, <4>1 DEF Approve, Return
      <4>2. ASSUME NEW r \in Return, Reject(r) \/ RecordCreditNote(r) \/ Cancel(r) \/ Receive(r)
            PROVE  Return' = Return
        BY <2>1, <4>2 DEF Reject, RecordCreditNote, Cancel, Receive, Rewrite, Return
      <4>3. ASSUME NEW c \in Clerk, \/ OpenReport(c) \/ OpenSubmit(c) \/ OpenApprove(c)
                                    \/ LockPair(c) \/ Query(c) \/ Report(c) \/ Rollback(c)
            PROVE  Return' = Return
        BY <4>3 DEF OpenReport, OpenSubmit, OpenApprove, Open, LockPair, Query, Rollback, Report, Return
      <4>4. CASE Deliver \/ UNCHANGED vars
        BY <2>2, <4>4 DEF Deliver, vars, Return
      <4> QED
        BY <2>2, <4>1, <4>2, <4>3, <4>4 DEF Next
    <3>2. PICK none, m : none = [p \in Pair |-> 0] /\ m = [p \in Pair |-> Written(request[c].entries, p)]
      OBVIOUS
    <3>3. PICK row : row = [status |-> "SUBMITTED", credited |-> FALSE, requested |-> m,
                            approved |-> none, got |-> none, lot |-> none]
      OBVIOUS
    <3>4. returns' = Append(returns, row)
      BY <2>2, <3>1, <3>2, <3>3 DEF Submit, Return
    <3>5. returns'[q] = row
      BY <2>1, <2>2, <3>4 DEF Return
    <3>6. \A p \in Pair : none[p] = 0 /\ row.requested[p] \in Nat
      <4>1. request[c].entries \in Entries
        BY <3>1 DEF Submit, Checked, IInv, RequestOpen
      <4> QED
        BY <3>2, <3>3, <4>1, WrittenIs
    <3> QED
      BY <3>3, <3>5, <3>6
  <2>3. CASE q \in Return
    <3>1. PICK old : old = returns[q]
      OBVIOUS
    <3>2. Fresh(old) /\ (\A p \in Pair : Dwindles(old, p)) /\ old \in ReturnRow /\ q \in DOMAIN returns
      BY <2>1, <2>3, <3>1 DEF Return
    <3>3. ASSUME NEW row, Rewrite(q, row) PROVE returns'[q] = row
      BY <2>1, <3>2, <3>3 DEF Rewrite
    <3>4. ASSUME NEW c \in Clerk, Approve(c), request[c].return = q
          PROVE  Fresh(returns'[q]) /\ \A p \in Pair : Dwindles(returns'[q], p)
      <4>1. PICK e, m : e = request[c].entries /\ m = [p \in Pair |-> Written(e, p)]
        OBVIOUS
      <4>2. PICK row : row = [old EXCEPT !.status = "APPROVED", !.approved = m]
        OBVIOUS
      <4>3. returns' = [returns EXCEPT ![q].status = "APPROVED", ![q].approved = m]
        BY <3>4, <4>1 DEF Approve
      <4>4. returns'[q] = row
        BY <2>1, <3>1, <3>2, <4>2, <4>3
      <4>5. /\ row.got = old.got /\ row.lot = old.lot /\ row.requested = old.requested
            /\ row.approved = m
        BY <3>2, <4>2 DEF ReturnRow
      <4>6. /\ e \in Entries /\ old.status = "SUBMITTED"
            /\ \A i \in DOMAIN e : e[i].quantity <= old.requested[e[i].pair]
        BY <3>1, <3>4, <4>1 DEF Approve, Checked, IInv, RequestOpen
      <4>7. ASSUME NEW p \in Pair
            PROVE  row.got[p] = 0 /\ row.lot[p] = 0 /\ m[p] \in Nat /\ m[p] <= old.requested[p]
        <5>1. old.requested[p] \in Nat
          BY <3>2 DEF ReturnRow, PerPair
        <5>2. Written(e, p) \in Nat /\ Written(e, p) <= old.requested[p]
          BY <4>6, <5>1, WrittenIs
        <5> QED
          BY <3>2, <4>1, <4>5, <4>6, <5>2
      <4> QED
        BY <4>4, <4>5, <4>7
    <3>5. CASE Reject(q)
      BY <3>1, <3>2, <3>3, <3>5 DEF Reject, ReturnRow
    <3>6. CASE RecordCreditNote(q)
      BY <3>1, <3>2, <3>3, <3>6 DEF RecordCreditNote, ReturnRow
    <3>7. CASE Cancel(q)
      BY <3>1, <3>2, <3>3, <3>7 DEF Cancel, ReturnRow
    <3>8. CASE Receive(q)
      <4>1. PICK e \in Entries :
              /\ \A i \in DOMAIN e : e[i].quantity <= old.approved[e[i].pair]
              /\ \A p \in Pair : Cardinality({i \in At(e, p) : e[i].quantity > 0}) <= 1
              /\ Rewrite(q, [old EXCEPT !.status = "RECEIVED",
                               !.got = [n \in Pair |-> Written(e, n)],
                               !.lot = [n \in Pair |-> Asked(e, {i \in At(e, n) : e[i].quantity > 0})]])
        BY <3>1, <3>8 DEF Receive
      <4>2. PICK got, lot : /\ got = [n \in Pair |-> Written(e, n)]
                            /\ lot = [n \in Pair |-> Asked(e, {i \in At(e, n) : e[i].quantity > 0})]
        OBVIOUS
      <4>3. PICK row : row = [old EXCEPT !.status = "RECEIVED", !.got = got, !.lot = lot]
        OBVIOUS
      <4>4. returns'[q] = row
        BY <3>3, <4>1, <4>2, <4>3
      <4>5. /\ row.status = "RECEIVED" /\ row.got = got /\ row.lot = lot
            /\ row.approved = old.approved /\ row.requested = old.requested
        BY <3>2, <4>3 DEF ReturnRow
      <4>6. ASSUME NEW p \in Pair PROVE Dwindles(row, p)
        <5>1. old.approved[p] \in Nat
          BY <3>2 DEF ReturnRow, PerPair
        <5>2. PICK n : n = old.approved[p]
          OBVIOUS
        <5>3. Cardinality({i \in At(e, p) : e[i].quantity > 0}) <= 1
          BY <4>1
        <5>4. \A i \in DOMAIN e : e[i].pair = p => e[i].quantity <= n
          BY <4>1, <5>2
        <5>5. /\ got[p] = Written(e, p)
              /\ lot[p] = Asked(e, {i \in At(e, p) : e[i].quantity > 0})
          BY <4>2
        <5>6. got[p] <= lot[p] /\ lot[p] <= n
          BY <5>1, <5>2, <5>3, <5>4, <5>5, LotIs
        <5> QED
          BY <3>2, <4>5, <5>2, <5>6
      <4> QED
        BY <4>4, <4>5, <4>6
    <3>9. CASE returns'[q] = returns[q]
      BY <3>1, <3>2, <3>9
    <3> QED
      BY <2>3, <3>4, <3>5, <3>6, <3>7, <3>8, <3>9, ReturnStays
  <2> QED
    BY <2>2, <2>3
<1>3. Inv => ReturnsDwindle
  BY DEF ReturnsDwindle
<1> QED
  BY <1>1, <1>2, <1>3, Invariance, PTL DEF Spec

-----------------------------------------------------------------------------
(* The delivery of a dispatch *)

-----------------------------------------------------------------------------
(* The inductive invariant *)

\* A dispatch that is not delivered has nothing received, and one that is delivered
\* by a receipt has what the receipt says.
LedgerFollowsDecision ==
    /\ dispatch.status = "DISPATCHED" <=> dispatch.ledger = Zero
    /\ receipt.disposition = "APPLIED" <=> dispatch.source = "DISTRIBUTOR_CONFIRMED"
    /\ receipt.disposition = "APPLIED" => dispatch.ledger = receipt.lines
    /\ receipt.disposition = "NOT_APPLIED_ZERO" =>
         dispatch.ledger = Zero /\ dispatch.source = "NONE" /\ receipt.lines = Zero
    /\ receipt.disposition = "NONE" <=> receipt = NoReceipt
    /\ receipt.by = "none" <=> receipt = NoReceipt

\* A request in flight has a body; who was answered has none in flight.
SentHasBody ==
    \A u \in User : attest[u].state = "sent" => attest[u].body \in Bodies

ReceiptIInv == /\ ReceiptTypeOK /\ LedgerFollowsDecision /\ SentHasBody /\ AnswersAreTrue
        /\ ReceiptIsWhatWasEntered

DispatchRow == [status: {"DISPATCHED", "DELIVERED"}, version: Nat \ {0},
                source: {"NONE", "USER_CONFIRMED", "DISTRIBUTOR_CONFIRMED"}, ledger: Quantities]

-----------------------------------------------------------------------------
(* Helpers *)

\* What a body of the right form says of the lines are quantities.
LEMMA PlanIsQuantities == ASSUME NEW b \in Bodies PROVE Plan(b) \in Quantities
<1>1. b.entered \in [Groups -> 0 .. Sum(Packed, Line)] /\ b.split \in [Line -> 0 .. Most]
  BY DEF Bodies
<1>2. \A g \in Groups : b.entered[g] \in Nat
  <2> HIDE DEF Groups
  <2> QED
    BY <1>1
<1>3. \A l \in Line : Group[l] \in Groups
  BY DEF Groups
<1>4. \A l \in Line : ForcedLine(Group[l], b.entered[Group[l]], l) \in Nat
  BY <1>2, <1>3, ReceiptAssumption DEF ForcedLine
<1>5. \A l \in Line : b.split[l] \in Nat
  BY <1>1
<1> QED
  BY <1>4, <1>5 DEF Plan, Quantities

\* The lines of a style and size: some lines, each of which packs something.
LEMMA MembersAreLines ==
    /\ IsFiniteSet(Line) /\ \A l \in Line : Packed[l] \in Nat
    /\ \A g \in Groups : IsFiniteSet(Members(g)) /\ Members(g) # {} /\ Members(g) \subseteq Line
    /\ \A l \in Line : Group[l] \in Groups
  BY FS_Subset, ReceiptAssumption DEF Groups, Members

\* A receipt that is accepted says of the lines of a style and size as much as was
\* entered for it, however it was split, and no more of a line than was packed.
LEMMA PlanIsEntered ==
    ASSUME NEW b \in Bodies, Accepts(b), NEW g \in Groups
    PROVE  /\ Sum(Plan(b), Members(g)) = b.entered[g]
           /\ \A l \in Members(g) : Plan(b)[l] <= Packed[l]
<1> DEFINE n == b.entered[g]
           M == Members(g)
           p == Plan(b)
<1>1. n \in Nat /\ b.split \in [Line -> Nat]
  <2>1. b.entered \in [Groups -> 0 .. Sum(Packed, Line)] /\ b.split \in [Line -> 0 .. Most]
    BY DEF Bodies
  <2> HIDE DEF Groups
  <2> QED
    BY <2>1
<1>2. IsFiniteSet(M) /\ M # {} /\ M \subseteq Line /\ \A l \in M : Packed[l] \in Nat /\ b.split[l] \in Nat
  BY <1>1, MembersAreLines
<1>3. \A l \in M : p[l] = IF Forced(g, n) THEN ForcedLine(g, n, l) ELSE b.split[l]
  BY <1>2 DEF Plan, Members
<1>4. n <= Sum(Packed, M) /\ (~Forced(g, n) => Sum(b.split, M) = n /\ \A l \in M : b.split[l] <= Packed[l])
  BY DEF Accepts
<1>5. Sum(Packed, M) \in Nat /\ \A l \in M : Packed[l] <= Packed[l]
  BY <1>2, SumNat
<1> HIDE DEF n, M, p
<1>6. CASE Cardinality(M) = 1
  <2>1. PICK l : M = {l}
    BY <1>2, <1>6, FS_Singleton
  <2>2. p[l] = n
    BY <1>3, <1>6, <2>1 DEF Forced, ForcedLine, M
  <2>3. \A f : f[l] \in Int => Sum(f, M) = f[l]
    <3> SUFFICES ASSUME NEW f, f[l] \in Int PROVE Sum(f, M) = f[l]
      OBVIOUS
    <3>1. \A x \in M : f[x] \in Int
      BY <2>1
    <3>2. Sum(f, M) = f[l] + Sum(f, M \ {l})
      BY <1>2, <2>1, <3>1, SumRemove
    <3>3. M \ {l} = {}
      BY <2>1
    <3> QED
      BY <3>2, <3>3, SumEmpty
  <2> QED
    BY <1>1, <1>2, <1>4, <2>1, <2>2, <2>3 DEF n, M, p
<1>7. CASE Cardinality(M) # 1 /\ n = 0
  <2>1. \A l \in M : p[l] = 0
    BY <1>3, <1>7 DEF Forced, ForcedLine, M
  <2>2. Sum(p, M) = 0
    BY <1>2, <2>1, SumZero
  <2> QED
    BY <1>2, <1>7, <2>1, <2>2 DEF n, M, p
<1>8. CASE Cardinality(M) # 1 /\ n # 0 /\ n = Sum(Packed, M)
  <2>1. \A l \in M : p[l] = Packed[l]
    BY <1>3, <1>8 DEF Forced, ForcedLine, M
  <2>2. Sum(p, M) = Sum(Packed, M)
    BY <1>2, <2>1, SumEqual
  <2> QED
    BY <1>2, <1>5, <1>8, <2>1, <2>2 DEF n, M, p
<1>9. CASE ~Forced(g, n)
  <2>1. \A l \in M : p[l] = b.split[l]
    BY <1>3, <1>9
  <2>2. Sum(p, M) = Sum(b.split, M)
    BY <1>2, <2>1, SumEqual
  <2> QED
    BY <1>2, <1>4, <1>9, <2>1, <2>2 DEF n, M, p
<1> QED
  BY <1>6, <1>7, <1>8, <1>9 DEF Forced, M

\* Something arrived of some line, or nothing of any.
LEMMA TotalOfLines ==
    ASSUME NEW got \in Quantities
    PROVE  Sum(got, Line) > 0 <=> got # Zero
<1>1. IsFiniteSet(Line) /\ \A l \in Line : got[l] \in Nat
  BY ReceiptAssumption DEF Quantities
<1>2. Sum(got, Line) \in Nat /\ \A l \in Line : got[l] <= Sum(got, Line)
  BY <1>1, SumNat
<1>3. got = Zero => Sum(got, Line) = 0
  BY <1>1, SumZero DEF Zero
<1>4. Sum(got, Line) = 0 => \A l \in Line : got[l] = 0
  BY <1>1, <1>2
<1>5. got = [l \in Line |-> got[l]]
  BY DEF Quantities
<1>6. Sum(got, Line) = 0 => got = Zero
  BY <1>4, <1>5 DEF Zero
<1> QED
  BY <1>2, <1>3, <1>6

\* A write advances the version and changes nothing else of the row.
LEMMA SavedRow ==
    ASSUME NEW row \in DispatchRow, Saved(row)
    PROVE  /\ dispatch' \in DispatchRow /\ dispatch'.status = row.status
           /\ dispatch'.source = row.source /\ dispatch'.ledger = row.ledger
  BY DEF Saved, DispatchRow

-----------------------------------------------------------------------------
(* Every step preserves the invariant *)

LEMMA InitReceipt == ReceiptInit => ReceiptIInv
<1> SUFFICES ASSUME ReceiptInit PROVE ReceiptIInv
  OBVIOUS
<1>1. Zero \in Quantities
  BY DEF Zero, Quantities
<1>2. /\ dispatch \in DispatchRow /\ dispatch.status = "DISPATCHED" /\ dispatch.source = "NONE"
      /\ dispatch.ledger = Zero /\ receipt.disposition = "NONE" /\ receipt.lines = Zero
      /\ receipt.by = "none" /\ receipt = NoReceipt
  BY <1>1 DEF ReceiptInit, DispatchRow, NoReceipt
<1>3. DOMAIN attest = User /\ \A u \in User : attest[u] = NoAttest
  BY DEF ReceiptInit
<1>4. ReceiptTypeOK
  BY <1>1, <1>2, <1>3 DEF ReceiptTypeOK, DispatchRow, NoAttest
<1> QED
  BY <1>2, <1>3, <1>4 DEF ReceiptIInv, LedgerFollowsDecision, SentHasBody, AnswersAreTrue, NoAttest,
       ReceiptIsWhatWasEntered

\* The desk's side: transport details, and the fallback that decides an undecided
\* dispatch.
LEMMA DeskKeepsReceipt ==
    ASSUME ReceiptIInv, UpdateTransport \/ ConfirmErveDispatchDelivery \/ UNCHANGED receiptVars
    PROVE  /\ ReceiptIInv'
           /\ dispatch.ledger # Zero => dispatch'.ledger = dispatch.ledger
           /\ receipt' = receipt
<1> USE DEF ReceiptIInv
<1>1. UNCHANGED <<receipt, attest>> /\ dispatch \in DispatchRow
  BY DEF UpdateTransport, ConfirmErveDispatchDelivery, receiptVars, ReceiptTypeOK, DispatchRow
<1>2. \/ /\ dispatch' \in DispatchRow /\ dispatch'.status = dispatch.status
         /\ dispatch'.source = dispatch.source /\ dispatch'.ledger = dispatch.ledger
      \/ /\ dispatch' \in DispatchRow /\ dispatch'.status = "DELIVERED"
         /\ dispatch'.source = "USER_CONFIRMED" /\ dispatch'.ledger # Zero
         /\ dispatch.status = "DISPATCHED" /\ receipt = NoReceipt
  <2>1. CASE UpdateTransport
    BY <1>1, <2>1, SavedRow DEF UpdateTransport
  <2>2. CASE ConfirmErveDispatchDelivery
    <3>1. PICK got \in [Line -> 0 .. Most] :
            Sum(got, Line) > 0 /\ Saved([dispatch EXCEPT !.status = "DELIVERED", !.ledger = got, !.source = "USER_CONFIRMED"])
      BY <2>2 DEF ConfirmErveDispatchDelivery
    <3> DEFINE row == [dispatch EXCEPT !.status = "DELIVERED", !.ledger = got, !.source = "USER_CONFIRMED"]
    <3>2. /\ row \in DispatchRow /\ row.status = "DELIVERED" /\ row.source = "USER_CONFIRMED"
          /\ row.ledger # Zero
      <4>1. got \in Quantities /\ got # Zero
        BY <3>1, TotalOfLines DEF Quantities
      <4> QED
        BY <1>1, <4>1 DEF DispatchRow
    <3>3. dispatch.status = "DISPATCHED" /\ receipt = NoReceipt
      BY <2>2 DEF ConfirmErveDispatchDelivery, Undecided
    <3> HIDE DEF row
    <3> QED
      BY <3>1, <3>2, <3>3, SavedRow DEF row
  <2>3. CASE UNCHANGED receiptVars
    BY <1>1, <2>3 DEF receiptVars
  <2> QED
    BY <2>1, <2>2, <2>3
<1>3. ReceiptTypeOK'
  <2>1. dispatch'.status = "DISPATCHED" <=> dispatch'.source = "NONE"
    BY <1>2 DEF ReceiptTypeOK
  <2> QED
    BY <1>1, <1>2, <2>1 DEF ReceiptTypeOK, DispatchRow
<1>4. LedgerFollowsDecision'
  BY <1>1, <1>2 DEF LedgerFollowsDecision, NoReceipt
<1>5. SentHasBody' /\ AnswersAreTrue' /\ ReceiptIsWhatWasEntered'
  BY <1>1 DEF SentHasBody, AnswersAreTrue, ReceiptIsWhatWasEntered
<1>6. dispatch.ledger # Zero => dispatch'.ledger = dispatch.ledger
  BY <1>2 DEF LedgerFollowsDecision
<1> QED
  BY <1>1, <1>3, <1>4, <1>5, <1>6

LEMMA SendKeepsReceipt ==
    ASSUME ReceiptIInv, NEW u \in User, SendDistributorReceipt(u)
    PROVE  ReceiptIInv' /\ UNCHANGED <<dispatch, receipt>>
<1> USE DEF ReceiptIInv
<1>1. PICK b \in Bodies : attest' = [attest EXCEPT ![u] =
        [state |-> "sent", version |-> dispatch.version, body |-> b]]
  BY DEF SendDistributorReceipt
<1>2. UNCHANGED <<dispatch, receipt>> /\ dispatch.version \in Nat
  BY DEF SendDistributorReceipt, ReceiptTypeOK
<1>3. /\ DOMAIN attest' = User
      /\ attest'[u] = [state |-> "sent", version |-> dispatch.version, body |-> b]
      /\ \A v \in User : v # u => attest'[v] = attest[v]
  BY <1>1 DEF ReceiptTypeOK
<1>4. ReceiptTypeOK'
  <2> HIDE DEF Bodies
  <2>1. \A v \in User : attest'[v] \in [state: {"idle", "sent", "recorded", "refused"},
                                      version: Nat, body: {<< >>} \cup Bodies]
    BY <1>2, <1>3 DEF ReceiptTypeOK
  <2> QED
    BY <1>2, <1>3, <2>1 DEF ReceiptTypeOK
<1> QED
  BY <1>2, <1>3, <1>4 DEF LedgerFollowsDecision, SentHasBody, AnswersAreTrue, ReceiptIsWhatWasEntered

\* A submitted receipt is recorded, repeated or refused; the answer may be lost.
LEMMA SubmitKeepsReceipt ==
    ASSUME ReceiptIInv, NEW u \in User, SubmitDistributorReceipt(u)
    PROVE  /\ ReceiptIInv'
           /\ dispatch.ledger # Zero => dispatch'.ledger = dispatch.ledger
           /\ receipt # NoReceipt => receipt' = receipt
<1> USE DEF ReceiptIInv
<1> DEFINE ok == /\ receipt = NoReceipt /\ dispatch.version = attest[u].version
                 /\ Accepts(attest[u].body)
           got == Plan(attest[u].body)
           how == Disposition(got)
           answer == IF Replays(u) \/ ok THEN "recorded" ELSE "refused"
<1>1. /\ attest[u].state = "sent" /\ attest' \in {attest, [attest EXCEPT ![u] = [NoAttest EXCEPT !.state = answer]]}
      /\ IF ~Replays(u) /\ ok THEN Record(u, got, how) ELSE UNCHANGED <<dispatch, receipt>>
  BY DEF SubmitDistributorReceipt
<1>2. got \in Quantities /\ dispatch \in DispatchRow /\ u # "none"
  BY <1>1, PlanIsQuantities, ReceiptAssumption DEF SentHasBody, ReceiptTypeOK, DispatchRow
<1> HIDE DEF got
<1>3. how \in {"APPLIED", "NOT_APPLIED_ZERO", "EVIDENCE_ONLY_EXISTING"}
      /\ (how # "EVIDENCE_ONLY_EXISTING" => dispatch.status = "DISPATCHED" /\ dispatch.source = "NONE")
      /\ (how = "APPLIED" => got # Zero) /\ (how = "NOT_APPLIED_ZERO" => got = Zero)
  BY <1>2, TotalOfLines DEF Disposition
<1> HIDE DEF how
<1>4. \/ UNCHANGED <<dispatch, receipt>> /\ (answer = "recorded" => receipt.by = u)
                                       /\ (answer = "refused" => receipt.by # u)
      \/ /\ receipt = NoReceipt /\ receipt'.by = u /\ receipt'.lines = got /\ receipt'.disposition = how
         /\ receipt'.entered = attest[u].body.entered /\ Accepts(attest[u].body)
         /\ answer = "recorded" /\ dispatch' \in DispatchRow
         /\ dispatch'.ledger = IF how = "APPLIED" THEN got ELSE dispatch.ledger
         /\ dispatch'.source = IF how = "APPLIED" THEN "DISTRIBUTOR_CONFIRMED" ELSE dispatch.source
         /\ dispatch'.status = IF how = "APPLIED" THEN "DELIVERED" ELSE dispatch.status
  <2>1. CASE ~Replays(u) /\ ok
    <3> DEFINE row == IF how # "APPLIED" THEN dispatch
             ELSE [dispatch EXCEPT !.status = "DELIVERED", !.ledger = got,
                                   !.source = "DISTRIBUTOR_CONFIRMED"]
    <3>1. /\ row \in DispatchRow
          /\ row.ledger = IF how = "APPLIED" THEN got ELSE dispatch.ledger
          /\ row.source = IF how = "APPLIED" THEN "DISTRIBUTOR_CONFIRMED" ELSE dispatch.source
          /\ row.status = IF how = "APPLIED" THEN "DELIVERED" ELSE dispatch.status
      BY <1>2 DEF DispatchRow
    <3>2. /\ Saved(row) /\ receipt'.by = u /\ receipt'.lines = got /\ receipt'.disposition = how
          /\ receipt'.entered = attest[u].body.entered
      BY <1>1, <2>1 DEF Record
    <3> HIDE DEF row
    <3> QED
      BY <2>1, <3>1, <3>2, SavedRow
  <2>2. CASE Replays(u)
    BY <1>1, <2>2 DEF Replays
  <2>3. CASE ~Replays(u) /\ ~ok
    BY <1>1, <2>3 DEF Replays
  <2> QED
    BY <2>1, <2>2, <2>3
<1>5. answer \in {"recorded", "refused"}
  OBVIOUS
<1> HIDE DEF ok, answer
<1>6. /\ DOMAIN attest' = User /\ \A v \in User : v # u => attest'[v] = attest[v]
      /\ attest'[u] = attest[u] \/ attest'[u] = [state |-> answer, version |-> 0, body |-> << >>]
  <2>1. [NoAttest EXCEPT !.state = answer] = [state |-> answer, version |-> 0, body |-> << >>]
    BY DEF NoAttest
  <2> QED
    BY <1>1, <2>1 DEF ReceiptTypeOK
<1>7. ReceiptTypeOK'
  <2> HIDE DEF Bodies
  <2>1. \A v \in User : attest'[v] \in [state: {"idle", "sent", "recorded", "refused"},
                                      version: Nat, body: {<< >>} \cup Bodies]
    BY <1>5, <1>6 DEF ReceiptTypeOK
  <2>2. /\ dispatch' \in DispatchRow /\ receipt'.lines \in Quantities
        /\ dispatch'.status = "DISPATCHED" <=> dispatch'.source = "NONE"
        /\ receipt'.disposition \in {"NONE", "APPLIED", "NOT_APPLIED_ZERO", "EVIDENCE_ONLY_EXISTING"}
    BY <1>2, <1>3, <1>4 DEF ReceiptTypeOK
  <2> QED
    BY <1>6, <2>1, <2>2 DEF ReceiptTypeOK, DispatchRow
<1>8. LedgerFollowsDecision'
  <2>1. NoReceipt.disposition = "NONE" /\ NoReceipt.by = "none"
    BY DEF NoReceipt
  <2> QED
    BY <1>2, <1>3, <1>4, <2>1 DEF LedgerFollowsDecision, ReceiptTypeOK
<1>9. SentHasBody'
  BY <1>5, <1>6 DEF SentHasBody
<1>10. AnswersAreTrue'
  <2>1. NoReceipt.by = "none"
    BY DEF NoReceipt
  <2>2. attest'[u].state \in {"recorded", "refused"} =>
          (attest'[u].state = "recorded" <=> receipt'.by = u)
    BY <1>1, <1>4, <1>5, <1>6
  <2>3. ASSUME NEW v \in User, v # u, attest[v].state \in {"recorded", "refused"}
        PROVE  attest[v].state = "recorded" <=> receipt'.by = v
    BY <1>4, <2>1, <2>3, ReceiptAssumption DEF AnswersAreTrue
  <2> QED
    BY <1>6, <2>2, <2>3 DEF AnswersAreTrue
<1>11. dispatch.ledger # Zero => dispatch'.ledger = dispatch.ledger
  BY <1>3, <1>4 DEF LedgerFollowsDecision
<1>12. ReceiptIsWhatWasEntered'
  <2>1. CASE UNCHANGED receipt
    BY <2>1 DEF ReceiptIsWhatWasEntered
  <2>2. CASE /\ receipt'.lines = got /\ receipt'.entered = attest[u].body.entered
             /\ Accepts(attest[u].body)
    <3>1. attest[u].body \in Bodies
      BY <1>1 DEF SentHasBody
    <3>2. \A g \in Groups : /\ Sum(got, Members(g)) = attest[u].body.entered[g]
                            /\ \A l \in Members(g) : got[l] <= Packed[l]
      BY <2>2, <3>1, PlanIsEntered DEF got
    <3>3. \A l \in Line : Group[l] \in Groups /\ l \in Members(Group[l])
      BY DEF Groups, Members
    <3> QED
      BY <2>2, <3>2, <3>3 DEF ReceiptIsWhatWasEntered
  <2> QED
    BY <1>4, <2>1, <2>2
<1> QED
  BY <1>4, <1>7, <1>8, <1>9, <1>10, <1>11, <1>12

-----------------------------------------------------------------------------
(* The theorems *)

LEMMA NextReceipt ==
    ASSUME ReceiptIInv, [ReceiptNext]_receiptVars
    PROVE  /\ ReceiptIInv'
           /\ dispatch.ledger # Zero => dispatch'.ledger = dispatch.ledger
           /\ receipt # NoReceipt => receipt' = receipt
  BY DeskKeepsReceipt, SendKeepsReceipt, SubmitKeepsReceipt DEF ReceiptNext

\* The inductive invariant: types, the ledger follows the one decision, bodies are
\* of their form, and answers are true.
THEOREM ReceiptInvariance == ReceiptSpec => []ReceiptIInv
<1>1. ReceiptIInv /\ [ReceiptNext]_receiptVars => ReceiptIInv'
  BY NextReceipt
<1> QED
  BY <1>1, InitReceipt, PTL DEF ReceiptSpec

\* Types, whatever was packed and entered (ErveDispatch and its receipt).
THEOREM ReceiptTypeCorrect == ReceiptSpec => []ReceiptTypeOK
  BY ReceiptInvariance, PTL DEF ReceiptIInv

\* Nobody is told an untruth about his receipt, whatever answers were lost and
\* requests repeated (submitDistributorReceipt).
THEOREM AnswersStayTrue == ReceiptSpec => []AnswersAreTrue
  BY ReceiptInvariance, PTL DEF ReceiptIInv

\* Nothing is received of an undelivered dispatch, and what a receipt applied is the
\* ledger: the fallback never speaks after a receipt, nor a receipt after it.
THEOREM LedgerIsDecidedOnce == ReceiptSpec => []LedgerFollowsDecision
  BY ReceiptInvariance, PTL DEF ReceiptIInv

\* What was received has one source for any lines: the receipt that applied or the
\* fallback, and nothing is received unless something is (submitDistributorReceipt
\* and confirmErveDispatchDelivery).
THEOREM LedgerSourceIsOne == ReceiptSpec => []LedgerHasOneSource
<1>1. ReceiptIInv => LedgerHasOneSource
  BY DEF ReceiptIInv, ReceiptTypeOK, LedgerFollowsDecision, LedgerHasOneSource
<1> QED
  BY <1>1, ReceiptInvariance, PTL

\* A receipt on file adds up, per style and size, to what was entered, however many
\* lines share it and however it was split (buildReceiptPlan).
THEOREM ReceiptsAddUp == ReceiptSpec => []ReceiptIsWhatWasEntered
  BY ReceiptInvariance, PTL DEF ReceiptIInv

\* What was received and what a receipt says is written once
\* (confirmErveDispatchDelivery and submitDistributorReceipt).
THEOREM DeliveriesAreFinal == ReceiptSpec => DeliveryIsFinal
<1>1. ReceiptIInv /\ [ReceiptNext]_receiptVars =>
        [/\ dispatch.ledger # Zero => dispatch'.ledger = dispatch.ledger
         /\ receipt # NoReceipt => receipt' = receipt]_receiptVars
  BY NextReceipt
<1> QED
  BY <1>1, ReceiptInvariance, PTL DEF ReceiptSpec, DeliveryIsFinal
=============================================================================
