----------------------------- MODULE TaxProofs ------------------------------
(***************************************************************************)
(* The tax documents of a dispatch: its invoices (TaxInvoice), for any     *)
(* packing lists, issuers and accountants and any number of edits, and the *)
(* e-way bill of one invoice (EwayBill, in the second half), for any       *)
(* requests and attempts and any timeout that ends before the grace does.  *)
(***************************************************************************)
EXTENDS TaxInvoice, EwayBill, TLAPS, FiniteSetTheorems

-----------------------------------------------------------------------------
(* The inductive invariant *)

\* The version a request prepared is at most the draft's, and if it is the
\* draft's then so are its billing details; the archive of a draft's image stays
\* announced as long as a request means to issue with it.
PreparedStands ==
    \A r \in Issuer : issuing[r].phase # "idle" =>
        LET w == issuing[r] IN
        /\ w.version <= invoices[w.on].version
        /\ w.version = invoices[w.on].version => w.bill = invoices[w.on].bill
        /\ ~Issued(w.on) => Filed(w.on, w.image)

\* Issued invoices and the serials up to the last are one to one.
SerialsStand ==
    /\ \A i, j \in Invoice : Issued(i) /\ invoices[i].number = invoices[j].number => i = j
    /\ \A i \in Invoice : Issued(i) => invoices[i].number \in 1 .. serial
    /\ \A n \in 1 .. serial : \E i \in Invoice : Issued(i) /\ invoices[i].number = n

IInv == TypeOK /\ PreparedStands /\ SerialsStand /\ IssuedKeepsItsImage /\ ReplacementChain

-----------------------------------------------------------------------------
(* The last of some numbers *)

Lower == {ss \in Nat \X Nat : ss[1] < ss[2]}

\* (NatLessThanWellFounded, of the relation as a set of pairs)
LEMMA LowerWF == IsWellFoundedOn(Lower, Nat)
  BY NatLessThanWellFounded DEF Lower, OpToRel

\* A bounded set of numbers that is not empty has a greatest one.
LEMMA Greatest ==
    ASSUME NEW n \in Nat, NEW C, C \subseteq 0 .. n, C # {}
    PROVE  \E i \in C : \A j \in C : j <= i
<1> DEFINE T == {k \in 0 .. n : n - k \in C}
<1>1. PICK c \in C : c \in 0 .. n
  OBVIOUS
<1>2. T \subseteq Nat /\ n - c \in T
  <2>1. n - (n - c) = c /\ n - c \in 0 .. n
    BY <1>1
  <2> QED
    BY <1>1, <2>1
<1> HIDE DEF T
<1>3. PICK x \in T : \A y \in T : ~(<<y, x>> \in Lower)
  BY <1>2, LowerWF, WFMin
<1>4. \A y \in T : x <= y
  <2>1. \A y \in T : y \in Nat /\ x \in Nat
    BY <1>2
  <2>2. \A a, b \in Nat : a < b => <<a, b>> \in Lower
    BY DEF Lower
  <2>3. \A y \in T : ~(y < x)
    BY <1>3, <2>1, <2>2
  <2> QED
    BY <2>1, <2>3
<1>5. \A j \in C : n - j \in T
  <2> SUFFICES ASSUME NEW j \in C PROVE n - j \in T
    OBVIOUS
  <2>1. j \in 0 .. n
    OBVIOUS
  <2>2. n - (n - j) = j /\ n - j \in 0 .. n
    BY <2>1
  <2> QED
    BY <2>2 DEF T
<1>6. x \in 0 .. n /\ n - x \in C
  BY DEF T
<1>7. \A j \in C : j <= n - x
  <2> SUFFICES ASSUME NEW j \in C PROVE j <= n - x
    OBVIOUS
  <2>1. x <= n - j /\ j \in 0 .. n
    BY <1>4, <1>5
  <2> QED
    BY <2>1, <1>6
<1> QED
  BY <1>6, <1>7

-----------------------------------------------------------------------------
(* Rewriting one invoice *)

Same(i, row) ==
    /\ invoices' \in Seq(InvoiceRow) /\ Len(invoices') = Len(invoices) /\ Invoice' = Invoice
    /\ invoices'[i] = row /\ \A j \in Invoice \ {i} : invoices'[j] = invoices[j]

LEMMA InvoicesAreNumbered ==
    ASSUME TypeOK
    PROVE  /\ invoices \in Seq(InvoiceRow) /\ Invoice = 1 .. Len(invoices) /\ Len(invoices) \in Nat
           /\ \A i \in Invoice : invoices[i] \in InvoiceRow /\ i \in Nat \ {0}
<1>1. invoices \in Seq(InvoiceRow)
  BY DEF TypeOK
<1> HIDE DEF InvoiceRow
<1>2. Invoice = 1 .. Len(invoices) /\ Len(invoices) \in Nat
  BY <1>1 DEF Invoice
<1> QED
  BY <1>1, <1>2

LEMMA RewriteRow ==
    ASSUME TypeOK, NEW i \in Invoice, NEW row \in InvoiceRow, invoices' = [invoices EXCEPT ![i] = row]
    PROVE  Same(i, row)
<1>1. invoices \in Seq(InvoiceRow) /\ Invoice = 1 .. Len(invoices)
  BY InvoicesAreNumbered
<1>2. invoices' \in Seq(InvoiceRow) /\ Len(invoices') = Len(invoices) /\ DOMAIN invoices' = DOMAIN invoices
      /\ invoices'[i] = row /\ \A j \in Invoice \ {i} : invoices'[j] = invoices[j]
  BY <1>1 DEF Invoice
<1> QED
  BY <1>2 DEF Same, Invoice

-----------------------------------------------------------------------------
(* Every step preserves the invariant *)

LEMMA InitIInv == Init => IInv
<1> SUFFICES ASSUME Init PROVE IInv
  OBVIOUS
<1>1. invoices = << >> /\ Len(invoices) = 0 /\ Invoice = {} /\ invoices \in Seq(InvoiceRow)
      /\ serial = 0 /\ files = {} /\ stored = {} /\ distributor = 1 /\ picture = 1
  BY DEF Init, Invoice
<1>2. 1 \in 1 .. MaxEdit /\ 0 <= MaxInvoice /\ 0 \in 0 .. MaxEdit
  BY BoundsAssumption
<1>3. NotIssuing \in IssuingRow /\ NotIssuing.phase = "idle" /\ NotComparing \in ComparingRow
  BY <1>2 DEF NotIssuing, NotComparing, IssuingRow, ComparingRow, NoImage
<1>4. \A r \in Issuer : issuing[r] = NotIssuing
  BY DEF Init
<1>5. issuing \in [Issuer -> IssuingRow] /\ comparing \in [Accountant -> ComparingRow]
  BY <1>3 DEF Init
<1> QED
  BY <1>1, <1>2, <1>3, <1>4, <1>5 DEF IInv, TypeOK, PreparedStands, SerialsStand,
     IssuedKeepsItsImage, ReplacementChain

\* Steps that touch neither the invoices nor the serial.
LEMMA AroundKeepsIInv ==
    ASSUME IInv, UNCHANGED <<invoices, serial>>,
           {distributor, picture}' \subseteq 1 .. MaxEdit,
           files' \subseteq FileRow, stored' \subseteq [on : Invoice, image : 1 .. MaxEdit],
           comparing' \in [Accountant -> ComparingRow], issuing' \in [Issuer -> IssuingRow],
           \A r \in Issuer : issuing'[r].phase # "idle" =>
             LET w == issuing'[r] IN
             /\ w.on # 0 /\ w.image # NoImage
             /\ w.version <= invoices[w.on].version
             /\ w.version = invoices[w.on].version => w.bill = invoices[w.on].bill
             /\ ~Issued(w.on) => \E f \in files' : f.on = w.on /\ f.image = w.image,
           \A i \in Invoice : Issued(i) =>
             /\ Archived(i, invoices[i].image) \in stored'
             /\ \E f \in files' : f.on = i /\ f.image = invoices[i].image
    PROVE  IInv'
<1>1. Invoice' = Invoice /\ \A i : Issued(i)' <=> Issued(i)
  BY DEF Invoice, Issued
<1>2. TypeOK'
  BY <1>1 DEF IInv, TypeOK, IssuingRow, ComparingRow, FileRow
<1>3. PreparedStands'
  BY <1>1 DEF PreparedStands, Filed
<1>4. SerialsStand' /\ ReplacementChain'
  BY <1>1 DEF IInv, SerialsStand, ReplacementChain
<1>5. IssuedKeepsItsImage'
  BY <1>1 DEF IssuedKeepsItsImage, Filed, Archived
<1> QED
  BY <1>2, <1>3, <1>4, <1>5 DEF IInv

\* A row is rewritten without being issued: it keeps its list, number, image and
\* place in the chain, and new billing details come with a new version.
LEMMA RewritingKeepsIInv ==
    ASSUME IInv, NEW i \in Invoice, NEW row \in InvoiceRow, invoices' = [invoices EXCEPT ![i] = row],
           invoices[i].status # "CANCELLED", Issued(i) <=> row.status # "DRAFT",
           row.list = invoices[i].list, row.number = invoices[i].number,
           row.image = invoices[i].image, row.replaces = invoices[i].replaces,
           row.version >= invoices[i].version,
           row.version = invoices[i].version => row.bill = invoices[i].bill,
           comparing' \in [Accountant -> ComparingRow],
           UNCHANGED <<serial, distributor, picture, files, stored, issuing>>
    PROVE  IInv'
<1>1. Same(i, row)
  BY RewriteRow DEF IInv
<1>2. /\ invoices' \in Seq(InvoiceRow) /\ Len(invoices') = Len(invoices) /\ Invoice' = Invoice
      /\ invoices'[i] = row /\ \A j \in Invoice \ {i} : invoices'[j] = invoices[j]
  BY <1>1 DEF Same
<1>3. \A j \in Invoice : /\ invoices'[j].list = invoices[j].list
                         /\ invoices'[j].number = invoices[j].number
                         /\ invoices'[j].image = invoices[j].image
                         /\ invoices'[j].replaces = invoices[j].replaces
                         /\ Issued(j)' <=> Issued(j)
                         /\ invoices[j].status = "CANCELLED" => invoices'[j].status = "CANCELLED"
  BY <1>2 DEF Issued
<1>4. TypeOK'
  BY <1>2, <1>3 DEF IInv, TypeOK, IssuingRow, ComparingRow, FileRow
<1>5. PreparedStands'
  <2> SUFFICES ASSUME NEW r \in Issuer, issuing[r].phase # "idle"
               PROVE  LET w == issuing[r] IN
                      /\ w.version <= invoices'[w.on].version
                      /\ w.version = invoices'[w.on].version => w.bill = invoices'[w.on].bill
                      /\ ~Issued(w.on)' => Filed(w.on, w.image)'
    BY DEF PreparedStands
  <2>1. PICK w \in IssuingRow : w = issuing[r]
    BY DEF IInv, TypeOK
  <2>2. /\ w.on \in Invoice /\ w.version \in Nat
        /\ w.version <= invoices[w.on].version
        /\ w.version = invoices[w.on].version => w.bill = invoices[w.on].bill
        /\ ~Issued(w.on) => Filed(w.on, w.image)
    BY <2>1 DEF IInv, TypeOK, PreparedStands, IssuingRow
  <2>3. Filed(w.on, w.image)' <=> Filed(w.on, w.image)
    BY DEF Filed
  <2>4. row.version \in Nat /\ invoices[i].version \in Nat
    BY InvoicesAreNumbered DEF IInv, InvoiceRow
  <2>5. CASE w.on = i
    BY <1>2, <1>3, <2>1, <2>2, <2>3, <2>4, <2>5
  <2>6. CASE w.on # i
    BY <1>2, <1>3, <2>1, <2>2, <2>3, <2>6
  <2> QED
    BY <2>5, <2>6
<1>6. SerialsStand'
  BY <1>2, <1>3 DEF IInv, SerialsStand
<1>7. IssuedKeepsItsImage'
  BY <1>2, <1>3 DEF IInv, IssuedKeepsItsImage, Filed, Archived
<1>8. ReplacementChain'
  <2> SUFFICES ASSUME NEW j \in Invoice, NEW k \in Invoice,
                      invoices'[j].list = invoices'[k].list, j < k,
                      ~\E m \in j + 1 .. k - 1 : invoices'[m].list = invoices'[j].list
               PROVE  invoices'[j].status = "CANCELLED" /\ invoices'[k].replaces = j
    BY <1>2 DEF ReplacementChain
  <2>1. \A m \in j + 1 .. k - 1 : m \in Invoice
    BY InvoicesAreNumbered DEF IInv
  <2>2. ~\E m \in j + 1 .. k - 1 : invoices[m].list = invoices[j].list
    BY <1>3, <2>1
  <2>3. invoices[j].status = "CANCELLED" /\ invoices[k].replaces = j
    BY <1>3, <2>2 DEF IInv, ReplacementChain
  <2> QED
    BY <1>3, <2>3
<1> QED
  BY <1>4, <1>5, <1>6, <1>7, <1>8 DEF IInv

\* A draft is added to a list whose invoices are all cancelled, as the replacement
\* of the last of them.
LEMMA CreatingKeepsIInv == \A l \in List : IInv /\ CreateOrGetDraft(l) => IInv'
<1> SUFFICES ASSUME NEW l \in List, IInv, CreateOrGetDraft(l) PROVE IInv'
  OBVIOUS
<1>1. /\ NoActive(l) /\ Len(invoices) < MaxInvoice
      /\ UNCHANGED <<serial, distributor, picture, files, stored, issuing, comparing>>
  BY DEF CreateOrGetDraft
<1>2. /\ invoices \in Seq(InvoiceRow) /\ Invoice = 1 .. Len(invoices) /\ Len(invoices) \in Nat
      /\ \A i \in Invoice : invoices[i] \in InvoiceRow /\ i \in Nat \ {0}
  BY InvoicesAreNumbered DEF IInv
<1>3. PICK n \in Nat : n = Len(invoices) + 1
  BY <1>2
<1>4. PICK C : C = {i \in InvoicesOf(l) : invoices[i].status = "CANCELLED"}
  OBVIOUS
<1>5. PICK last : last = LatestCancelled(l)
  OBVIOUS
<1>6. last = IF C = {} THEN 0 ELSE CHOOSE i \in C : \A j \in C : j <= i
  BY <1>4, <1>5 DEF LatestCancelled
<1>7. C \subseteq 1 .. Len(invoices)
  BY <1>2, <1>4 DEF InvoicesOf
<1>8. C # {} => last \in C /\ \A j \in C : j <= last
  <2> SUFFICES ASSUME C # {} PROVE last \in C /\ \A j \in C : j <= last
    OBVIOUS
  <2>1. \E i \in C : \A j \in C : j <= i
    <3>1. C \subseteq 0 .. Len(invoices)
      BY <1>2, <1>7
    <3> QED
      BY <1>2, <3>1, Greatest
  <2> QED
    BY <1>6, <2>1
<1>9. last \in Nat /\ last < n
  <2>1. CASE C = {}
    BY <1>2, <1>3, <1>6, <2>1
  <2>2. CASE C # {}
    <3>1. last \in 1 .. Len(invoices)
      BY <1>7, <1>8, <2>2
    <3> QED
      BY <1>2, <1>3, <3>1
  <2> QED
    BY <2>1, <2>2
<1>10. PICK row : row = [list |-> l, status |-> "DRAFT", number |-> NoNumber, bill |-> distributor,
                         version |-> 1, rate |-> 0, image |-> NoImage, replaces |-> last]
  OBVIOUS
<1>11. invoices' = Append(invoices, row)
  BY <1>5, <1>10 DEF CreateOrGetDraft
<1>12. row \in InvoiceRow /\ row.list = l /\ row.status = "DRAFT" /\ row.number = NoNumber
       /\ row.replaces = last
  <2>1. distributor \in 1 .. MaxEdit /\ 0 \in 0 .. MaxEdit
    BY BoundsAssumption DEF IInv, TypeOK
  <2> QED
    BY <1>9, <1>10, <2>1 DEF InvoiceRow, Status, NoNumber, NoImage
<1>13. /\ invoices' \in Seq(InvoiceRow) /\ Len(invoices') = n /\ Invoice' = 1 .. n
       /\ invoices'[n] = row /\ Invoice = 1 .. (n - 1) /\ Invoice' = Invoice \cup {n} /\ n \notin Invoice
       /\ \A i \in Invoice : invoices'[i] = invoices[i]
  <2>1. /\ invoices' \in Seq(InvoiceRow) /\ Len(invoices') = n /\ DOMAIN invoices' = 1 .. n
        /\ invoices'[n] = row /\ \A i \in 1 .. Len(invoices) : invoices'[i] = invoices[i]
    BY <1>2, <1>3, <1>11, <1>12
  <2> QED
    BY <1>2, <1>3, <2>1 DEF Invoice
<1>14. /\ \A i \in Invoice : Issued(i)' <=> Issued(i)
       /\ ~Issued(n)'
  BY <1>12, <1>13 DEF Issued
<1>15. TypeOK'
  <2>1. \A i \in Invoice' : (Issued(i)' <=> invoices'[i].number # NoNumber) /\ invoices'[i].replaces < i
    BY <1>9, <1>12, <1>13, <1>14 DEF IInv, TypeOK
  <2>2. Len(invoices') <= MaxInvoice
    BY <1>1, <1>2, <1>3, <1>13, BoundsAssumption
  <2>3. issuing' \in [Issuer -> IssuingRow'] /\ comparing' \in [Accountant -> ComparingRow']
    BY <1>1, <1>13 DEF IInv, TypeOK, IssuingRow, ComparingRow
  <2> QED
    BY <1>1, <1>13, <2>1, <2>2, <2>3 DEF IInv, TypeOK, FileRow
<1>16. PreparedStands'
  <2>1. \A r \in Issuer : issuing[r].phase # "idle" => issuing[r].on \in Invoice
    BY DEF IInv, TypeOK, IssuingRow
  <2> QED
    BY <1>1, <1>13, <1>14, <2>1 DEF IInv, PreparedStands, Filed
<1>17. SerialsStand'
  <2>1. \A i, j \in Invoice' : Issued(i)' /\ invoices'[i].number = invoices'[j].number => i = j
    <3> SUFFICES ASSUME NEW i \in Invoice', NEW j \in Invoice', Issued(i)',
                        invoices'[i].number = invoices'[j].number
                 PROVE  i = j
      OBVIOUS
    <3>1. i \in Invoice /\ Issued(i) /\ invoices'[i].number # NoNumber
      BY <1>13, <1>14 DEF IInv, TypeOK
    <3>2. j \in Invoice
      BY <1>12, <1>13, <3>1
    <3> QED
      BY <1>13, <3>1, <3>2 DEF IInv, SerialsStand
  <2> QED
    BY <1>1, <1>13, <1>14, <2>1 DEF IInv, SerialsStand
<1>18. IssuedKeepsItsImage'
  BY <1>1, <1>13, <1>14 DEF IInv, IssuedKeepsItsImage, Filed, Archived
<1>19. ReplacementChain'
  <2> SUFFICES ASSUME NEW i \in Invoice', NEW j \in Invoice',
                      invoices'[i].list = invoices'[j].list, i < j,
                      ~\E m \in i + 1 .. j - 1 : invoices'[m].list = invoices'[i].list
               PROVE  invoices'[i].status = "CANCELLED" /\ invoices'[j].replaces = i
    BY DEF ReplacementChain
  <2>1. i \in Invoice /\ i \in Nat /\ j \in Nat /\ i <= n - 1
    BY <1>2, <1>3, <1>13
  <2>2. CASE j \in Invoice
    <3>1. \A m \in i + 1 .. j - 1 : m \in Invoice
      BY <1>3, <1>13, <2>1, <2>2
    <3>2. ~\E m \in i + 1 .. j - 1 : invoices[m].list = invoices[i].list
      BY <1>13, <2>1, <3>1
    <3> QED
      BY <1>13, <2>1, <2>2, <3>2 DEF IInv, ReplacementChain
  <2>3. CASE j = n
    <3>1. invoices[i].list = l
      BY <1>12, <1>13, <2>1, <2>3
    <3>2. invoices[i].status = "CANCELLED" /\ i \in C
      BY <1>1, <1>4, <2>1, <3>1 DEF NoActive, InvoicesOf
    <3>3. last \in C /\ i <= last /\ last \in Invoice /\ invoices[last].list = l /\ last \in Nat
      BY <1>4, <1>8, <1>9, <3>2 DEF InvoicesOf
    <3>4. ~(i < last)
      <4>1. i < last => last \in i + 1 .. j - 1
        BY <1>3, <1>9, <2>1, <2>3
      <4> QED
        BY <1>13, <2>1, <3>1, <3>3, <4>1
    <3>5. last = i
      BY <2>1, <3>3, <3>4
    <3> QED
      BY <1>12, <1>13, <2>1, <2>3, <3>2, <3>5
  <2> QED
    BY <1>13, <2>2, <2>3
<1> QED
  BY <1>15, <1>16, <1>17, <1>18, <1>19 DEF IInv

\* An invoice is issued with the next serial, by a request that still has it as it
\* was prepared.
LEMMA IssuingKeepsIInv ==
    ASSUME IInv, NEW r \in Issuer, FinalizeTaxInvoice(r), IssuableAs(issuing[r])
    PROVE  IInv'
<1>1. PICK w \in IssuingRow : w = issuing[r] /\ w.phase = "archived" /\ w.on \in Invoice /\ w.image # NoImage
  BY DEF IInv, TypeOK, FinalizeTaxInvoice, IssuingRow
<1>2. PICK i \in Invoice : i = w.on
  BY <1>1
<1>3. /\ invoices[i].status = "DRAFT" /\ invoices[i] \in InvoiceRow /\ serial \in Nat
      /\ Archived(i, w.image) \in stored /\ w.image \in 0 .. MaxEdit
      /\ serial' = serial + 1 /\ issuing' = [issuing EXCEPT ![r] = NotIssuing]
      /\ UNCHANGED <<distributor, picture, files, stored, comparing>>
  BY <1>1, <1>2, InvoicesAreNumbered DEF FinalizeTaxInvoice, Allocate, IssuableAs, IssuingRow, IInv, TypeOK
<1>4. PICK row : row = [invoices[i] EXCEPT !.status = "FINALIZED", !.number = serial + 1, !.image = w.image]
  OBVIOUS
<1>5. invoices' = [invoices EXCEPT ![i] = row]
  BY <1>1, <1>2, <1>4 DEF FinalizeTaxInvoice
<1>6. /\ row \in InvoiceRow /\ row.status = "FINALIZED" /\ row.number = serial + 1 /\ row.image = w.image
      /\ row.list = invoices[i].list /\ row.replaces = invoices[i].replaces
  <2>1. PICK draft \in InvoiceRow : draft = invoices[i]
    BY <1>3
  <2>2. serial + 1 \in Nat /\ row = [draft EXCEPT !.status = "FINALIZED", !.number = serial + 1, !.image = w.image]
    BY <1>3, <1>4, <2>1
  <2> QED
    BY <1>3, <2>1, <2>2 DEF InvoiceRow, Status
<1>7. Same(i, row)
  BY <1>5, <1>6, RewriteRow DEF IInv
<1>8. /\ invoices' \in Seq(InvoiceRow) /\ Len(invoices') = Len(invoices) /\ Invoice' = Invoice
      /\ invoices'[i] = row /\ \A j \in Invoice \ {i} : invoices'[j] = invoices[j]
  BY <1>7 DEF Same
<1>9. /\ \A j \in Invoice : /\ invoices'[j].list = invoices[j].list
                            /\ invoices'[j].replaces = invoices[j].replaces
                            /\ invoices[j].status = "CANCELLED" => invoices'[j].status = "CANCELLED"
      /\ \A j \in Invoice \ {i} : Issued(j)' <=> Issued(j)
      /\ Issued(i)' /\ ~Issued(i) /\ invoices[i].number = NoNumber
  BY <1>3, <1>6, <1>8 DEF Issued, IInv, TypeOK
<1>10. /\ issuing' \in [Issuer -> IssuingRow'] /\ issuing'[r].phase = "idle"
       /\ \A q \in Issuer : q # r => issuing'[q] = issuing[q]
  <2>1. 0 \in 0 .. MaxEdit
    BY BoundsAssumption
  <2> QED
    BY <1>3, <1>8, <2>1 DEF IInv, TypeOK, NotIssuing, IssuingRow, NoImage
<1>11. TypeOK'
  <2>1. \A j \in Invoice : (Issued(j)' <=> invoices'[j].number # NoNumber) /\ invoices'[j].replaces < j
    BY <1>3, <1>6, <1>8, <1>9 DEF IInv, TypeOK, NoNumber
  <2>2. \A q \in Issuer : issuing'[q].phase # "idle" => issuing'[q].on # 0 /\ issuing'[q].image # NoImage
    BY <1>10 DEF IInv, TypeOK
  <2> QED
    BY <1>3, <1>8, <1>10, <2>1, <2>2 DEF IInv, TypeOK, FileRow, ComparingRow
<1>12. PreparedStands'
  <2> SUFFICES ASSUME NEW q \in Issuer, issuing'[q].phase # "idle", NEW v, v = issuing'[q]
               PROVE  /\ v.version <= invoices'[v.on].version
                      /\ v.version = invoices'[v.on].version => v.bill = invoices'[v.on].bill
                      /\ ~Issued(v.on)' => Filed(v.on, v.image)'
    BY DEF PreparedStands, Issued, Filed
  <2>1. v \in IssuingRow /\ v = issuing[q] /\ v.on \in Invoice
    BY <1>10 DEF IInv, TypeOK, IssuingRow
  <2>2. /\ v.version <= invoices[v.on].version
        /\ v.version = invoices[v.on].version => v.bill = invoices[v.on].bill
        /\ ~Issued(v.on) => Filed(v.on, v.image)
    BY <2>1, <1>10 DEF IInv, PreparedStands
  <2>3. Filed(v.on, v.image)' <=> Filed(v.on, v.image)
    BY <1>3 DEF Filed
  <2>4. row.version = invoices[i].version /\ row.bill = invoices[i].bill
    BY <1>3, <1>4 DEF InvoiceRow
  <2>5. CASE v.on = i
    BY <1>8, <1>9, <2>2, <2>3, <2>4, <2>5
  <2>6. CASE v.on # i
    BY <1>8, <1>9, <2>1, <2>2, <2>3, <2>6 DEF Issued
  <2> QED
    BY <2>5, <2>6
<1>13. SerialsStand'
  <2>1. \A j \in Invoice \ {i} : invoices'[j].number = invoices[j].number /\ invoices[j].number # serial + 1
    <3>1. \A j \in Invoice \ {i} : invoices[j].number \in 0 .. serial
      BY <1>3 DEF IInv, SerialsStand, TypeOK, NoNumber
    <3> QED
      BY <1>3, <1>8, <3>1
  <2>2. \A j, k \in Invoice : Issued(j)' /\ invoices'[j].number = invoices'[k].number => j = k
    BY <1>6, <1>8, <1>9, <2>1 DEF IInv, SerialsStand
  <2>3. \A j \in Invoice : Issued(j)' => invoices'[j].number \in 1 .. serial'
    BY <1>3, <1>6, <1>8, <1>9 DEF IInv, SerialsStand
  <2>4. \A n \in 1 .. serial' : \E j \in Invoice : Issued(j)' /\ invoices'[j].number = n
    <3> SUFFICES ASSUME NEW n \in 1 .. serial' PROVE \E j \in Invoice : Issued(j)' /\ invoices'[j].number = n
      OBVIOUS
    <3>1. CASE n = serial + 1
      BY <1>6, <1>8, <1>9, <3>1
    <3>2. CASE n \in 1 .. serial
      BY <1>8, <1>9, <3>2 DEF IInv, SerialsStand
    <3> QED
      BY <1>3, <3>1, <3>2
  <2> QED
    BY <1>8, <2>2, <2>3, <2>4 DEF SerialsStand
<1>14. IssuedKeepsItsImage'
  <2>1. Filed(i, w.image)
    BY <1>1, <1>2, <1>9 DEF IInv, PreparedStands
  <2> QED
    BY <1>3, <1>6, <1>8, <1>9, <2>1 DEF IInv, IssuedKeepsItsImage, Filed, Archived
<1>15. ReplacementChain'
  <2> SUFFICES ASSUME NEW j \in Invoice, NEW k \in Invoice,
                      invoices'[j].list = invoices'[k].list, j < k,
                      ~\E m \in j + 1 .. k - 1 : invoices'[m].list = invoices'[j].list
               PROVE  invoices'[j].status = "CANCELLED" /\ invoices'[k].replaces = j
    BY <1>8 DEF ReplacementChain
  <2>1. \A m \in j + 1 .. k - 1 : m \in Invoice
    BY InvoicesAreNumbered DEF IInv
  <2>2. ~\E m \in j + 1 .. k - 1 : invoices[m].list = invoices[j].list
    BY <1>9, <2>1
  <2>3. invoices[j].status = "CANCELLED" /\ invoices[k].replaces = j
    BY <1>9, <2>2 DEF IInv, ReplacementChain
  <2> QED
    BY <1>9, <2>3
<1> QED
  BY <1>11, <1>12, <1>13, <1>14, <1>15 DEF IInv

\* What holds of the requests and the archived images, as the steps below use it.
LEMMA Standing ==
    ASSUME IInv
    PROVE  /\ {distributor, picture} \subseteq 1 .. MaxEdit
           /\ files \subseteq FileRow /\ stored \subseteq [on : Invoice, image : 1 .. MaxEdit]
           /\ comparing \in [Accountant -> ComparingRow] /\ issuing \in [Issuer -> IssuingRow]
           /\ \A r \in Issuer : issuing[r].phase # "idle" =>
                LET w == issuing[r] IN
                /\ w.on \in Invoice /\ w.on # 0 /\ w.image # NoImage
                /\ w.version <= invoices[w.on].version
                /\ w.version = invoices[w.on].version => w.bill = invoices[w.on].bill
                /\ ~Issued(w.on) => \E f \in files : f.on = w.on /\ f.image = w.image
           /\ \A i \in Invoice : Issued(i) =>
                /\ Archived(i, invoices[i].image) \in stored
                /\ \E f \in files : f.on = i /\ f.image = invoices[i].image
  BY DEF IInv, TypeOK, PreparedStands, IssuedKeepsItsImage, Filed, IssuingRow

\* Master data is edited, a comparison is shown or given up.
LEMMA SurroundingsKeepIInv ==
    ASSUME IInv, UNCHANGED <<invoices, serial, files, stored, issuing>>,
           {distributor, picture}' \subseteq 1 .. MaxEdit,
           comparing' \in [Accountant -> ComparingRow]
    PROVE  IInv'
  BY Standing, AroundKeepsIInv

\* A request ends without issuing.
LEMMA GivingUpKeepsIInv ==
    ASSUME IInv, NEW r \in Issuer, issuing' = [issuing EXCEPT ![r] = NotIssuing],
           UNCHANGED <<invoices, serial, distributor, picture, files, stored, comparing>>
    PROVE  IInv'
<1>1. NotIssuing \in IssuingRow /\ NotIssuing.phase = "idle"
  BY BoundsAssumption DEF NotIssuing, IssuingRow, NoImage
<1>2. /\ issuing' \in [Issuer -> IssuingRow]
      /\ \A q \in Issuer : issuing'[q].phase # "idle" => issuing'[q] = issuing[q]
  BY <1>1, Standing
<1> QED
  BY <1>2, Standing, AroundKeepsIInv

\* The archive is announced before the request goes on.
LEMMA PreparingKeepsIInv ==
    ASSUME IInv, NEW r \in Issuer, NEW i \in Invoice, PrepareIssue(r, i)
    PROVE  IInv'
<1>1. PICK w : w = [phase |-> "prepared", on |-> i, version |-> invoices[i].version,
                    bill |-> invoices[i].bill, image |-> picture]
  OBVIOUS
<1>2. /\ invoices[i].version \in Nat /\ invoices[i].bill \in 1 .. MaxEdit /\ picture \in 1 .. MaxEdit
      /\ i # 0
  BY InvoicesAreNumbered DEF IInv, TypeOK, InvoiceRow
<1>3. /\ w \in IssuingRow /\ w.on = i /\ w.version = invoices[i].version /\ w.bill = invoices[i].bill
      /\ w.image = picture /\ w.image # NoImage
  BY <1>1, <1>2 DEF IssuingRow, NoImage
<1>4. /\ issuing' = [issuing EXCEPT ![r] = w]
      /\ UNCHANGED <<invoices, serial, distributor, picture, stored, comparing>>
  BY <1>1 DEF PrepareIssue
<1>5. PICK new \in FileRow : new = [on |-> i, image |-> picture, old |-> FALSE]
                             /\ new.on = i /\ new.image = picture
  <2>1. [on |-> i, image |-> picture, old |-> FALSE] \in FileRow
    BY <1>2 DEF FileRow
  <2> QED
    BY <2>1
<1>6. /\ files' \subseteq FileRow /\ files \subseteq files'
      /\ \E f \in files' : f.on = i /\ f.image = picture
  BY <1>5, Standing DEF PrepareIssue, Filed
<1>7. /\ issuing' \in [Issuer -> IssuingRow] /\ issuing'[r] = w
      /\ \A q \in Issuer : q # r => issuing'[q] = issuing[q]
  BY <1>3, <1>4, Standing
<1>8. \A q \in Issuer : issuing'[q].phase # "idle" =>
        LET v == issuing'[q] IN
        /\ v.on # 0 /\ v.image # NoImage
        /\ v.version <= invoices[v.on].version
        /\ v.version = invoices[v.on].version => v.bill = invoices[v.on].bill
        /\ ~Issued(v.on) => \E f \in files' : f.on = v.on /\ f.image = v.image
  <2> SUFFICES ASSUME NEW q \in Issuer, issuing'[q].phase # "idle", NEW v, v = issuing'[q]
               PROVE  /\ v.on # 0 /\ v.image # NoImage
                      /\ v.version <= invoices[v.on].version
                      /\ v.version = invoices[v.on].version => v.bill = invoices[v.on].bill
                      /\ ~Issued(v.on) => \E f \in files' : f.on = v.on /\ f.image = v.image
    OBVIOUS
  <2>1. CASE q = r
    <3>1. v = w /\ invoices[i].version <= invoices[i].version
      <4>1. v = w
        BY <1>7, <2>1
      <4> QED
        BY <1>2, <4>1
    <3> QED
      BY <1>2, <1>3, <1>6, <3>1
  <2>2. CASE q # r
    BY <1>6, <1>7, <2>2, Standing
  <2> QED
    BY <2>1, <2>2
<1> QED
  BY <1>4, <1>6, <1>7, <1>8, Standing, AroundKeepsIInv

\* The image of a draft is stored.
LEMMA ArchivingKeepsIInv ==
    ASSUME IInv, NEW r \in Issuer, ArchiveImage(r)
    PROVE  IInv'
<1>1. PICK w \in IssuingRow : w = issuing[r] /\ w.phase # "idle" /\ w.on \in Invoice /\ w.image # NoImage
  BY Standing DEF ArchiveImage
<1>2. /\ stored' \subseteq [on : Invoice, image : 1 .. MaxEdit] /\ stored \subseteq stored'
      /\ issuing' = [issuing EXCEPT ![r] = [@ EXCEPT !.phase = "archived"]]
      /\ UNCHANGED <<invoices, serial, distributor, picture, files, comparing>>
  <2>1. w.image \in 1 .. MaxEdit
    BY <1>1, BoundsAssumption DEF IssuingRow, NoImage
  <2> QED
    BY <1>1, <2>1, Standing DEF ArchiveImage, Archived
<1>3. PICK v : v = [w EXCEPT !.phase = "archived"]
  OBVIOUS
<1>4. /\ v \in IssuingRow /\ v.on = w.on /\ v.version = w.version /\ v.bill = w.bill /\ v.image = w.image
      /\ v.phase = "archived"
  BY <1>1, <1>3 DEF IssuingRow
<1>5. /\ issuing' \in [Issuer -> IssuingRow] /\ issuing'[r] = v
      /\ \A q \in Issuer : q # r => issuing'[q] = issuing[q]
  BY <1>1, <1>2, <1>3, <1>4, Standing
<1>6. \A q \in Issuer : issuing'[q].phase # "idle" =>
        LET x == issuing'[q] IN
        /\ x.on # 0 /\ x.image # NoImage
        /\ x.version <= invoices[x.on].version
        /\ x.version = invoices[x.on].version => x.bill = invoices[x.on].bill
        /\ ~Issued(x.on) => \E f \in files' : f.on = x.on /\ f.image = x.image
  <2> SUFFICES ASSUME NEW q \in Issuer, issuing'[q].phase # "idle", NEW x, x = issuing'[q]
               PROVE  /\ x.on # 0 /\ x.image # NoImage
                      /\ x.version <= invoices[x.on].version
                      /\ x.version = invoices[x.on].version => x.bill = invoices[x.on].bill
                      /\ ~Issued(x.on) => \E f \in files' : f.on = x.on /\ f.image = x.image
    OBVIOUS
  <2>1. /\ w.on # 0
        /\ w.version <= invoices[w.on].version
        /\ w.version = invoices[w.on].version => w.bill = invoices[w.on].bill
        /\ ~Issued(w.on) => \E f \in files : f.on = w.on /\ f.image = w.image
    BY <1>1, Standing
  <2>2. CASE q = r
    BY <1>1, <1>2, <1>4, <1>5, <2>1, <2>2
  <2>3. CASE q # r
    BY <1>2, <1>5, <2>3, Standing
  <2> QED
    BY <2>2, <2>3
<1> QED
  BY <1>2, <1>5, <1>6, Standing, AroundKeepsIInv

\* A day goes by: every row that is on file stays so.
LEMMA AgeKeepsIInv == ASSUME IInv, Age PROVE IInv'
<1>1. UNCHANGED <<invoices, serial, distributor, picture, stored, issuing, comparing>>
      /\ files' = {[f EXCEPT !.old = TRUE] : f \in files}
  BY DEF Age
<1>2. \A f \in files : /\ [f EXCEPT !.old = TRUE] \in FileRow
                       /\ [f EXCEPT !.old = TRUE].on = f.on /\ [f EXCEPT !.old = TRUE].image = f.image
  BY Standing DEF FileRow
<1>3. files' \subseteq FileRow /\ \A f \in files : \E g \in files' : g.on = f.on /\ g.image = f.image
  BY <1>1, <1>2
<1> QED
  <2>1. \A w : (\E f \in files : f.on = w.on /\ f.image = w.image) =>
                 \E f \in files' : f.on = w.on /\ f.image = w.image
    BY <1>3
  <2>2. \A i \in Invoice : Issued(i) => \E f \in files' : f.on = i /\ f.image = invoices[i].image
    BY <1>3, Standing
  <2> QED
    BY <1>1, <1>3, <2>1, <2>2, Standing, AroundKeepsIInv

\* What is cleaned up is no draft's, and not what an issued invoice shows.
LEMMA ReconcilingKeepsIInv == ASSUME IInv, NEW i \in Invoice, ReconcileImages(i) PROVE IInv'
<1>1. /\ files' = files \ Removable(i)
      /\ stored' = {s \in stored : \A f \in Removable(i) : s # Archived(f.on, f.image)}
      /\ UNCHANGED <<invoices, serial, distributor, picture, issuing, comparing>>
  BY DEF ReconcileImages
<1>2. \A f \in Removable(i) : f.on = i /\ Issued(i) /\ f.image # invoices[i].image
  BY DEF Removable
<1>3. \A r \in Issuer : issuing[r].phase # "idle" =>
        LET w == issuing[r] IN ~Issued(w.on) => \E f \in files' : f.on = w.on /\ f.image = w.image
  BY <1>1, <1>2, Standing
<1>4. \A j \in Invoice : Issued(j) =>
        /\ Archived(j, invoices[j].image) \in stored'
        /\ \E f \in files' : f.on = j /\ f.image = invoices[j].image
  <2> SUFFICES ASSUME NEW j \in Invoice, Issued(j)
               PROVE  /\ Archived(j, invoices[j].image) \in stored'
                      /\ \E f \in files' : f.on = j /\ f.image = invoices[j].image
    OBVIOUS
  <2>1. \A f \in Removable(i) : Archived(j, invoices[j].image) # Archived(f.on, f.image)
    BY <1>2 DEF Archived
  <2> QED
    BY <1>1, <1>2, <2>1, Standing
<1> QED
  BY <1>1, <1>3, <1>4, Standing, AroundKeepsIInv

-----------------------------------------------------------------------------
(* The theorems *)

\* Rows rewritten in place: a corrected rate, refreshed billing details, a cancellation.
LEMMA CorrectingKeepsIInv ==
    ASSUME IInv, NEW i \in Invoice, OverrideRate(i) \/ CancelTaxInvoice(i)
    PROVE  IInv'
<1>1. invoices[i] \in InvoiceRow
  BY InvoicesAreNumbered DEF IInv
<1>2. comparing' \in [Accountant -> ComparingRow] /\ UNCHANGED <<serial, distributor, picture, files, stored, issuing>>
  BY Standing DEF OverrideRate, CancelTaxInvoice
<1>3. CASE OverrideRate(i)
  <2>1. PICK row : row = [invoices[i] EXCEPT !.rate = 1]
    OBVIOUS
  <2>2. /\ invoices' = [invoices EXCEPT ![i] = row] /\ invoices[i].status = "DRAFT"
    BY <1>3, <2>1 DEF OverrideRate, Correctable
  <2>3. /\ row \in InvoiceRow /\ row.list = invoices[i].list /\ row.number = invoices[i].number
        /\ row.image = invoices[i].image /\ row.replaces = invoices[i].replaces
        /\ row.version = invoices[i].version /\ row.bill = invoices[i].bill
        /\ row.status = invoices[i].status /\ row.version \in Nat
    BY <1>1, <2>1 DEF InvoiceRow
  <2>4. row.version >= invoices[i].version
    BY <2>3
  <2> QED
    BY <1>2, <2>2, <2>3, <2>4, RewritingKeepsIInv DEF Issued
<1>4. CASE CancelTaxInvoice(i)
  <2>1. PICK old \in InvoiceRow : old = invoices[i]
    BY <1>1
  <2>2. PICK row : row = [old EXCEPT !.status = "CANCELLED", !.version = old.version + 1]
    OBVIOUS
  <2>3. invoices' = [invoices EXCEPT ![i] = row] /\ old.status = "FINALIZED"
    BY <1>4, <2>1, <2>2 DEF CancelTaxInvoice
  <2>4. old.version \in Nat /\ old.version + 1 \in Nat
    BY DEF InvoiceRow
  <2>5. /\ row \in InvoiceRow /\ row.list = old.list /\ row.number = old.number
        /\ row.image = old.image /\ row.replaces = old.replaces
        /\ row.version = old.version + 1 /\ row.status = "CANCELLED"
    BY <2>2, <2>4 DEF InvoiceRow, Status
  <2>6. row.version >= old.version /\ row.version # old.version
    BY <2>4, <2>5
  <2> QED
    BY <1>2, <2>1, <2>3, <2>5, <2>6, RewritingKeepsIInv DEF Issued
<1> QED
  BY <1>3, <1>4

LEMMA RefreshingKeepsIInv == ASSUME IInv, NEW a \in Accountant, RefreshBillTo(a) PROVE IInv'
<1>1. NotComparing \in ComparingRow
  BY BoundsAssumption DEF NotComparing, ComparingRow
<1>2. /\ comparing' \in [Accountant -> ComparingRow]
      /\ UNCHANGED <<serial, distributor, picture, files, stored, issuing>>
  BY <1>1, Standing DEF RefreshBillTo
<1>3. PICK c \in ComparingRow : c = comparing[a] /\ c.on # 0
  BY Standing DEF RefreshBillTo
<1>4. CASE invoices' = invoices
  BY <1>2, <1>4, Standing, SurroundingsKeepIInv
<1>5. CASE invoices' # invoices
  <2>1. PICK i \in Invoice : i = c.on
    BY <1>3 DEF ComparingRow
  <2>2. PICK old \in InvoiceRow : old = invoices[i]
    BY <2>1, InvoicesAreNumbered DEF IInv
  <2>3. PICK row : row = [old EXCEPT !.bill = c.bill, !.version = old.version + 1]
    OBVIOUS
  <2>4. /\ old.status = "DRAFT" /\ c.bill = distributor
        /\ invoices' = [invoices EXCEPT ![i] = row]
    BY <1>3, <1>5, <2>1, <2>2, <2>3 DEF RefreshBillTo
  <2>5. old.version \in Nat /\ old.version + 1 \in Nat /\ c.bill \in 1 .. MaxEdit
    BY <2>4, Standing DEF InvoiceRow
  <2>6. /\ row \in InvoiceRow /\ row.list = old.list /\ row.number = old.number
        /\ row.image = old.image /\ row.replaces = old.replaces
        /\ row.version = old.version + 1 /\ row.status = "DRAFT"
    BY <2>3, <2>4, <2>5 DEF InvoiceRow
  <2>7. row.version >= old.version /\ row.version # old.version
    BY <2>5, <2>6
  <2> QED
    BY <1>2, <2>2, <2>4, <2>6, <2>7, RewritingKeepsIInv DEF Issued
<1> QED
  BY <1>4, <1>5

LEMMA NextIInv == IInv /\ [Next]_vars => IInv'
<1> SUFFICES ASSUME IInv, [Next]_vars PROVE IInv'
  OBVIOUS
<1>1. CASE EditDistributor \/ ReplacePicture \/ UNCHANGED vars
  <2>1. distributor < MaxEdit => distributor + 1 \in 1 .. MaxEdit
    BY Standing, BoundsAssumption
  <2>2. picture < MaxEdit => picture + 1 \in 1 .. MaxEdit
    BY Standing, BoundsAssumption
  <2>3. {distributor, picture}' \subseteq 1 .. MaxEdit
    BY <1>1, <2>1, <2>2, Standing DEF EditDistributor, ReplacePicture, vars
  <2>4. UNCHANGED <<invoices, serial, files, stored, issuing, comparing>>
    BY <1>1 DEF EditDistributor, ReplacePicture, vars
  <2> QED
    BY <2>3, <2>4, Standing, SurroundingsKeepIInv
<1>2. ASSUME NEW l \in List, CreateOrGetDraft(l) PROVE IInv'
  BY <1>2, CreatingKeepsIInv
<1>3. ASSUME NEW i \in Invoice, OverrideRate(i) \/ CancelTaxInvoice(i) PROVE IInv'
  BY <1>3, CorrectingKeepsIInv
<1>4. ASSUME NEW i \in Invoice, ReconcileImages(i) PROVE IInv'
  BY <1>4, ReconcilingKeepsIInv
<1>5. ASSUME NEW i \in Invoice, NEW r \in Issuer, PrepareIssue(r, i) PROVE IInv'
  BY <1>5, PreparingKeepsIInv
<1>6. ASSUME NEW i \in Invoice, NEW a \in Accountant, CompareBillTo(a, i) PROVE IInv'
  <2>1. PICK c : c = [on |-> i, version |-> invoices[i].version, bill |-> distributor]
    OBVIOUS
  <2>2. invoices[i].version \in Nat /\ distributor \in 0 .. MaxEdit
    <3>1. invoices[i] \in InvoiceRow
      BY InvoicesAreNumbered DEF IInv
    <3>2. distributor \in 1 .. MaxEdit
      BY Standing
    <3> QED
      BY <3>1, <3>2, BoundsAssumption DEF InvoiceRow
  <2>3. c \in ComparingRow
    BY <2>1, <2>2 DEF ComparingRow
  <2>4. comparing' \in [Accountant -> ComparingRow]
    BY <1>6, <2>1, <2>3, Standing DEF CompareBillTo
  <2>5. UNCHANGED <<invoices, serial, distributor, picture, files, stored, issuing>>
    BY <1>6 DEF CompareBillTo
  <2> QED
    BY <2>4, <2>5, Standing, SurroundingsKeepIInv
<1>7. ASSUME NEW r \in Issuer, ArchiveImage(r) PROVE IInv'
  BY <1>7, ArchivingKeepsIInv
<1>8. ASSUME NEW r \in Issuer, FinalizeTaxInvoice(r) PROVE IInv'
  <2>1. CASE IssuableAs(issuing[r])
    BY <1>8, <2>1, IssuingKeepsIInv
  <2>2. CASE ~IssuableAs(issuing[r])
    <3>1. /\ issuing' = [issuing EXCEPT ![r] = NotIssuing]
          /\ UNCHANGED <<invoices, serial, distributor, picture, files, stored, comparing>>
      BY <1>8, <2>2 DEF FinalizeTaxInvoice, Allocate
    <3> QED
      BY <3>1, GivingUpKeepsIInv
  <2> QED
    BY <2>1, <2>2
<1>9. ASSUME NEW r \in Issuer, Interrupt(r) PROVE IInv'
  BY <1>9, GivingUpKeepsIInv DEF Interrupt
<1>10. ASSUME NEW a \in Accountant, RefreshBillTo(a) PROVE IInv'
  BY <1>10, RefreshingKeepsIInv
<1>11. CASE Age
  BY <1>11, AgeKeepsIInv
<1> QED
  BY <1>1, <1>2, <1>3, <1>4, <1>5, <1>6, <1>7, <1>8, <1>9, <1>10, <1>11 DEF Next

\* The inductive invariant: types, requests that still mean what they prepared,
\* serials one to one with issued invoices, archived images and the chain.
THEOREM Invariance == Spec => []IInv
  BY InitIInv, NextIInv, PTL DEF Spec

\* Types, for any number of lists, invoices and requests (TaxInvoice rows).
THEOREM TypeCorrect == Spec => []TypeOK
  BY Invariance, PTL DEF IInv

\* The numbers of the issued invoices are 1 to the last serial, each once
\* (allocateDocumentSerial in the transaction that issues).
THEOREM NumbersStayGapless == Spec => []NumbersAreGapless
<1>1. IInv => NumbersAreGapless
  <2> SUFFICES ASSUME IInv PROVE NumbersAreGapless
    OBVIOUS
  <2>1. PICK I : I = {i \in Invoice : Issued(i)}
    OBVIOUS
  <2>2. /\ \A i \in I : invoices[i].number \in 1 .. serial
        /\ \A i, j \in I : invoices[i].number = invoices[j].number => i = j
        /\ \A n \in 1 .. serial : \E i \in I : invoices[i].number = n
    BY <2>1 DEF IInv, SerialsStand
  <2>3. {invoices[i].number : i \in I} = 1 .. serial
    BY <2>2
  <2>4. PICK f : f = [i \in I |-> invoices[i].number]
    OBVIOUS
  <2>5. f \in [I -> 1 .. serial] /\ \A i \in I : f[i] = invoices[i].number
    BY <2>2, <2>4
  <2>6. f \in Bijection(I, 1 .. serial)
    BY <2>2, <2>5 DEF Bijection, Injection, Surjection, IsInjective
  <2>7. IsFiniteSet(I)
    <3>1. I \subseteq 1 .. Len(invoices) /\ Len(invoices) \in Nat
      BY <2>1, InvoicesAreNumbered DEF IInv
    <3>2. IsFiniteSet(1 .. Len(invoices))
      BY <3>1, FS_Interval
    <3> QED
      BY <3>1, <3>2, FS_Subset
  <2>8. Cardinality(1 .. serial) = Cardinality(I)
    BY <2>6, <2>7, FS_Bijection DEF ExistsBijection
  <2>9. Cardinality(1 .. serial) = serial
    <3>1. serial \in Nat
      BY DEF IInv, TypeOK
    <3>2. Cardinality(1 .. serial) = IF 1 > serial THEN 0 ELSE serial - 1 + 1
      BY <3>1, FS_Interval
    <3> QED
      BY <3>1, <3>2
  <2> QED
    BY <2>1, <2>3, <2>8, <2>9 DEF NumbersAreGapless
<1> QED
  BY <1>1, Invariance, PTL

\* The image of an issued invoice stays archived (uploadInvoiceDocument announces
\* before it stores; reconcileInvoiceImageArchives removes none that is shown).
THEOREM ImagesAreKept == Spec => []IssuedKeepsItsImage
  BY Invariance, PTL DEF IInv

\* The invoices of a list replace one another in the order they were drafted
\* (createOrGetDraft looks for the latest that was cancelled).
THEOREM ReplacementsFormAChain == Spec => []ReplacementChain
  BY Invariance, PTL DEF IInv

\* Invoices are issued as they were prepared, with the style's current image
\* (finalizeTaxInvoice compares the version and the archive).
THEOREM IssuedAsItWasPrepared == Spec => IssuedAsPrepared
<1>1. ASSUME IInv, [Next]_vars, NEW i \in Invoice, invoices'[i].status = "FINALIZED", ~Issued(i)
      PROVE  \E r \in Issuer :
               /\ issuing[r].on = i /\ issuing'[r] = NotIssuing
               /\ issuing[r].bill = invoices'[i].bill
               /\ issuing[r].image = invoices'[i].image /\ invoices'[i].image = picture
  <2>1. invoices[i].status = "DRAFT" /\ invoices[i] \in InvoiceRow /\ invoices' # invoices
    BY <1>1, InvoicesAreNumbered DEF Issued, IInv
  <2>2. PICK r \in Issuer : FinalizeTaxInvoice(r)
    <3>1. ASSUME NEW l \in List, CreateOrGetDraft(l) PROVE FALSE
      <4>1. PICK row : invoices' = Append(invoices, row)
        BY <3>1 DEF CreateOrGetDraft
      <4>2. invoices'[i] = invoices[i]
        BY <1>1, <4>1, InvoicesAreNumbered DEF IInv
      <4> QED
        BY <1>1, <2>1, <4>2
    <3>2. ASSUME NEW j \in Invoice, NEW row, invoices' = [invoices EXCEPT ![j] = row], row.status # "FINALIZED"
          PROVE  FALSE
      BY <1>1, <2>1, <3>2, InvoicesAreNumbered DEF Invoice, IInv
    <3>3. ASSUME NEW j \in Invoice, OverrideRate(j) PROVE FALSE
      <4>1. [invoices[j] EXCEPT !.rate = 1].status = "DRAFT"
        BY <1>1, <3>3, InvoicesAreNumbered DEF OverrideRate, Correctable, InvoiceRow, IInv
      <4> QED
        BY <3>2, <3>3, <4>1 DEF OverrideRate
    <3>4. ASSUME NEW j \in Invoice, CancelTaxInvoice(j) PROVE FALSE
      <4>1. [invoices[j] EXCEPT !.status = "CANCELLED", !.version = invoices[j].version + 1].status = "CANCELLED"
        BY <1>1, InvoicesAreNumbered DEF InvoiceRow, IInv
      <4>2. invoices' = [invoices EXCEPT ![j] =
              [invoices[j] EXCEPT !.status = "CANCELLED", !.version = invoices[j].version + 1]]
        BY <3>4 DEF CancelTaxInvoice
      <4> QED
        BY <3>2, <4>1, <4>2
    <3>5. ASSUME NEW a \in Accountant, RefreshBillTo(a) PROVE FALSE
      <4>1. PICK c \in ComparingRow : c = comparing[a] /\ c.on # 0 /\ c.on \in Invoice
        BY <1>1, <3>5, Standing DEF RefreshBillTo, ComparingRow
      <4>2. PICK row : row = [invoices[c.on] EXCEPT !.bill = c.bill, !.version = invoices[c.on].version + 1]
        OBVIOUS
      <4>3. invoices[c.on].status = "DRAFT" /\ invoices' = [invoices EXCEPT ![c.on] = row]
        BY <2>1, <3>5, <4>1, <4>2 DEF RefreshBillTo
      <4>4. row.status = "DRAFT"
        BY <1>1, <4>1, <4>2, <4>3, InvoicesAreNumbered DEF InvoiceRow, IInv
      <4> QED
        BY <3>2, <4>1, <4>3, <4>4
    <3> QED
      BY <1>1, <2>1, <3>1, <3>3, <3>4, <3>5 DEF Next, vars, PrepareIssue, CompareBillTo, ArchiveImage,
         Interrupt, ReconcileImages, EditDistributor, ReplacePicture, Age
  <2>3. PICK w \in IssuingRow : w = issuing[r] /\ w.phase # "idle" /\ w.on \in Invoice
    BY <1>1, <2>2, Standing DEF FinalizeTaxInvoice
  <2>4. IssuableAs(w) /\ w.on = i
    <3>1. IssuableAs(w)
      BY <2>1, <2>2, <2>3 DEF FinalizeTaxInvoice
    <3>2. PICK row : invoices' = [invoices EXCEPT ![w.on] = row]
      BY <2>2, <2>3, <3>1 DEF FinalizeTaxInvoice
    <3>3. w.on # i => invoices'[i] = invoices[i]
      BY <3>2 DEF Invoice
    <3> QED
      BY <1>1, <2>1, <3>1, <3>3
  <2>5. w.version = invoices[i].version /\ w.image = picture /\ w.bill = invoices[i].bill
    BY <1>1, <2>3, <2>4, Standing DEF IssuableAs
  <2>6. invoices'[i].bill = invoices[i].bill /\ invoices'[i].image = w.image
    <3>1. PICK row : row = [invoices[i] EXCEPT !.status = "FINALIZED", !.number = serial + 1, !.image = w.image]
      OBVIOUS
    <3>2. row.bill = invoices[i].bill /\ row.image = w.image
      BY <2>1, <3>1 DEF InvoiceRow
    <3>3. invoices' = [invoices EXCEPT ![i] = row]
      BY <2>2, <2>3, <2>4, <3>1 DEF FinalizeTaxInvoice
    <3> QED
      BY <3>2, <3>3 DEF Invoice
  <2>7. issuing'[r] = NotIssuing
    BY <1>1, <2>2, Standing DEF FinalizeTaxInvoice
  <2> QED
    BY <2>3, <2>4, <2>5, <2>6, <2>7
<1>2. IInv /\ [Next]_vars =>
        [\A i \in Invoice : invoices'[i].status = "FINALIZED" /\ ~Issued(i) =>
           \E r \in Issuer :
              /\ issuing[r].on = i /\ issuing'[r] = NotIssuing
              /\ issuing[r].bill = invoices'[i].bill
              /\ issuing[r].image = invoices'[i].image /\ invoices'[i].image = picture]_vars
  BY <1>1
<1> QED
  BY <1>2, Invariance, PTL DEF Spec, IssuedAsPrepared

-----------------------------------------------------------------------------
(* The e-way bill of an invoice *)

AttemptRow == [outcome : Open \cup {"SUCCEEDED", "REJECTED", "CLOSED"},
               movement : Nat, settings : Nat, review : Int]

HandlerRow == [phase : {"idle", "prepared", "claimed", "calling", "answered", "failed"},
               on : 0 .. Len(attempts), at : 0 .. MaxTime,
               reply : {"none", "bill", "refused", "unknown"}]

-----------------------------------------------------------------------------
(* The inductive invariant *)

\* No two requests work on one attempt.
OneRequestPerAttempt ==
    \A r, q \in Request : req[r].on # 0 /\ req[r].on = req[q].on => r = q

\* From the claim to the answer the review time of an attempt is still to come:
\* a server that has stalled as long as it may still gets its answer before it.
ReviewOutlastsCall ==
    \A r \in Request :
        LET review == attempts[req[r].on].review
        IN  /\ req[r].phase = "claimed" =>
                 /\ req[r].at <= now /\ now <= req[r].at + Stall
                 /\ review = req[r].at + Timeout + Grace
            /\ req[r].phase = "calling" =>
                 /\ req[r].at <= now /\ now <= req[r].at + Timeout
                 /\ review > req[r].at + Timeout

\* An attempt succeeded exactly when it has its bill, and no other has one.
BillsStand ==
    /\ \A i \in Attempt : attempts[i].outcome = "SUCCEEDED" <=> i \in bills
    /\ \A i, j \in bills : i = j

BillIInv ==
    /\ BillTypeOK /\ OpenAttemptIsExplained /\ OneRequestPerAttempt
    /\ CallIsOnRecord /\ ReviewOutlastsCall /\ BillsStand

-----------------------------------------------------------------------------
(* What a transition leaves *)

Moved(i, from, to, review) ==
    /\ attempts' \in Seq(AttemptRow) /\ Len(attempts') = Len(attempts) /\ Attempt' = Attempt
    /\ \A j \in Attempt : attempts'[j].movement = attempts[j].movement
    /\ \A j \in Attempt \ {i} : attempts'[j] = attempts[j]
    /\ attempts[i].outcome \in from => attempts'[i].outcome = to /\ attempts'[i].review = review
    /\ attempts[i].outcome \notin from => attempts'[i] = attempts[i]

\* A transition keeps the rows, and changes at most the outcome and the review
\* time of one of them.
LEMMA TransitionRow ==
    ASSUME attempts \in Seq(AttemptRow), NEW i \in Attempt, NEW from,
           NEW to \in Open \cup {"SUCCEEDED", "REJECTED", "CLOSED"}, NEW review \in Int,
           Transition(i, from, to, review)
    PROVE  Moved(i, from, to, review)
<1>1. attempts[i] \in AttemptRow /\ DOMAIN attempts = 1 .. Len(attempts)
  BY DEF Attempt
<1>2. CASE attempts[i].outcome \in from
  <2>1. attempts' = [attempts EXCEPT ![i] = [@ EXCEPT !.outcome = to, !.review = review]]
    BY <1>2 DEF Transition
  <2>2. [attempts[i] EXCEPT !.outcome = to, !.review = review] \in AttemptRow
    BY <1>1 DEF AttemptRow
  <2> QED
    BY <1>1, <1>2, <2>1, <2>2 DEF Attempt, AttemptRow, Moved
<1>3. CASE attempts[i].outcome \notin from
  BY <1>1, <1>3 DEF Transition, Attempt, Moved
<1> QED
  BY <1>2, <1>3 DEF Moved
-----------------------------------------------------------------------------
(* Every step preserves the invariant *)

USE DEF Open, AttemptRow, HandlerRow

LEMMA InitBill == BillInit => BillIInv
<1> SUFFICES ASSUME BillInit PROVE BillIInv
  OBVIOUS
<1>1. attempts = << >> /\ Attempt = {} /\ Len(attempts) = 0
  BY DEF BillInit, Attempt
<1>2. BillTypeOK
  <2>1. attempts \in Seq(AttemptRow)
    BY <1>1
  <2>2. req \in [Request -> HandlerRow]
    BY <1>1, BillAssumption DEF BillInit, NoRequest
  <2>3. \A r \in Request : req[r] = NoRequest
    BY DEF BillInit
  <2>4. /\ now \in 0 .. MaxTime /\ movement \in 0 .. MaxChange /\ settings \in 0 .. MaxChange
        /\ 0 <= MaxAttempt
    BY BillAssumption DEF BillInit
  <2>5. /\ invoice \in {"FINALIZED", "CANCELLED"} /\ linked \in BOOLEAN /\ bills \subseteq Attempt
        /\ sent \subseteq Attempt
    BY <1>1 DEF BillInit
  <2> QED
    BY <1>1, <2>1, <2>2, <2>3, <2>4, <2>5 DEF BillTypeOK, NoRequest
<1> QED
  BY <1>1, <1>2 DEF BillInit, BillIInv, OpenAttemptIsExplained, OneRequestPerAttempt,
     CallIsOnRecord, ReviewOutlastsCall, BillsStand, NoRequest

\* What happens around the handlers.
LEMMA SurroundingsKeepBill ==
    BillIInv /\ (Tick \/ CancelItsInvoice \/ ChangeSettings \/ SaveMovement \/ LinkExisting
                 \/ UNCHANGED billVars) => BillIInv'
<1> SUFFICES ASSUME BillIInv PROVE
      (Tick \/ CancelItsInvoice \/ ChangeSettings \/ SaveMovement \/ LinkExisting
             \/ UNCHANGED billVars) => BillIInv'
  OBVIOUS
<1> USE DEF BillIInv, Attempt, IsOpen
<1>1. CASE Tick
  <2>1. BillTypeOK'
    BY <1>1, BillAssumption DEF Tick, BillTypeOK
  <2>2. ReviewOutlastsCall'
    BY <1>1, BillAssumption DEF Tick, Late, BillTypeOK, ReviewOutlastsCall
  <2> QED
    BY <1>1, <2>1, <2>2 DEF Tick, OpenAttemptIsExplained, OneRequestPerAttempt, CallIsOnRecord, BillsStand
<1>2. CASE CancelItsInvoice \/ ChangeSettings \/ LinkExisting \/ UNCHANGED billVars
  <2>1. UNCHANGED <<now, movement, attempts, bills, req, sent>>
    BY <1>2 DEF CancelItsInvoice, ChangeSettings, LinkExisting, billVars
  <2>2. /\ invoice' \in {"FINALIZED", "CANCELLED"}
        /\ settings' \in 0 .. MaxChange /\ linked' \in BOOLEAN
    <3>1. settings < MaxChange => settings + 1 \in 0 .. MaxChange
      BY BillAssumption DEF BillTypeOK
    <3>2. invoice \in {"FINALIZED", "CANCELLED"} /\ settings \in 0 .. MaxChange /\ linked \in BOOLEAN
      BY DEF BillTypeOK
    <3> QED
      BY <1>2, <3>1, <3>2 DEF CancelItsInvoice, ChangeSettings, LinkExisting, billVars
  <2>3. BillTypeOK'
    BY <2>1, <2>2 DEF BillTypeOK
  <2> QED
    BY <2>1, <2>3 DEF OpenAttemptIsExplained, OneRequestPerAttempt, CallIsOnRecord,
       ReviewOutlastsCall, BillsStand
<1>3. CASE SaveMovement
  <2>1. UNCHANGED <<now, attempts, bills, req, sent>> /\ \A i \in Attempt : ~IsOpen(i)
    BY <1>3 DEF SaveMovement, MovementFree
  <2>2. BillTypeOK'
    BY <1>3, BillAssumption DEF SaveMovement, BillTypeOK
  <2>3. OpenAttemptIsExplained'
    BY <2>1 DEF OpenAttemptIsExplained
  <2> QED
    BY <2>1, <2>2, <2>3 DEF OneRequestPerAttempt, CallIsOnRecord, ReviewOutlastsCall, BillsStand
<1> QED
  BY <1>1, <1>2, <1>3

\* A request that is under way works on an attempt on record.
LEMMA WorkIsOnRecord ==
    ASSUME BillTypeOK, NEW q \in Request, req[q].phase # "idle"
    PROVE  req[q].on \in Attempt /\ req[q].on # 0
<1>1. PICK n, w : n = Len(attempts) /\ w = req[q]
  OBVIOUS
<1>2. n \in Nat /\ Attempt = 1 .. n
  BY <1>1 DEF BillTypeOK, Attempt
<1>3. w.on \in 0 .. n /\ w.on # 0
  BY <1>1 DEF BillTypeOK
<1> QED
  BY <1>1, <1>2, <1>3

\* A new attempt is the only open one, and belongs to the request that prepared it.
LEMMA PrepareKeepsBill == \A r \in Request : BillIInv /\ Prepare(r) => BillIInv'
<1> SUFFICES ASSUME NEW r \in Request, BillIInv, Prepare(r) PROVE BillIInv'
  OBVIOUS
<1> USE DEF BillIInv, Attempt, IsOpen
<1>1. /\ UNCHANGED <<now, invoice, movement, settings, bills, linked, sent>>
      /\ bills = {} /\ \A i \in Attempt : ~IsOpen(i)
      /\ now + Grace \in Nat /\ movement \in Nat /\ settings \in Nat
  BY BillAssumption DEF Prepare, Permitted, BillTypeOK
<1>2. PICK n \in Nat : n = Len(attempts) + 1
  BY DEF BillTypeOK
<1>3. PICK row \in AttemptRow :
        /\ attempts' = Append(attempts, row)
        /\ row.outcome = "PREPARED" /\ row.movement = movement /\ row.review >= 0
  BY <1>1 DEF Prepare
<1>4. /\ attempts' \in Seq(AttemptRow) /\ Len(attempts') = n /\ Attempt' = 1 .. n
      /\ attempts'[n] = row /\ Attempt = 1 .. (n - 1)
      /\ \A i \in Attempt : attempts'[i] = attempts[i]
  <2>1. attempts \in Seq(AttemptRow) /\ row \in AttemptRow /\ Len(attempts) = n - 1
    BY <1>2, <1>3 DEF BillTypeOK
  <2> HIDE DEF AttemptRow
  <2> QED
    BY <1>2, <1>3, <2>1
<1>5. req' = [req EXCEPT ![r] = [phase |-> "prepared", on |-> n, at |-> 0, reply |-> "none"]]
  BY <1>2 DEF Prepare
<1>6. BillTypeOK'
  <2>1. Len(attempts') <= MaxAttempt
    BY <1>2, <1>4, BillAssumption DEF Prepare, BillTypeOK
  <2>2. req' \in [Request -> HandlerRow']
    BY <1>2, <1>4, <1>5, BillAssumption DEF BillTypeOK
  <2>3. \A q \in Request : req'[q].phase = "idle" <=> req'[q].on = 0
    BY <1>2, <1>5 DEF BillTypeOK
  <2>4. \A i \in Attempt' : attempts'[i].review >= 0 <=> IsOpen(i)'
    BY <1>2, <1>3, <1>4 DEF BillTypeOK
  <2> QED
    BY <1>1, <1>4, <2>1, <2>2, <2>3, <2>4 DEF BillTypeOK
<1>7. OpenAttemptIsExplained'
  <2>1. ASSUME NEW i \in Attempt', i # n PROVE ~IsOpen(i)'
    <3>1. i \in 1 .. n - 1
      BY <1>2, <1>4, <2>1
    <3>2. i \in Attempt /\ attempts'[i] = attempts[i]
      BY <1>4, <3>1
    <3> QED
      BY <1>1, <3>2
  <2>2. attempts'[n].movement = movement'
    BY <1>1, <1>3, <1>4
  <2> HIDE DEF BillIInv, IsOpen, Attempt
  <2> QED
    BY <2>1, <2>2 DEF OpenAttemptIsExplained
<1>8. OneRequestPerAttempt'
  <2>1. req'[r].on = n
    BY <1>5 DEF BillTypeOK
  <2>2. \A q \in Request : req[q].on \in 0 .. (n - 1)
    BY <1>2 DEF BillTypeOK
  <2>3. \A q \in Request : q # r => req'[q] = req[q] /\ req'[q].on # n
    BY <1>5, <2>2 DEF BillTypeOK
  <2> QED
    BY <2>1, <2>3 DEF OneRequestPerAttempt
<1>9. \A q \in Request : q # r => req'[q] = req[q] /\ (req[q].phase # "idle" => req[q].on \in Attempt)
  BY <1>5 DEF BillTypeOK
<1>10. CallIsOnRecord' /\ ReviewOutlastsCall'
  <2>1. req'[r].phase = "prepared"
    BY <1>5 DEF BillTypeOK
  <2> QED
    <3>1. \A q \in Request : req'[q].phase \in {"claimed", "calling", "answered", "failed"} =>
            req'[q] = req[q] /\ attempts'[req[q].on] = attempts[req[q].on]
      BY <2>1, <1>4, <1>9
    <3>2. CallIsOnRecord'
      BY <3>1 DEF CallIsOnRecord
    <3>3. ReviewOutlastsCall'
      BY <3>1, <1>1 DEF ReviewOutlastsCall
    <3> QED
      BY <3>2, <3>3
<1>11. BillsStand'
  BY <1>1, <1>2, <1>3, <1>4 DEF BillsStand
<1> QED
  BY <1>6, <1>7, <1>8, <1>10, <1>11

\* The bill is not recorded, though the provider made it.
CompleteFails(r) ==
    /\ req[r].phase = "answered"
    /\ req' = [req EXCEPT ![r].phase = "failed", ![r].reply = "unknown"]
    /\ UNCHANGED <<now, invoice, movement, settings, attempts, bills, linked, sent>>

\* Steps of a request that leave the attempts alone: it goes on or is given up.
LEMMA RequestStepKeepsBill == \A r \in Request : BillIInv /\ (Call(r) \/ Answered(r) \/ CompleteFails(r) \/ Crash(r)) => BillIInv'
<1> SUFFICES ASSUME NEW r \in Request, BillIInv, Call(r) \/ Answered(r) \/ CompleteFails(r) \/ Crash(r)
              PROVE  BillIInv'
  OBVIOUS
<1> USE DEF BillIInv, Attempt, IsOpen
<1>1. UNCHANGED <<now, invoice, movement, settings, attempts, bills, linked>> /\ sent' \subseteq Attempt
  <2>1. UNCHANGED <<now, invoice, movement, settings, attempts, bills, linked>>
    BY DEF Call, Answered, CompleteFails, Crash
  <2>2. sent \subseteq Attempt
    BY DEF BillTypeOK
  <2>3. CASE Call(r)
    <3>1. req[r].on \in Attempt
      <4>1. BillTypeOK /\ req[r].phase # "idle"
        BY <2>3 DEF Call
      <4> HIDE DEF BillIInv, Attempt
      <4> QED
        BY <4>1, WorkIsOnRecord
    <3> QED
      BY <2>1, <2>2, <2>3, <3>1 DEF Call
  <2>4. CASE Answered(r)
    BY <2>2, <2>4 DEF Answered
  <2>5. CASE CompleteFails(r) \/ Crash(r)
    BY <2>2, <2>5 DEF CompleteFails, Crash
  <2> QED
    BY <2>1, <2>3, <2>4, <2>5
<1>2. PICK row : req' = [req EXCEPT ![r] = row] /\
        \/ row = NoRequest
        \/ row = [req[r] EXCEPT !.phase = "calling", !.at = now] /\ req[r].phase = "claimed"
        \/ \E reply \in {"bill", "refused", "unknown"} :
             /\ row = [req[r] EXCEPT !.phase = "answered", !.at = 0, !.reply = reply]
             /\ req[r].phase = "calling"
        \/ row = [req[r] EXCEPT !.phase = "failed", !.reply = "unknown"] /\ req[r].phase = "answered"
  <2>1. CASE Call(r)
    <3>1. req[r].phase = "claimed"
          /\ req' = [req EXCEPT ![r] = [req[r] EXCEPT !.phase = "calling", !.at = now]]
      BY <2>1 DEF Call
    <3> QED
      BY <3>1
  <2>2. CASE Answered(r)
    <3>1. PICK reply \in {"bill", "refused", "unknown"} :
            req' = [req EXCEPT ![r] = [req[r] EXCEPT !.phase = "answered", !.at = 0, !.reply = reply]]
      BY <2>2 DEF Answered
    <3>2. req[r].phase = "calling"
      BY <2>2 DEF Answered
    <3> QED
      BY <3>1, <3>2
  <2>3. CASE Crash(r)
    BY <2>3 DEF Crash
  <2>4. CASE CompleteFails(r)
    BY <2>4 DEF CompleteFails
  <2> QED
    BY <2>1, <2>2, <2>3, <2>4
<1>3. req[r] \in HandlerRow
      /\ (req[r].phase = "idle" <=> req[r].on = 0) /\ now \in 0 .. MaxTime /\ 0 \in 0 .. MaxTime
      /\ Len(attempts) \in Nat
  BY BillAssumption DEF BillTypeOK
<1>9. row \in HandlerRow
      /\ (row.phase = "idle" <=> row.on = 0) /\ (row.on = 0 \/ row.on = req[r].on)
      /\ \/ row.phase = "idle"
         \/ row.phase = "calling" /\ req[r].phase = "claimed" /\ row.at = now
         \/ row.phase = "answered" /\ req[r].phase = "calling"
         \/ row.phase = "failed" /\ req[r].phase = "answered"
  <2> HIDE DEF BillIInv
  <2>1. CASE row = NoRequest
    <3>1. row = [phase |-> "idle", on |-> 0, at |-> 0, reply |-> "none"]
      BY <2>1 DEF NoRequest
    <3>2. row \in HandlerRow
      BY <1>3, <3>1
    <3> QED
      BY <3>1, <3>2
  <2>2. CASE row = [req[r] EXCEPT !.phase = "calling", !.at = now] /\ req[r].phase = "claimed"
    <3>1. row \in HandlerRow /\ row.phase = "calling" /\ row.at = now /\ row.on = req[r].on
      BY <1>3, <2>2
    <3> QED
      BY <1>3, <2>2, <3>1
  <2>3. ASSUME NEW reply \in {"bill", "refused", "unknown"},
               row = [req[r] EXCEPT !.phase = "answered", !.at = 0, !.reply = reply],
               req[r].phase = "calling"
        PROVE  /\ row \in HandlerRow
               /\ row.phase = "answered" /\ row.on = req[r].on
    BY <1>3, <2>3
  <2>4. CASE row = [req[r] EXCEPT !.phase = "failed", !.reply = "unknown"] /\ req[r].phase = "answered"
    BY <1>3, <2>4
  <2> QED
    BY <1>2, <1>3, <2>1, <2>2, <2>3, <2>4
<1>4. /\ req'[r] = row
      /\ \A q \in Request : q # r => req'[q] = req[q]
  BY <1>2 DEF BillTypeOK
<1>5. BillTypeOK'
  BY <1>1, <1>2, <1>9, <1>4 DEF BillTypeOK
<1>6. OneRequestPerAttempt'
  BY <1>9, <1>4 DEF OneRequestPerAttempt
<1>7. CallIsOnRecord'
  BY <1>1, <1>3, <1>4, <1>9 DEF CallIsOnRecord
<1>8. ReviewOutlastsCall'
  <2>1. now \in Int /\ req[r].at \in Int /\ {Timeout, Grace, Stall} \subseteq Nat /\ Stall < Grace
    BY <1>3, BillAssumption DEF BillTypeOK
  <2>2. row.phase = "calling" => attempts[row.on].review > now + Timeout
    BY <1>3, <1>9, <2>1 DEF ReviewOutlastsCall
  <2> QED
    <3>1. \A q \in Request : q # r => req'[q] = req[q]
      BY <1>4
    <3>2. row.phase # "claimed" /\ (row.phase = "calling" => row.at = now)
      BY <1>9
    <3> QED
      BY <1>1, <1>4, <2>1, <2>2, <3>1, <3>2 DEF ReviewOutlastsCall
<1> QED
  BY <1>1, <1>5, <1>6, <1>7, <1>8 DEF OpenAttemptIsExplained, BillsStand

\* A handler ends and settles its attempt: what a transition needs in order to
\* keep the invariant, whatever it makes of the attempt.
LEMMA SettlingKeepsBill ==
    ASSUME BillIInv, NEW r \in Request, req[r].on # 0, NEW from \in SUBSET Open,
           NEW to \in {"UNCERTAIN", "REJECTED"}, NEW review \in Int,
           review >= 0 <=> to = "UNCERTAIN",
           Transition(req[r].on, from, to, review), req' = [req EXCEPT ![r] = NoRequest],
           UNCHANGED <<now, invoice, movement, settings, bills, linked, sent>>
    PROVE  BillIInv'
<1> USE DEF BillIInv, IsOpen
<1>0. PICK i : i = req[r].on
  OBVIOUS
<1>1. i \in Attempt /\ attempts \in Seq(AttemptRow) /\ Attempt = 1 .. Len(attempts)
  BY <1>0 DEF BillTypeOK, Attempt
<1>2. Moved(i, from, to, review)
  <2> HIDE DEF BillIInv, AttemptRow
  <2>1. Transition(i, from, to, review) /\ to \in Open \cup {"SUCCEEDED", "REJECTED", "CLOSED"}
    BY <1>0
  <2> HIDE DEF Open
  <2> QED
    BY <1>1, <2>1, TransitionRow
<1> USE DEF Moved
<1>3. /\ req' \in [Request -> HandlerRow'] /\ req'[r].on = 0 /\ req'[r].phase = "idle"
      /\ \A q \in Request : q # r => req'[q] = req[q]
  BY <1>2, BillAssumption DEF BillTypeOK, NoRequest
<1>4. \A q \in Request : req'[q].phase # "idle" =>
        /\ req'[q] = req[q] /\ attempts'[req[q].on] = attempts[req[q].on]
  <2> SUFFICES ASSUME NEW q \in Request, req'[q].phase # "idle"
               PROVE  req'[q] = req[q] /\ attempts'[req[q].on] = attempts[req[q].on]
    OBVIOUS
  <2>1. q # r /\ req'[q] = req[q]
    BY <1>3
  <2>2. req[q].on \in Attempt /\ req[q].on # i
    BY <1>0, <1>1, <2>1 DEF OneRequestPerAttempt, BillTypeOK
  <2> HIDE DEF BillIInv
  <2> QED
    BY <1>2, <2>1, <2>2
<1>5. BillTypeOK'
  <2>1. \A j \in Attempt' : attempts'[j].review >= 0 <=> IsOpen(j)'
    <3>1. \A j \in Attempt : attempts[j].review >= 0 <=> IsOpen(j)
      BY DEF BillTypeOK
    <3> HIDE DEF BillIInv
    <3>2. \A j \in Attempt \ {i} : attempts'[j].review >= 0 <=> IsOpen(j)'
      BY <1>2, <3>1
    <3>3. attempts'[i].review >= 0 <=> IsOpen(i)'
      BY <1>1, <1>2, <3>1
    <3> QED
      BY <1>2, <3>2, <3>3
  <2>2. \A q \in Request : req'[q].phase = "idle" <=> req'[q].on = 0
    BY <1>3 DEF BillTypeOK
  <2> QED
    BY <1>2, <1>3, <2>1, <2>2 DEF BillTypeOK
<1>6. OpenAttemptIsExplained'
  <2>1. \A j \in Attempt : IsOpen(j)' => IsOpen(j)
    BY <1>1, <1>2
  <2> QED
    BY <1>1, <1>2, <2>1 DEF OpenAttemptIsExplained
<1>7. OneRequestPerAttempt'
  BY <1>3 DEF OneRequestPerAttempt
<1>8. CallIsOnRecord' /\ ReviewOutlastsCall'
  <2>1. CallIsOnRecord'
    BY <1>4 DEF CallIsOnRecord
  <2>2. ReviewOutlastsCall'
    BY <1>4 DEF ReviewOutlastsCall
  <2> QED
    BY <2>1, <2>2
<1>9. BillsStand'
  <2>1. \A j \in Attempt : attempts'[j].outcome = "SUCCEEDED" <=> attempts[j].outcome = "SUCCEEDED"
    BY <1>1, <1>2
  <2> QED
    BY <1>2, <2>1 DEF BillsStand
<1> QED
  BY <1>5, <1>6, <1>7, <1>8, <1>9

\* The claim: the attempt is dispatched, and its review time outlasts the call.
LEMMA ClaimingKeepsBill ==
    ASSUME BillIInv, NEW r \in Request, req[r].phase = "prepared",
           attempts[req[r].on].outcome = "PREPARED",
           Transition(req[r].on, {"PREPARED"}, "DISPATCHED", ReviewAfter),
           req' = [req EXCEPT ![r] = [@ EXCEPT !.phase = "claimed", !.at = now]],
           UNCHANGED <<now, invoice, movement, settings, bills, linked, sent>>
    PROVE  BillIInv'
<1> USE DEF BillIInv, IsOpen
<1>0. PICK i, review : i = req[r].on /\ review = ReviewAfter
  OBVIOUS
<1>1. /\ i \in Attempt /\ attempts \in Seq(AttemptRow) /\ Attempt = 1 .. Len(attempts)
      /\ attempts[i].outcome = "PREPARED" /\ now \in 0 .. MaxTime
      /\ review = now + Timeout + Grace /\ review \in Nat
  <2>1. /\ i \in Attempt /\ attempts \in Seq(AttemptRow) /\ Attempt = 1 .. Len(attempts)
        /\ attempts[i].outcome = "PREPARED" /\ now \in 0 .. MaxTime
    BY <1>0 DEF BillTypeOK, Attempt
  <2> HIDE DEF BillIInv
  <2>3. now \in Nat /\ Timeout \in Nat /\ Grace \in Nat
    BY <2>1, BillAssumption
  <2>2. review = now + Timeout + Grace /\ review \in Nat
    BY <1>0, <2>3 DEF ReviewAfter
  <2> QED
    BY <2>1, <2>2
<1>2. Moved(i, {"PREPARED"}, "DISPATCHED", review)
  <2>1. Transition(i, {"PREPARED"}, "DISPATCHED", review)
    BY <1>0
  <2>2. review \in Int
    BY <1>1
  <2> HIDE DEF BillIInv, AttemptRow
  <2> QED
    BY <1>1, <2>1, <2>2, TransitionRow
<1> USE DEF Moved
<1>3. /\ req' \in [Request -> HandlerRow']
      /\ req'[r].phase = "claimed" /\ req'[r].at = now /\ req'[r].on = i
      /\ \A q \in Request : q # r => req'[q] = req[q]
  <2>1. req \in [Request -> HandlerRow] /\ Len(attempts') = Len(attempts)
    BY <1>2 DEF BillTypeOK
  <2>2. PICK row : row = [req[r] EXCEPT !.phase = "claimed", !.at = now]
    OBVIOUS
  <2>3. req' = [req EXCEPT ![r] = row]
    BY <2>2
  <2> HIDE DEF BillIInv
  <2>4. HandlerRow' = HandlerRow
    BY <2>1
  <2>5. row \in HandlerRow /\ row.phase = "claimed" /\ row.at = now /\ row.on = i
    <3>1. req[r] \in HandlerRow
      BY <2>1
    <3> QED
      BY <1>0, <1>1, <2>2, <3>1
  <2> HIDE DEF HandlerRow
  <2> QED
    BY <2>1, <2>3, <2>4, <2>5
<1>4. \A q \in Request : q # r /\ req'[q].phase # "idle" =>
        /\ req'[q] = req[q] /\ attempts'[req[q].on] = attempts[req[q].on]
  <2> SUFFICES ASSUME NEW q \in Request, q # r, req'[q].phase # "idle"
               PROVE  req'[q] = req[q] /\ attempts'[req[q].on] = attempts[req[q].on]
    OBVIOUS
  <2>1. req[q].on \in Attempt /\ req[q].on # i
    <3>1. BillTypeOK /\ OneRequestPerAttempt /\ req[q].phase # "idle"
      BY <1>3
    <3> HIDE DEF BillIInv
    <3>2. req[q].on \in Attempt /\ req[q].on # 0
      BY <3>1, WorkIsOnRecord
    <3> QED
      BY <1>0, <3>1, <3>2 DEF OneRequestPerAttempt
  <2> HIDE DEF BillIInv
  <2> QED
    BY <1>2, <1>3, <2>1
<1>5. \A j \in Attempt : IsOpen(j)' <=> IsOpen(j)
  BY <1>1, <1>2
<1>6. BillTypeOK'
  <2>1. \A j \in Attempt' : attempts'[j].review >= 0 <=> IsOpen(j)'
    <3>1. \A j \in Attempt : attempts[j].review >= 0 <=> IsOpen(j)
      BY DEF BillTypeOK
    <3> HIDE DEF BillIInv
    <3>2. \A j \in Attempt \ {i} : attempts'[j].review >= 0 <=> IsOpen(j)'
      BY <1>2, <3>1
    <3>3. attempts'[i].review >= 0 <=> IsOpen(i)'
      <4>1. attempts'[i].outcome = "DISPATCHED" /\ attempts'[i].review = review
        BY <1>1, <1>2
      <4> QED
        BY <1>1, <4>1
    <3> QED
      BY <1>2, <3>2, <3>3
  <2>2. \A q \in Request : req'[q].phase = "idle" <=> req'[q].on = 0
    BY <1>0, <1>3 DEF BillTypeOK
  <2> QED
    BY <1>2, <1>3, <2>1, <2>2 DEF BillTypeOK
<1>7. OpenAttemptIsExplained'
  <2>1. Attempt' = Attempt /\ \A j \in Attempt : attempts'[j].movement = attempts[j].movement
    BY <1>2
  <2>2. OpenAttemptIsExplained
    OBVIOUS
  <2> HIDE DEF BillIInv, Moved, IsOpen
  <2> QED
    BY <2>1, <2>2, <1>5 DEF OpenAttemptIsExplained
<1>8. OneRequestPerAttempt'
  BY <1>0, <1>3 DEF OneRequestPerAttempt
<1>9. CallIsOnRecord'
  <2>1. attempts'[i].outcome = "DISPATCHED"
    BY <1>1, <1>2
  <2> QED
    BY <1>3, <1>4, <2>1 DEF CallIsOnRecord
<1>10. ReviewOutlastsCall'
  <2>1. now <= now + Stall /\ now <= now /\ now' = now
    <3>1. now \in Nat /\ Stall \in Nat
      BY <1>1, BillAssumption
    <3> QED
      BY <3>1
  <2>2. attempts'[i].review = now + Timeout + Grace
    BY <1>1, <1>2
  <2>3. ReviewOutlastsCall
    OBVIOUS
  <2> HIDE DEF BillIInv
  <2>4. \A q \in Request : q # r /\ req'[q].phase \in {"claimed", "calling"} =>
          req'[q] = req[q] /\ attempts'[req'[q].on].review = attempts[req[q].on].review
    BY <1>4
  <2>5. ASSUME NEW q \in Request, q # r
        PROVE  LET after == attempts'[req'[q].on].review
               IN  /\ req'[q].phase = "claimed" =>
                        /\ req'[q].at <= now /\ now <= req'[q].at + Stall
                        /\ after = req'[q].at + Timeout + Grace
                   /\ req'[q].phase = "calling" =>
                        /\ req'[q].at <= now /\ now <= req'[q].at + Timeout
                        /\ after > req'[q].at + Timeout
    BY <2>3, <2>4, <2>5 DEF ReviewOutlastsCall
  <2> QED
    BY <1>3, <2>1, <2>2, <2>5 DEF ReviewOutlastsCall
<1>11. BillsStand'
  BY <1>1, <1>2 DEF BillsStand
<1> QED
  BY <1>6, <1>7, <1>8, <1>9, <1>10, <1>11

\* The bill and the end of its attempt are recorded together.
LEMMA RecordingKeepsBill ==
    ASSUME BillIInv, NEW r \in Request, req[r].phase = "answered",
           attempts[req[r].on].outcome = "DISPATCHED", bills = {},
           Transition(req[r].on, {"DISPATCHED"}, "SUCCEEDED", -1),
           bills' = bills \cup {req[r].on}, req' = [req EXCEPT ![r] = NoRequest],
           UNCHANGED <<now, invoice, movement, settings, linked, sent>>
    PROVE  BillIInv'
<1> USE DEF BillIInv, IsOpen
<1>0. PICK i : i = req[r].on
  OBVIOUS
<1>1. /\ i \in Attempt /\ attempts \in Seq(AttemptRow) /\ Attempt = 1 .. Len(attempts)
      /\ attempts[i].outcome = "DISPATCHED" /\ bills' = {i}
  BY <1>0 DEF BillTypeOK, Attempt
<1>2. Moved(i, {"DISPATCHED"}, "SUCCEEDED", -1)
  <2>1. Transition(i, {"DISPATCHED"}, "SUCCEEDED", -1) /\ -1 \in Int
    BY <1>0
  <2> HIDE DEF BillIInv, AttemptRow
  <2> QED
    BY <1>1, <2>1, TransitionRow
<1> USE DEF Moved
<1>3. /\ req' \in [Request -> HandlerRow'] /\ req'[r].on = 0 /\ req'[r].phase = "idle"
      /\ \A q \in Request : q # r => req'[q] = req[q]
  BY <1>2, BillAssumption DEF BillTypeOK, NoRequest
<1>4. \A q \in Request : req'[q].phase # "idle" =>
        /\ req'[q] = req[q] /\ attempts'[req[q].on] = attempts[req[q].on]
  <2> SUFFICES ASSUME NEW q \in Request, req'[q].phase # "idle"
               PROVE  req'[q] = req[q] /\ attempts'[req[q].on] = attempts[req[q].on]
    OBVIOUS
  <2>1. q # r /\ req'[q] = req[q]
    BY <1>3
  <2>2. req[q].on \in Attempt /\ req[q].on # i
    BY <1>0, <1>1, <2>1 DEF OneRequestPerAttempt, BillTypeOK
  <2> HIDE DEF BillIInv
  <2> QED
    BY <1>2, <2>1, <2>2
<1>5. BillTypeOK'
  <2>1. \A j \in Attempt' : attempts'[j].review >= 0 <=> IsOpen(j)'
    <3>1. \A j \in Attempt : attempts[j].review >= 0 <=> IsOpen(j)
      BY DEF BillTypeOK
    <3> HIDE DEF BillIInv
    <3>2. \A j \in Attempt \ {i} : attempts'[j].review >= 0 <=> IsOpen(j)'
      BY <1>2, <3>1
    <3>3. attempts'[i].review >= 0 <=> IsOpen(i)'
      <4>1. attempts'[i].outcome = "SUCCEEDED" /\ attempts'[i].review = -1
        BY <1>1, <1>2
      <4> QED
        BY <4>1
    <3> QED
      BY <1>2, <3>2, <3>3
  <2>2. \A q \in Request : req'[q].phase = "idle" <=> req'[q].on = 0
    BY <1>3 DEF BillTypeOK
  <2> QED
    BY <1>1, <1>2, <1>3, <2>1, <2>2 DEF BillTypeOK
<1>6. OpenAttemptIsExplained'
  <2>1. \A j \in Attempt : IsOpen(j)' => IsOpen(j)
    BY <1>1, <1>2
  <2> QED
    BY <1>1, <1>2, <2>1 DEF OpenAttemptIsExplained
<1>7. OneRequestPerAttempt'
  BY <1>3 DEF OneRequestPerAttempt
<1>8. CallIsOnRecord'
  BY <1>4 DEF CallIsOnRecord
<1>9. ReviewOutlastsCall'
  BY <1>4 DEF ReviewOutlastsCall
<1>10. BillsStand'
  <2>1. \A j \in Attempt \ {i} : attempts'[j].outcome # "SUCCEEDED"
    BY <1>2 DEF BillsStand
  <2> QED
    BY <1>1, <1>2, <2>1 DEF BillsStand
<1> QED
  BY <1>5, <1>6, <1>7, <1>8, <1>9, <1>10

\* An attempt is closed by hand only once no call of it is under way.
LEMMA ClosingKeepsBill == \A i \in Attempt : BillIInv /\ CloseDemoAttempt(i) => BillIInv'
<1> SUFFICES ASSUME NEW i \in Attempt, BillIInv, CloseDemoAttempt(i) PROVE BillIInv'
  OBVIOUS
<1> USE DEF BillIInv, IsOpen
<1>1. /\ attempts \in Seq(AttemptRow) /\ Attempt = 1 .. Len(attempts) /\ IsOpen(i)
      /\ attempts[i].outcome = "UNCERTAIN" \/ attempts[i].review <= now
      /\ UNCHANGED <<now, invoice, movement, settings, bills, linked, req, sent>>
  BY DEF BillTypeOK, Attempt, CloseDemoAttempt, Closable
<1>2. Moved(i, Open, "CLOSED", -1)
  <2>1. Transition(i, Open, "CLOSED", -1) /\ -1 \in Int
    BY DEF CloseDemoAttempt
  <2> HIDE DEF BillIInv, AttemptRow
  <2> QED
    BY <1>1, <2>1, TransitionRow
<1>3. /\ attempts'[i].outcome = "CLOSED" /\ attempts'[i].review = -1 /\ Len(attempts') = Len(attempts)
      /\ attempts' \in Seq(AttemptRow) /\ Attempt' = Attempt
      /\ \A j \in Attempt \ {i} : attempts'[j] = attempts[j]
      /\ \A j \in Attempt : attempts'[j].movement = attempts[j].movement
  BY <1>1, <1>2 DEF Moved
<1>4. \A q \in Request : req[q].phase \in {"claimed", "calling"} => req[q].on # i
  <2> SUFFICES ASSUME NEW q \in Request, req[q].phase \in {"claimed", "calling"}, req[q].on = i
               PROVE  FALSE
    OBVIOUS
  <2>1. attempts[i].outcome = "DISPATCHED"
    BY DEF CallIsOnRecord
  <2>2. attempts[i].review <= now
    BY <1>1, <2>1
  <2>3. now \in Nat /\ req[q].at \in Nat /\ {Timeout, Grace, Stall} \subseteq Nat /\ Stall < Grace
        /\ attempts[i].review \in Int
    <3>1. now \in 0 .. MaxTime /\ req[q].at \in 0 .. MaxTime /\ attempts[i] \in AttemptRow
      <4>1. now \in 0 .. MaxTime /\ req[q].at \in 0 .. MaxTime
        BY DEF BillTypeOK
      <4>2. attempts \in Seq(AttemptRow) /\ i \in 1 .. Len(attempts)
        BY <1>1
      <4> HIDE DEF BillIInv, AttemptRow
      <4>3. attempts[i] \in AttemptRow
        BY <4>2
      <4> QED
        BY <4>1, <4>3
    <3> HIDE DEF BillIInv
    <3> QED
      BY <3>1, BillAssumption
  <2>4. \/ now <= req[q].at + Stall /\ attempts[i].review = req[q].at + Timeout + Grace
        \/ now <= req[q].at + Timeout /\ attempts[i].review > req[q].at + Timeout
    BY DEF ReviewOutlastsCall
  <2> HIDE DEF BillIInv
  <2> QED
    BY <2>2, <2>3, <2>4
<1>5. BillTypeOK'
  <2>1. \A j \in Attempt' : attempts'[j].review >= 0 <=> IsOpen(j)'
    <3>1. \A j \in Attempt : attempts[j].review >= 0 <=> IsOpen(j)
      BY DEF BillTypeOK
    <3> HIDE DEF BillIInv
    <3>2. attempts'[i].review >= 0 <=> IsOpen(i)'
      BY <1>3
    <3>3. \A j \in Attempt \ {i} : attempts'[j].review >= 0 <=> IsOpen(j)'
      BY <1>3, <3>1
    <3> QED
      BY <1>3, <3>2, <3>3
  <2> QED
    BY <1>1, <1>3, <2>1 DEF BillTypeOK
<1>6. OpenAttemptIsExplained'
  <2>1. OpenAttemptIsExplained /\ \A j \in Attempt : IsOpen(j)' => IsOpen(j)
    BY <1>1, <1>3
  <2> HIDE DEF BillIInv, IsOpen
  <2> QED
    BY <1>1, <1>3, <2>1 DEF OpenAttemptIsExplained
<1>7. OneRequestPerAttempt'
  BY <1>1 DEF OneRequestPerAttempt
<1>8. CallIsOnRecord'
  <2> SUFFICES ASSUME NEW q \in Request, req[q].phase \in {"claimed", "calling", "answered", "failed"}
               PROVE  IF req[q].phase \in {"claimed", "calling"}
                      THEN attempts'[req[q].on].outcome = "DISPATCHED"
                      ELSE attempts'[req[q].on].outcome \in {"DISPATCHED", "CLOSED"}
    BY <1>1 DEF CallIsOnRecord
  <2>1. req[q].on \in Attempt
    BY WorkIsOnRecord
  <2> QED
    BY <1>3, <1>4, <2>1 DEF CallIsOnRecord
<1>9. ReviewOutlastsCall'
  <2>1. \A q \in Request : req[q].phase \in {"claimed", "calling"} =>
          attempts'[req[q].on] = attempts[req[q].on]
    <3>1. \A q \in Request : req[q].phase \in {"claimed", "calling"} => req[q].on \in Attempt
      BY WorkIsOnRecord
    <3> HIDE DEF BillIInv
    <3> QED
      BY <1>3, <1>4, <3>1
  <2> QED
    BY <1>1, <2>1 DEF ReviewOutlastsCall
<1>10. BillsStand'
  <2>1. \A j \in Attempt : attempts'[j].outcome = "SUCCEEDED" <=> attempts[j].outcome = "SUCCEEDED"
    BY <1>1, <1>3
  <2> QED
    BY <1>1, <1>3, <2>1 DEF BillsStand
<1> QED
  BY <1>5, <1>6, <1>7, <1>8, <1>9, <1>10

-----------------------------------------------------------------------------
(* The theorems *)

LEMMA RejectingKeepsBill ==
    ASSUME BillIInv, NEW r \in Request, req[r].on # 0, NEW from \in SUBSET Open,
           Transition(req[r].on, from, "REJECTED", -1), req' = [req EXCEPT ![r] = NoRequest],
           UNCHANGED <<now, invoice, movement, settings, bills, linked, sent>>
    PROVE  BillIInv'
<1>1. -1 \in Int /\ ~(-1 >= 0)
  OBVIOUS
<1>2. -1 >= 0 <=> "REJECTED" = "UNCERTAIN"
  BY <1>1
<1> QED
  BY <1>1, <1>2, SettlingKeepsBill

LEMMA NextBill == BillIInv /\ [BillNext]_billVars => BillIInv'
<1> SUFFICES ASSUME BillIInv, [BillNext]_billVars PROVE BillIInv'
  OBVIOUS
<1>1. CASE Tick \/ CancelItsInvoice \/ ChangeSettings \/ SaveMovement \/ LinkExisting \/ UNCHANGED billVars
  BY <1>1, SurroundingsKeepBill
<1>2. ASSUME NEW r \in Request, Prepare(r) PROVE BillIInv'
  BY <1>2, PrepareKeepsBill
<1>3. ASSUME NEW r \in Request, Claim(r) PROVE BillIInv'
  <2>1. req[r].phase = "prepared" /\ req[r].on # 0
    BY <1>3 DEF Claim, BillIInv, BillTypeOK
  <2>2. CASE Permitted(req[r].on) /\ Unchanged(req[r].on) /\ attempts[req[r].on].outcome = "PREPARED"
    BY <1>3, <2>1, <2>2, ClaimingKeepsBill DEF Claim
  <2>3. CASE ~(Permitted(req[r].on) /\ Unchanged(req[r].on))
    <3>1. Transition(req[r].on, {"PREPARED"}, "REJECTED", -1) /\ req' = [req EXCEPT ![r] = NoRequest]
          /\ UNCHANGED <<now, invoice, movement, settings, bills, linked, sent>>
      BY <1>3, <2>3 DEF Claim
    <3> QED
      BY <2>1, <3>1, RejectingKeepsBill
  <2>4. CASE attempts[req[r].on].outcome # "PREPARED"
    <3>1. Transition(req[r].on, {"PREPARED"}, "REJECTED", -1) /\ req' = [req EXCEPT ![r] = NoRequest]
          /\ UNCHANGED <<now, invoice, movement, settings, bills, linked, sent>>
      BY <1>3, <2>4 DEF Claim, Transition
    <3> QED
      BY <2>1, <3>1, RejectingKeepsBill
  <2> QED
    BY <2>2, <2>3, <2>4
<1>4. ASSUME NEW r \in Request, Call(r) \/ Answered(r) \/ CompleteFails(r) \/ Crash(r) PROVE BillIInv'
  BY <1>4, RequestStepKeepsBill
<1>5. ASSUME NEW r \in Request, Complete(r) PROVE BillIInv'
  <2>1. CASE CompleteFails(r)
    BY <1>4, <2>1
  <2>2. CASE ~CompleteFails(r)
    BY <1>5, <2>2, RecordingKeepsBill DEF Complete, CompleteFails
  <2> QED
    BY <2>1, <2>2
<1>6. ASSUME NEW r \in Request, RecordFailure(r) PROVE BillIInv'
  <2>1. req[r].on # 0 /\ attempts[req[r].on].review \in Int
        /\ UNCHANGED <<now, invoice, movement, settings, bills, linked, sent>>
        /\ req' = [req EXCEPT ![r] = NoRequest]
    <3>1. req[r].phase # "idle" /\ UNCHANGED <<now, invoice, movement, settings, bills, linked, sent>>
          /\ req' = [req EXCEPT ![r] = NoRequest]
      BY <1>6 DEF RecordFailure
    <3>2. req[r].on \in 1 .. Len(attempts) /\ attempts \in Seq(AttemptRow) /\ req[r].on # 0
      BY <3>1 DEF BillIInv, BillTypeOK, Attempt
    <3> HIDE DEF AttemptRow
    <3>3. attempts[req[r].on] \in AttemptRow
      BY <3>2
    <3> QED
      BY <3>1, <3>2, <3>3 DEF AttemptRow
  <2>2. CASE req[r].reply = "refused" \/ attempts[req[r].on].outcome # "DISPATCHED"
    <3>1. Transition(req[r].on, {"DISPATCHED"}, "REJECTED", -1)
      BY <1>6, <2>2 DEF RecordFailure, Transition
    <3> QED
      BY <2>1, <3>1, RejectingKeepsBill
  <2>3. CASE req[r].reply # "refused" /\ attempts[req[r].on].outcome = "DISPATCHED"
    <3>1. Transition(req[r].on, {"DISPATCHED"}, "UNCERTAIN", attempts[req[r].on].review)
      BY <1>6, <2>3 DEF RecordFailure
    <3>2. attempts[req[r].on].review >= 0
      <4>1. req[r].phase # "idle" /\ BillTypeOK
        BY <1>6 DEF RecordFailure, BillIInv
      <4>2. req[r].on \in Attempt /\ IsOpen(req[r].on)
        BY <2>3, <4>1, WorkIsOnRecord DEF IsOpen, Open
      <4> QED
        BY <4>1, <4>2 DEF BillTypeOK
    <3> QED
      BY <2>1, <3>1, <3>2, SettlingKeepsBill
  <2> QED
    BY <2>2, <2>3
<1>7. ASSUME NEW i \in Attempt, CloseDemoAttempt(i) PROVE BillIInv'
  BY <1>7, ClosingKeepsBill
<1> QED
  BY <1>1, <1>2, <1>3, <1>4, <1>5, <1>6, <1>7 DEF BillNext

\* The inductive invariant: types, one open attempt on the invoice's movement, one
\* request per attempt, what was sent on record until its review time, which is
\* after the end of every call, and one bill, of the attempt that succeeded.
THEOREM BillInvariance == BillSpec => []BillIInv
  BY InitBill, NextBill, PTL DEF BillSpec

\* Types, for any number of requests and attempts (EwayBillRequestAttempt rows).
THEOREM BillTypeCorrect == BillSpec => []BillTypeOK
  BY BillInvariance, PTL DEF BillIInv

\* At most one attempt is open, on the movement the invoice still has (saveMovement
\* and evaluateGeneration refuse while one is).
THEOREM OpenAttemptStaysExplained == BillSpec => []OpenAttemptIsExplained
  BY BillInvariance, PTL DEF BillIInv

\* One demo bill at most, of the attempt that succeeded (generate's completion).
THEOREM OneBillOfItsAttempt == BillSpec => []BillIsOfItsAttempt
<1>1. BillIInv => BillIsOfItsAttempt
  <2> SUFFICES ASSUME BillIInv PROVE Cardinality(bills) <= 1
    BY DEF BillIInv, BillsStand, BillIsOfItsAttempt
  <2>1. CASE bills = {}
    BY <2>1, FS_EmptySet
  <2>2. CASE bills # {}
    <3>1. PICK i \in bills : TRUE
      BY <2>2
    <3>2. bills = {i}
      BY <3>1 DEF BillIInv, BillsStand
    <3>3. Cardinality({i}) = 1
      BY ONLY FS_Singleton
    <3> QED
      BY <3>2, <3>3
  <2> QED
    BY <2>1, <2>2
<1> QED
  BY <1>1, BillInvariance, PTL

-----------------------------------------------------------------------------
(* What the provider holds *)

Kept == {"DISPATCHED", "UNCERTAIN", "SUCCEEDED", "CLOSED"}

Refused(r) == req[r].phase \in {"answered", "failed"} /\ req[r].reply = "refused"

\* Attempts are prepared one after the other and none once a bill is recorded, and
\* what is refused for sure is not at the provider.
SentInv ==
    /\ \A i, j \in Attempt : i < j => ~IsOpen(i)
    /\ \A i \in Attempt : IsOpen(i) => bills = {}
    /\ \A r \in Request : Refused(r) => req[r].on \notin sent
    /\ \A i \in sent : attempts[i].outcome \in Kept
    /\ \A i, j \in sent : i < j => attempts[i].outcome = "CLOSED"

\* The outcomes of the attempts a step may leave, for an attempt that was not open and
\* for one that may be at the provider.
LEMMA OthersKeepSent ==
    ASSUME BillIInv, SentInv, Attempt' = Attempt, bills' = bills, sent' = sent,
           \A i \in Attempt : attempts'[i].outcome # attempts[i].outcome =>
             IsOpen(i) /\ attempts'[i].outcome \in Open \cup {"REJECTED", "CLOSED"},
           \A i \in sent : attempts'[i].outcome # attempts[i].outcome =>
             IsOpen(i) /\ attempts'[i].outcome \in Kept,
           \A r \in Request : Refused(r)' => req'[r].on \notin sent
    PROVE  SentInv'
<1>1. sent \subseteq Attempt
  BY DEF BillIInv, BillTypeOK
<1>2. \A i \in Attempt : IsOpen(i)' => IsOpen(i)
  BY DEF IsOpen
<1>3. \A i \in sent : attempts'[i].outcome \in Kept
  BY DEF SentInv
<1>4. \A i, j \in sent : i < j => attempts'[i].outcome = "CLOSED"
  <2> SUFFICES ASSUME NEW i \in sent, NEW j \in sent, i < j PROVE attempts'[i].outcome = "CLOSED"
    OBVIOUS
  <2>1. attempts[i].outcome = "CLOSED"
    BY DEF SentInv
  <2> QED
    BY <2>1 DEF IsOpen
<1> QED
  BY <1>1, <1>2, <1>3, <1>4 DEF SentInv

\* Before a bill is asked for, nothing else at the provider is unaccounted for.
LEMMA CallKeepsSent ==
    ASSUME BillIInv, SentInv, NEW r \in Request, Call(r)
    PROVE  SentInv'
<1>1. PICK k : k = req[r].on
  OBVIOUS
<1>2. /\ UNCHANGED <<attempts, bills>> /\ sent' = sent \cup {k} /\ req[r].phase = "claimed"
      /\ Attempt' = Attempt
  BY <1>1 DEF Call, Attempt
<1>3. k \in Attempt /\ attempts[k].outcome = "DISPATCHED"
  BY <1>1, <1>2, WorkIsOnRecord DEF BillIInv, CallIsOnRecord
<1>4. Attempt \subseteq Int /\ sent \subseteq Attempt
  BY DEF Attempt, BillIInv, BillTypeOK
<1>5. ASSUME NEW q \in Request, Refused(q)' PROVE req'[q].on \notin sent'
  <2>1. q # r /\ req'[q] = req[q]
    <3>1. req'[r].phase = "calling" /\ \A p \in Request \ {r} : req'[p] = req[p]
      BY DEF Call, BillIInv, BillTypeOK
    <3> QED
      BY <1>5, <3>1 DEF Refused
  <2>2. req[q].on # k
    <3>1. req[r].on # 0
      BY <1>2, WorkIsOnRecord DEF BillIInv
    <3> QED
      BY <1>1, <2>1, <3>1 DEF BillIInv, OneRequestPerAttempt
  <2> QED
    BY <1>2, <1>5, <2>1, <2>2 DEF SentInv, Refused
<1>6. \A i \in sent : i < k => attempts[i].outcome = "CLOSED"
  <2> SUFFICES ASSUME NEW i \in sent, i < k PROVE attempts[i].outcome = "CLOSED"
    OBVIOUS
  <2>1. attempts[i].outcome \in Kept /\ ~IsOpen(i) /\ bills = {}
    BY <1>3, <1>4 DEF SentInv, IsOpen
  <2>2. attempts[i].outcome # "SUCCEEDED"
    BY <1>4, <2>1 DEF BillIInv, BillsStand
  <2> QED
    BY <2>1, <2>2 DEF IsOpen, Kept
<1>7. \A i \in sent : ~(k < i)
  BY <1>3, <1>4 DEF SentInv, IsOpen
<1>8. \A i \in Attempt : IsOpen(i)' <=> IsOpen(i)
  BY <1>2 DEF IsOpen
<1>9. \A i, j \in sent' : i < j => attempts'[i].outcome = "CLOSED"
  <2> SUFFICES ASSUME NEW i \in sent', NEW j \in sent', i < j PROVE attempts[i].outcome = "CLOSED"
    BY <1>2
  <2>1. CASE i = k /\ j = k
    BY <1>3, <1>4, <2>1
  <2>2. CASE i \in sent /\ j \in sent
    BY <2>2 DEF SentInv
  <2> QED
    BY <1>2, <1>6, <1>7, <2>1, <2>2
<1>10. \A i \in sent' : attempts'[i].outcome \in Kept
  BY <1>2, <1>3 DEF SentInv, Kept
<1> QED
  BY <1>2, <1>5, <1>8, <1>9, <1>10 DEF SentInv

\* A transition of an open attempt, unless it takes one that was sent for unsent.
LEMMA TransitionKeepsSent ==
    ASSUME BillIInv, SentInv, NEW i \in Attempt, NEW from \in SUBSET Open,
           NEW to \in {"DISPATCHED", "UNCERTAIN", "REJECTED", "CLOSED"}, NEW review \in Int,
           Transition(i, from, to, review), bills' = bills, sent' = sent,
           i \in sent => attempts[i].outcome \notin from \/ to \in Kept,
           \A r \in Request : Refused(r)' => req'[r].on \notin sent
    PROVE  SentInv'
<1>1. attempts \in Seq(AttemptRow) /\ to \in Open \cup {"SUCCEEDED", "REJECTED", "CLOSED"}
  BY DEF BillIInv, BillTypeOK
<1>2. Moved(i, from, to, review)
  <2> HIDE DEF AttemptRow, Open
  <2> QED
    BY <1>1, TransitionRow
<1>3. /\ Attempt' = Attempt
      /\ \A j \in Attempt : j # i => attempts'[j].outcome = attempts[j].outcome
      /\ attempts'[i].outcome # attempts[i].outcome =>
           attempts[i].outcome \in from /\ attempts'[i].outcome = to
  BY <1>2 DEF Moved
<1>4. sent \subseteq Attempt
  BY DEF BillIInv, BillTypeOK
<1>5. \A j \in Attempt : attempts'[j].outcome # attempts[j].outcome =>
        IsOpen(j) /\ attempts'[j].outcome \in Open \cup {"REJECTED", "CLOSED"}
  BY <1>3 DEF IsOpen
<1>6. \A j \in sent : attempts'[j].outcome # attempts[j].outcome =>
        IsOpen(j) /\ attempts'[j].outcome \in Kept
  BY <1>3, <1>4 DEF IsOpen
<1> QED
  BY <1>3, <1>5, <1>6, OthersKeepSent

LEMMA PrepareKeepsSent ==
    ASSUME BillIInv, SentInv, NEW r \in Request, Prepare(r)
    PROVE  SentInv'
<1>1. PICK n \in Nat : n = Len(attempts) + 1
  BY DEF BillIInv, BillTypeOK
<1>2. /\ sent' = sent /\ bills' = {} /\ sent \subseteq Attempt /\ Attempt = 1 .. (n - 1)
      /\ \A i \in Attempt : ~IsOpen(i)
  BY <1>1 DEF Prepare, Permitted, BillIInv, BillTypeOK, Attempt, IsOpen
<1>3. Attempt' = 1 .. n /\ \A i \in Attempt : attempts'[i] = attempts[i]
  <2>1. PICK row : attempts' = Append(attempts, row)
    BY DEF Prepare
  <2>2. attempts \in Seq(AttemptRow)
    BY DEF BillIInv, BillTypeOK
  <2> HIDE DEF AttemptRow
  <2> QED
    BY <1>1, <1>2, <2>1, <2>2 DEF Attempt
<1>4. \A i, j \in Attempt' : i < j => ~IsOpen(i)'
  <2> SUFFICES ASSUME NEW i \in 1 .. n, NEW j \in 1 .. n, i < j PROVE ~IsOpen(i)'
    BY <1>3
  <2>1. i \in Attempt
    BY <1>2
  <2> QED
    BY <1>2, <1>3, <2>1 DEF IsOpen
<1>5. \A q \in Request : Refused(q)' => Refused(q) /\ req'[q].on = req[q].on
  <2>1. req'[r].phase = "prepared" /\ \A q \in Request \ {r} : req'[q] = req[q]
    BY DEF Prepare, BillIInv, BillTypeOK
  <2> QED
    BY <2>1 DEF Refused
<1>6. \A i \in sent : attempts'[i] = attempts[i]
  BY <1>2, <1>3
<1> QED
  BY <1>2, <1>4, <1>5, <1>6 DEF SentInv

\* The steps of a request that changes neither the attempts nor what is at the
\* provider, unless it is refused.
LEMMA AnswerKeepsSent ==
    ASSUME BillIInv, SentInv, NEW r \in Request, Answered(r)
    PROVE  SentInv'
<1>1. PICK reply \in {"bill", "refused", "unknown"} :
        /\ req' = [req EXCEPT ![r] = [req[r] EXCEPT !.phase = "answered", !.at = 0, !.reply = reply]]
        /\ sent' = IF reply = "refused" THEN sent \ {req[r].on} ELSE sent
  BY DEF Answered
<1>2. UNCHANGED <<attempts, bills>> /\ Attempt' = Attempt /\ sent' \subseteq sent
  BY <1>1 DEF Answered, Attempt
<1>3. \A q \in Request : Refused(q)' => req'[q].on \notin sent'
  <2> SUFFICES ASSUME NEW q \in Request, Refused(q)' PROVE req'[q].on \notin sent'
    OBVIOUS
  <2>1. CASE q # r
    <3>1. req'[q] = req[q]
      BY <1>1, <2>1 DEF BillIInv, BillTypeOK
    <3> QED
      BY <1>2, <3>1 DEF SentInv, Refused
  <2>2. CASE q = r
    <3>1. req'[r].reply = reply /\ req'[r].on = req[r].on
      BY <1>1 DEF BillIInv, BillTypeOK
    <3> QED
      BY <1>1, <2>2, <3>1 DEF Refused
  <2> QED
    BY <2>1, <2>2
<1>4. \A i \in Attempt : IsOpen(i)' <=> IsOpen(i)
  BY <1>2 DEF IsOpen
<1> QED
  BY <1>2, <1>3, <1>4 DEF SentInv

LEMMA RecordingKeepsSent ==
    ASSUME BillIInv, SentInv, NEW r \in Request, req[r].phase = "answered",
           attempts[req[r].on].outcome = "DISPATCHED",
           Transition(req[r].on, {"DISPATCHED"}, "SUCCEEDED", -1),
           sent' = sent, req' = [req EXCEPT ![r] = NoRequest]
    PROVE  SentInv'
<1>1. PICK k : k = req[r].on
  OBVIOUS
<1>2. k \in Attempt /\ attempts[k].outcome = "DISPATCHED" /\ IsOpen(k) /\ sent \subseteq Attempt
  BY <1>1, WorkIsOnRecord DEF BillIInv, BillTypeOK, IsOpen
<1>3. Moved(k, {"DISPATCHED"}, "SUCCEEDED", -1)
  <2>1. Transition(k, {"DISPATCHED"}, "SUCCEEDED", -1) /\ -1 \in Int /\ attempts \in Seq(AttemptRow)
    BY <1>1 DEF BillIInv, BillTypeOK
  <2> HIDE DEF AttemptRow
  <2> QED
    BY <1>2, <2>1, TransitionRow
<1>4. /\ Attempt' = Attempt /\ attempts'[k].outcome = "SUCCEEDED"
      /\ \A j \in Attempt \ {k} : attempts'[j] = attempts[j]
  BY <1>2, <1>3 DEF Moved
<1>5. \A j \in Attempt : ~IsOpen(j)'
  BY <1>2, <1>4 DEF BillIInv, OpenAttemptIsExplained, IsOpen
<1>6. \A i, j \in sent : i < j => attempts'[i].outcome = "CLOSED"
  BY <1>2, <1>4 DEF SentInv
<1>7. \A i \in sent : attempts'[i].outcome \in Kept
  BY <1>2, <1>4 DEF SentInv, Kept
<1>8. \A q \in Request : Refused(q)' => Refused(q) /\ req'[q].on = req[q].on
  <2>1. req'[r] = NoRequest /\ \A q \in Request \ {r} : req'[q] = req[q]
    BY DEF BillIInv, BillTypeOK
  <2> QED
    BY <2>1 DEF Refused, NoRequest
<1> QED
  BY <1>4, <1>5, <1>6, <1>7, <1>8 DEF SentInv

\* Steps that leave the attempts, the bills and the provider alone, and one request
\* at most given up.
LEMMA IdlingKeepsSent ==
    ASSUME BillIInv, SentInv, UNCHANGED <<attempts, bills, sent>>,
           \A q \in Request : Refused(q)' => Refused(q) /\ req'[q].on = req[q].on
    PROVE  SentInv'
<1>1. Attempt' = Attempt
  BY DEF Attempt
<1>2. \A q \in Request : Refused(q)' => req'[q].on \notin sent
  BY DEF SentInv
<1> QED
  BY <1>1, <1>2, OthersKeepSent

LEMMA NextSent == BillIInv /\ SentInv /\ [BillNext]_billVars => SentInv'
<1> SUFFICES ASSUME BillIInv, SentInv, [BillNext]_billVars PROVE SentInv'
  OBVIOUS
<1> DEFINE NoneRefused == \A q \in Request : Refused(q)' => Refused(q) /\ req'[q].on = req[q].on
<1>1. ASSUME NEW r \in Request, req' = [req EXCEPT ![r] = NoRequest] PROVE NoneRefused
  <2>1. req'[r] = NoRequest /\ \A q \in Request \ {r} : req'[q] = req[q]
    BY <1>1 DEF BillIInv, BillTypeOK
  <2> QED
    BY <2>1 DEF Refused, NoRequest
<1>2. CASE Tick \/ CancelItsInvoice \/ ChangeSettings \/ SaveMovement \/ LinkExisting \/ UNCHANGED billVars
  <2>1. UNCHANGED <<attempts, bills, sent, req>>
    BY <1>2 DEF Tick, CancelItsInvoice, ChangeSettings, SaveMovement, LinkExisting, billVars
  <2>2. NoneRefused
    BY <2>1 DEF Refused
  <2> QED
    BY <2>1, <2>2, IdlingKeepsSent
<1>3. ASSUME NEW r \in Request, Crash(r) \/ CompleteFails(r) PROVE SentInv'
  <2>1. UNCHANGED <<attempts, bills, sent>>
    BY <1>3 DEF Crash, CompleteFails
  <2>2. CASE Crash(r)
    BY <1>1, <2>1, <2>2, IdlingKeepsSent DEF Crash
  <2>3. CASE CompleteFails(r)
    <3>1. req'[r].reply = "unknown" /\ \A q \in Request \ {r} : req'[q] = req[q]
      BY <2>3 DEF CompleteFails, BillIInv, BillTypeOK
    <3>2. NoneRefused
      BY <3>1 DEF Refused
    <3> QED
      BY <2>1, <3>2, IdlingKeepsSent
  <2> QED
    BY <1>3, <2>2, <2>3
<1>4. ASSUME NEW r \in Request, Claim(r) PROVE SentInv'
  <2>1. PICK k : k = req[r].on
    OBVIOUS
  <2>2. /\ k \in Attempt /\ bills' = bills /\ sent' = sent
        /\ ReviewAfter \in Int /\ -1 \in Int
    <3>1. now \in 0 .. MaxTime
      BY DEF BillIInv, BillTypeOK
    <3>2. now + Timeout + Grace \in Int
      BY <3>1, BillAssumption
    <3> QED
      BY <1>4, <2>1, <3>2, WorkIsOnRecord DEF Claim, BillIInv, ReviewAfter
  <2>3. k \in sent => attempts[k].outcome \notin {"PREPARED"}
    BY DEF SentInv, Kept
  <2>4. \A q \in Request : Refused(q)' => req'[q].on \notin sent
    <3>1. CASE req' = [req EXCEPT ![r] = NoRequest]
      BY <1>1, <3>1 DEF SentInv
    <3>2. CASE req' = [req EXCEPT ![r] = [req[r] EXCEPT !.phase = "claimed", !.at = now]]
      <4>1. req'[r].phase = "claimed" /\ \A q \in Request \ {r} : req'[q] = req[q]
        BY <3>2 DEF BillIInv, BillTypeOK
      <4> QED
        BY <4>1 DEF Refused, SentInv
    <3> QED
      BY <1>4, <3>1, <3>2 DEF Claim
  <2>5. \/ Transition(k, {"PREPARED"}, "DISPATCHED", ReviewAfter)
        \/ Transition(k, {"PREPARED"}, "REJECTED", -1)
    BY <1>4, <2>1 DEF Claim
  <2> QED
    BY <2>2, <2>3, <2>4, <2>5, TransitionKeepsSent
<1>5. ASSUME NEW r \in Request, Complete(r) PROVE SentInv'
  <2>1. CASE CompleteFails(r)
    BY <1>3, <2>1
  <2>2. CASE ~CompleteFails(r)
    BY <1>5, <2>2, RecordingKeepsSent DEF Complete, CompleteFails
  <2> QED
    BY <2>1, <2>2
<1>6. ASSUME NEW r \in Request, RecordFailure(r) PROVE SentInv'
  <2>1. PICK k, review : k = req[r].on /\ review = attempts[k].review
    OBVIOUS
  <2>2. k \in Attempt /\ bills' = bills /\ sent' = sent /\ review \in Int /\ -1 \in Int
    <3>1. k \in Attempt /\ attempts \in Seq(AttemptRow) /\ Attempt = 1 .. Len(attempts)
      BY <1>6, <2>1, WorkIsOnRecord DEF RecordFailure, BillIInv, BillTypeOK, Attempt
    <3>2. attempts[k] \in AttemptRow
      <4> HIDE DEF AttemptRow
      <4> QED
        BY <3>1
    <3> QED
      BY <1>6, <2>1, <3>1, <3>2 DEF RecordFailure
  <2>3. \A q \in Request : Refused(q)' => req'[q].on \notin sent
    BY <1>1, <1>6 DEF RecordFailure, SentInv
  <2>4. CASE req[r].reply = "refused"
    <3>1. k \notin sent
      BY <1>6, <2>1, <2>4 DEF RecordFailure, SentInv, Refused
    <3>2. Transition(k, {"DISPATCHED"}, "REJECTED", -1)
      BY <1>6, <2>1, <2>4 DEF RecordFailure
    <3> QED
      BY <2>2, <2>3, <3>1, <3>2, TransitionKeepsSent
  <2>5. CASE req[r].reply # "refused"
    <3>1. Transition(k, {"DISPATCHED"}, "UNCERTAIN", review) /\ "UNCERTAIN" \in Kept
      BY <1>6, <2>1, <2>5 DEF RecordFailure, Kept
    <3> QED
      BY <2>2, <2>3, <3>1, TransitionKeepsSent
  <2> QED
    BY <2>4, <2>5
<1>7. ASSUME NEW i \in Attempt, CloseDemoAttempt(i) PROVE SentInv'
  <2>1. /\ Transition(i, Open, "CLOSED", -1) /\ -1 \in Int /\ "CLOSED" \in Kept
        /\ bills' = bills /\ sent' = sent /\ req' = req
    BY <1>7 DEF CloseDemoAttempt, Kept
  <2>2. \A q \in Request : Refused(q)' => req'[q].on \notin sent
    BY <2>1 DEF Refused, SentInv
  <2> HIDE DEF Open
  <2> QED
    BY <2>1, <2>2, TransitionKeepsSent
<1> QED
  BY <1>2, <1>3, <1>4, <1>5, <1>6, <1>7, PrepareKeepsSent, CallKeepsSent, AnswerKeepsSent DEF BillNext

\* What was sent stays on record: as dispatched until its answer, later as uncertain,
\* succeeded or closed by hand, and another request is sent only after a person has
\* closed each attempt the provider may have made a bill of (transition, claim and
\* closeDemoAttempt).
THEOREM SentStaysOnRecord == BillSpec => []SentIsOnRecord
<1>1. BillInit => SentInv
  <2> SUFFICES ASSUME BillInit PROVE SentInv
    OBVIOUS
  <2>1. Attempt = {} /\ sent = {}
    BY DEF BillInit, Attempt
  <2> QED
    BY <2>1 DEF SentInv
<1>2. BillIInv /\ SentInv => SentIsOnRecord
  BY DEF BillIInv, SentInv, Kept, SentIsOnRecord
<1> QED
  BY <1>1, <1>2, NextSent, BillInvariance, PTL DEF BillSpec
=============================================================================
