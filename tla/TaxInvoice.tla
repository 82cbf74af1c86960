------------------------------ MODULE TaxInvoice ------------------------------
(***************************************************************************)
(* Tax invoices of finalized packing lists: drafts with the distributor's  *)
(* billing details frozen in them, accountants' corrections, issuing in    *)
(* three transactions (prepare, archive the style image, issue), cancel    *)
(* and replacement, and the clean-up of archived images no invoice names.  *)
(*                                                                         *)
(* A handler holds the lifecycle lock of its invoice, or the lock of its   *)
(* packing list, from its first read to its commit and is one action; the  *)
(* three transactions of issuing are three.  An invoice has one style.     *)
(* A cancellation that commits among the reads of CreateOrGetDraft changes *)
(* what is answered, never what is written.                                *)
(***************************************************************************)
EXTENDS Integers, Sequences, FiniteSets

CONSTANTS
    List,           \* ErvePackingLists, finalized
    Issuer,         \* requests to issue in flight
    Accountant,     \* corrections of billing details in flight
    MaxInvoice,     \* bound on the invoices ever drafted
    MaxEdit         \* bound on the versions of master data and of drafts

ASSUME BoundsAssumption ==
    /\ {MaxInvoice, MaxEdit} \subseteq Nat \ {0}
    /\ IsFiniteSet(List) /\ IsFiniteSet(Issuer)

VARIABLES
    invoices,       \* TaxInvoice rows in the order they were drafted
    serial,         \* lastAllocatedSerial of the TAX_INVOICE sequence
    distributor,    \* the billing details of the distributor, by their version
    picture,        \* the primary image of the style, by its version
    files,          \* File rows of archived images: invoice, image and age
    stored,         \* archived images in the file storage: invoice and image
    issuing,        \* issuer -> the request he has in flight
    comparing       \* accountant -> the comparison on his screen

vars == <<invoices, serial, distributor, picture, files, stored, issuing, comparing>>

Invoice == DOMAIN invoices
NoNumber == 0
NoImage  == 0
NotIssuing   == [phase |-> "idle", on |-> 0, version |-> 0, bill |-> 0, image |-> NoImage]
NotComparing == [on |-> 0, version |-> 0, bill |-> 0]

Status == {"DRAFT", "FINALIZED", "CANCELLED"}
Issued(i) == invoices[i].status # "DRAFT"

InvoiceRow == [list: List, status: Status, number: Nat, bill: 1 .. MaxEdit, version: Nat,
               rate: 0 .. 1, image: 0 .. MaxEdit, replaces: Nat]
FileRow    == [on: Invoice, image: 1 .. MaxEdit, old: BOOLEAN]
IssuingRow == [phase: {"idle", "prepared", "archived"}, on: {0} \cup Invoice, version: Nat,
               bill: 0 .. MaxEdit, image: 0 .. MaxEdit]
ComparingRow == [on: {0} \cup Invoice, version: Nat, bill: 0 .. MaxEdit]

TypeOK ==
    /\ invoices \in Seq(InvoiceRow) /\ Len(invoices) <= MaxInvoice
    /\ \A i \in Invoice : /\ Issued(i) <=> invoices[i].number # NoNumber
                          /\ invoices[i].replaces < i
    /\ serial \in Nat
    /\ {distributor, picture} \subseteq 1 .. MaxEdit
    /\ files \subseteq FileRow /\ stored \subseteq [on: Invoice, image: 1 .. MaxEdit]
    /\ issuing \in [Issuer -> IssuingRow] /\ comparing \in [Accountant -> ComparingRow]
    /\ \A r \in Issuer : issuing[r].phase # "idle" =>
         issuing[r].on # 0 /\ issuing[r].image # NoImage

Init ==
    /\ invoices = << >> /\ serial = 0
    /\ distributor = 1 /\ picture = 1
    /\ files = {} /\ stored = {}
    /\ issuing = [r \in Issuer |-> NotIssuing]
    /\ comparing = [a \in Accountant |-> NotComparing]

-----------------------------------------------------------------------------
(* Drafts *)

InvoicesOf(l) == {i \in Invoice : invoices[i].list = l}

\* the most recently cancelled invoice of a list, 0 if there is none
LatestCancelled(l) ==
    LET C == {i \in InvoicesOf(l) : invoices[i].status = "CANCELLED"}
    IN  IF C = {} THEN 0 ELSE CHOOSE i \in C : \A j \in C : j <= i

NoActive(l) == \A i \in InvoicesOf(l) : invoices[i].status = "CANCELLED"

CreateOrGetDraft(l) ==
    /\ NoActive(l) /\ Len(invoices) < MaxInvoice
    /\ invoices' = Append(invoices,
         [list |-> l, status |-> "DRAFT", number |-> NoNumber, bill |-> distributor,
          version |-> 1, rate |-> 0, image |-> NoImage, replaces |-> LatestCancelled(l)])
    /\ UNCHANGED <<serial, distributor, picture, files, stored, issuing, comparing>>

Correctable(i) == invoices[i].status = "DRAFT"

\* overrideTaxInvoiceLineRate: the version of the draft stays as it is
OverrideRate(i) ==
    /\ Correctable(i) /\ invoices[i].rate = 0
    /\ invoices' = [invoices EXCEPT ![i].rate = 1]
    /\ UNCHANGED <<serial, distributor, picture, files, stored, issuing, comparing>>

\* getBillToRefreshPreview; nothing comes of a comparison without a difference
CompareBillTo(a, i) ==
    /\ invoices[i].status = "DRAFT" /\ invoices[i].bill # distributor
    /\ comparing' = [comparing EXCEPT ![a] =
         [on |-> i, version |-> invoices[i].version, bill |-> distributor]]
    /\ UNCHANGED <<invoices, serial, distributor, picture, files, stored, issuing>>

\* refreshTaxInvoiceBillTo: what is applied is what was compared
RefreshBillTo(a) ==
    LET c == comparing[a] IN
    /\ c.on # 0
    /\ invoices' =
         IF /\ invoices[c.on].status = "DRAFT" /\ invoices[c.on].version = c.version
            /\ c.bill = distributor
         THEN [invoices EXCEPT ![c.on].bill = c.bill, ![c.on].version = @ + 1]
         ELSE invoices
    /\ comparing' = [comparing EXCEPT ![a] = NotComparing]
    /\ UNCHANGED <<serial, distributor, picture, files, stored, issuing>>

\* master data, edited elsewhere
EditDistributor ==
    /\ distributor < MaxEdit /\ distributor' = distributor + 1
    /\ UNCHANGED <<invoices, serial, picture, files, stored, issuing, comparing>>

ReplacePicture ==
    /\ picture < MaxEdit /\ picture' = picture + 1
    /\ UNCHANGED <<invoices, serial, distributor, files, stored, issuing, comparing>>

-----------------------------------------------------------------------------
(* Issuing *)

Archived(i, p) == [on |-> i, image |-> p]
Filed(i, p)    == \E f \in files : f.on = i /\ f.image = p

\* prepareInvoiceDocument: the archive is announced before it is written; the
\* row that announces it keeps its age when it is there already
PrepareIssue(r, i) ==
    /\ issuing[r].phase = "idle" /\ invoices[i].status = "DRAFT"
    /\ issuing' = [issuing EXCEPT ![r] =
         [phase |-> "prepared", on |-> i, version |-> invoices[i].version,
          bill |-> invoices[i].bill, image |-> picture]]
    /\ files' = IF Filed(i, picture) THEN files
                ELSE files \cup {[on |-> i, image |-> picture, old |-> FALSE]}
    /\ UNCHANGED <<invoices, serial, distributor, picture, stored, comparing>>

\* uploadInvoiceDocument: nothing is written for an invoice issued by now
ArchiveImage(r) ==
    LET w == issuing[r] IN
    /\ w.phase = "prepared"
    /\ stored' = IF Issued(w.on) THEN stored ELSE stored \cup {Archived(w.on, w.image)}
    /\ issuing' = [issuing EXCEPT ![r].phase = "archived"]
    /\ UNCHANGED <<invoices, serial, distributor, picture, files, comparing>>

\* fault: the draft is not compared with the one prepared
IssuableAs_any_version(w) ==
    /\ invoices[w.on].status = "DRAFT" /\ w.image = picture
    /\ Archived(w.on, w.image) \in stored

\* the draft is as it was prepared, its image is current and archived
IssuableAs(w) ==
    /\ invoices[w.on].status = "DRAFT" /\ invoices[w.on].version = w.version
    /\ w.image = picture /\ Archived(w.on, w.image) \in stored

\* fault: the serial is taken before the invoice is checked
Allocate_first(w) == serial' = serial + 1

\* allocateDocumentSerial, when the invoice is issued
Allocate(w) == serial' = IF IssuableAs(w) THEN serial + 1 ELSE serial

FinalizeTaxInvoice(r) ==
    LET w == issuing[r] IN
    /\ w.phase = "archived"
    /\ Allocate(w)
    /\ invoices' = IF IssuableAs(w)
                   THEN [invoices EXCEPT ![w.on].status = "FINALIZED", ![w.on].number = serial + 1,
                                         ![w.on].image = w.image]
                   ELSE invoices
    /\ issuing' = [issuing EXCEPT ![r] = NotIssuing]
    /\ UNCHANGED <<distributor, picture, files, stored, comparing>>

\* the storage fails or the server stops between two transactions
Interrupt(r) ==
    /\ issuing[r].phase # "idle"
    /\ issuing' = [issuing EXCEPT ![r] = NotIssuing]
    /\ UNCHANGED <<invoices, serial, distributor, picture, files, stored, comparing>>

CancelTaxInvoice(i) ==
    /\ invoices[i].status = "FINALIZED"
    /\ invoices' = [invoices EXCEPT ![i].status = "CANCELLED", ![i].version = @ + 1]
    /\ UNCHANGED <<serial, distributor, picture, files, stored, issuing, comparing>>

-----------------------------------------------------------------------------
(* Archived images *)

\* a day goes by
Age ==
    /\ files' = {[f EXCEPT !.old = TRUE] : f \in files} /\ files' # files
    /\ UNCHANGED <<invoices, serial, distributor, picture, stored, issuing, comparing>>

\* fault: the archives of drafts are cleaned up too
Removable_of_drafts(i) == {f \in files : f.on = i /\ f.old /\ f.image # invoices[i].image}

Removable(i) ==
    {f \in files : f.on = i /\ f.old /\ Issued(i) /\ f.image # invoices[i].image}

\* reconcileInvoiceImageArchives
ReconcileImages(i) ==
    /\ Removable(i) # {}
    /\ files' = files \ Removable(i)
    /\ stored' = {s \in stored : \A f \in Removable(i) : s # Archived(f.on, f.image)}
    /\ UNCHANGED <<invoices, serial, distributor, picture, issuing, comparing>>

-----------------------------------------------------------------------------
Next ==
    \/ \E l \in List : CreateOrGetDraft(l)
    \/ \E i \in Invoice :
         \/ OverrideRate(i) \/ CancelTaxInvoice(i) \/ ReconcileImages(i)
         \/ \E r \in Issuer : PrepareIssue(r, i)
         \/ \E a \in Accountant : CompareBillTo(a, i)
    \/ \E r \in Issuer : ArchiveImage(r) \/ FinalizeTaxInvoice(r) \/ Interrupt(r)
    \/ \E a \in Accountant : RefreshBillTo(a)
    \/ EditDistributor \/ ReplacePicture \/ Age

Spec == Init /\ [][Next]_vars

-----------------------------------------------------------------------------
(* Properties *)

\* The numbers of the issued invoices are 1 to the last serial, each once: no
\* refused, repeated or interrupted attempt to issue uses one up.
NumbersAreGapless ==
    /\ {invoices[i].number : i \in {j \in Invoice : Issued(j)}} = 1 .. serial
    /\ Cardinality({i \in Invoice : Issued(i)}) = serial

\* The invoices of a list form one chain, each replacing the one before it,
\* and all but the last are cancelled.
ReplacementChain ==
    \A i, j \in Invoice :
        /\ invoices[i].list = invoices[j].list /\ i < j
        /\ ~\E k \in i + 1 .. j - 1 : invoices[k].list = invoices[i].list
        => invoices[i].status = "CANCELLED" /\ invoices[j].replaces = i

\* The image an issued invoice shows stays archived with its row, whatever
\* attempts to issue were interrupted and whatever is cleaned up.
IssuedKeepsItsImage ==
    \A i \in Invoice : Issued(i) =>
        /\ Archived(i, invoices[i].image) \in stored
        /\ Filed(i, invoices[i].image)

\* An invoice is issued with the billing details and the image of the moment it
\* was prepared, and the image is still the style's.
IssuedAsPrepared ==
    [][\A i \in Invoice : invoices'[i].status = "FINALIZED" /\ ~Issued(i) =>
         \E r \in Issuer :
            /\ issuing[r].on = i /\ issuing'[r] = NotIssuing
            /\ issuing[r].bill = invoices'[i].bill
            /\ issuing[r].image = invoices'[i].image /\ invoices'[i].image = picture]_vars
=============================================================================
