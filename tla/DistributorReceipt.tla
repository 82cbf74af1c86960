-------------------------- MODULE DistributorReceipt --------------------------
(***************************************************************************)
(* The delivery of one Erve dispatch: its transport details, the           *)
(* distributor's final receipt, submitted under an idempotency key and     *)
(* repeated when no answer comes, and the merchandiser's fallback          *)
(* confirmation.  Every handler holds the lock erve-dispatch-{id} from     *)
(* before its first read to its commit and is one action.  What was        *)
(* dispatched is fixed: ErvePacking freezes the cartons of a list.         *)
(***************************************************************************)
EXTENDS Integers, FiniteSets, Sums

CONSTANTS
    Line,           \* sale order lines of the dispatch
    Group,          \* line -> its style and size
    Packed,         \* line -> the pieces dispatched
    User,           \* people of the distributor, each with a key of his own
    MaxVersion      \* bound on the version of the dispatch

ASSUME ReceiptAssumption ==
    /\ IsFiniteSet(Line) /\ Line # {} /\ DOMAIN Group = Line
    /\ Packed \in [Line -> Nat \ {0}] /\ "none" \notin User
    /\ MaxVersion \in Nat /\ MaxVersion > 3

VARIABLES
    dispatch,       \* the ErveDispatch row with its delivery lines
    receipt,        \* the ErveDispatchDistributorReceipt, NoReceipt before
    attest          \* user -> the receipt he has submitted and its answer

receiptVars == <<dispatch, receipt, attest>>

Quantities == [Line -> Nat]
Zero     == [l \in Line |-> 0]
NoReceipt == [by |-> "none", entered |-> << >>, lines |-> Zero, disposition |-> "NONE"]
NoAttest == [state |-> "idle", version |-> 0, body |-> << >>]

ReceiptInit ==
    /\ dispatch = [status |-> "DISPATCHED", version |-> 1, source |-> "NONE", ledger |-> Zero]
    /\ receipt = NoReceipt
    /\ attest = [u \in User |-> NoAttest]

-----------------------------------------------------------------------------
(* Transport *)

Saved(row) == dispatch' = [row EXCEPT !.version = @ + 1]

\* updateDispatchTransport and assignDispatchTransporter: who carries the goods
\* is left out, the version they advance is not.  Two versions are kept for the
\* receipt and the fallback.
UpdateTransport ==
    /\ dispatch.version <= MaxVersion - 3
    /\ Saved(dispatch) /\ UNCHANGED <<receipt, attest>>

-----------------------------------------------------------------------------
(* Receipts *)

\* A receipt says what arrived per style and size, with an explicit split over
\* the lines for the groups in b.given.
Groups     == {Group[l] : l \in Line}
Members(g) == {l \in Line : Group[l] = g}

\* fault: a short receipt is not asked to be split
Forced_for_any_number(g, n) == n <= Sum(Packed, Members(g))

Forced(g, n) ==
    Cardinality(Members(g)) = 1 \/ n \in {0, Sum(Packed, Members(g))}

ForcedLine(g, n, l) ==
    IF Cardinality(Members(g)) = 1 THEN n ELSE IF n = 0 THEN 0 ELSE Packed[l]

\* buildReceiptPlan: one split is possible, or the explicit one is taken
Plan(b) == [l \in Line |->
    LET n == b.entered[Group[l]]
    IN  IF Forced(Group[l], n) THEN ForcedLine(Group[l], n, l) ELSE b.split[l]]

Accepts(b) ==
    \A g \in Groups :
        LET n == b.entered[g]
            M == Members(g)
        IN  /\ n <= Sum(Packed, M)
            /\ IF Forced(g, n)
               THEN g \in b.given => \A l \in M : b.split[l] = ForcedLine(g, n, l)
               ELSE /\ g \in b.given /\ Sum(b.split, M) = n
                    /\ \A l \in M : b.split[l] <= Packed[l]

\* what a client can send; a split says nothing of the groups it leaves out
Most   == Max({Packed[l] : l \in Line})
Bodies ==
    {b \in [entered: [Groups -> 0 .. Sum(Packed, Line)], given: SUBSET Groups,
            split: [Line -> 0 .. Most]] :
        \A l \in Line : Group[l] \notin b.given => b.split[l] = 0}

\* A user opens the dispatch, enters what arrived and submits it; when no answer
\* comes he repeats the same request with its key and version.
SendDistributorReceipt(u) ==
    /\ attest[u].state \in {"idle", "refused"}
    /\ \E b \in Bodies : attest' = [attest EXCEPT ![u] =
         [state |-> "sent", version |-> dispatch.version, body |-> b]]
    /\ UNCHANGED <<dispatch, receipt>>

Disposition(got) ==
    IF dispatch.status # "DISPATCHED" \/ dispatch.source # "NONE"
    THEN "EVIDENCE_ONLY_EXISTING"
    ELSE IF Sum(got, Line) > 0 THEN "APPLIED" ELSE "NOT_APPLIED_ZERO"

Record(u, got, how) ==
    /\ receipt' = [by |-> u, entered |-> attest[u].body.entered, lines |-> got,
                   disposition |-> how]
    /\ Saved(IF how # "APPLIED" THEN dispatch
             ELSE [dispatch EXCEPT !.status = "DELIVERED", !.ledger = got,
                                   !.source = "DISTRIBUTOR_CONFIRMED"])

\* fault: the version is checked before a repeated request is recognised
Replays_if_fresh(u) == receipt.by = u /\ dispatch.version = attest[u].version

\* the existing receipt is of this user and key, hence of this body
Replays(u) == receipt.by = u

\* submitDistributorReceipt: the answer reaches the user or is lost
SubmitDistributorReceipt(u) ==
    LET ok == /\ receipt = NoReceipt /\ dispatch.version = attest[u].version
              /\ Accepts(attest[u].body)
        got == Plan(attest[u].body)
        answer == IF Replays(u) \/ ok THEN "recorded" ELSE "refused"
    IN  /\ attest[u].state = "sent"
        /\ IF ~Replays(u) /\ ok THEN Record(u, got, Disposition(got))
           ELSE UNCHANGED <<dispatch, receipt>>
        /\ attest' \in {attest, [attest EXCEPT ![u] = [NoAttest EXCEPT !.state = answer]]}

\* fault: the fallback does not look for a receipt
Undecided_by_status == dispatch.status = "DISPATCHED"

Undecided == dispatch.status = "DISPATCHED" /\ receipt = NoReceipt

\* the merchandiser's fallback: every line, something of at least one
ConfirmErveDispatchDelivery ==
    /\ Undecided
    /\ \E got \in [Line -> 0 .. Most] :
         /\ \A l \in Line : got[l] <= Packed[l]
         /\ Sum(got, Line) > 0
         /\ Saved([dispatch EXCEPT !.status = "DELIVERED", !.ledger = got,
                                   !.source = "USER_CONFIRMED"])
    /\ UNCHANGED <<receipt, attest>>

-----------------------------------------------------------------------------
ReceiptNext ==
    \/ UpdateTransport \/ ConfirmErveDispatchDelivery
    \/ \E u \in User : SendDistributorReceipt(u) \/ SubmitDistributorReceipt(u)

ReceiptSpec == ReceiptInit /\ [][ReceiptNext]_receiptVars

-----------------------------------------------------------------------------
(* Properties *)

\* a delivery is decided in one of the two ways
ReceiptTypeOK ==
    /\ dispatch \in [status: {"DISPATCHED", "DELIVERED"}, version: Nat \ {0},
                     source: {"NONE", "USER_CONFIRMED", "DISTRIBUTOR_CONFIRMED"},
                     ledger: Quantities]
    /\ dispatch.status = "DISPATCHED" <=> dispatch.source = "NONE"
    /\ receipt.disposition \in {"NONE", "APPLIED", "NOT_APPLIED_ZERO", "EVIDENCE_ONLY_EXISTING"}
    /\ receipt.lines \in Quantities
    /\ DOMAIN attest = User
    /\ \A u \in User : attest[u] \in [state: {"idle", "sent", "recorded", "refused"},
                                      version: Nat, body: {<< >>} \cup Bodies]

\* The received quantities that sales and returns draw on come from exactly one
\* of the two ways to record a delivery; a receipt of nothing keeps the fallback
\* from saying otherwise.
LedgerHasOneSource ==
    /\ dispatch.status = "DELIVERED" <=> dispatch.ledger # Zero
    /\ receipt.disposition = "APPLIED" <=> dispatch.source = "DISTRIBUTOR_CONFIRMED"
    /\ receipt.disposition = "APPLIED" => dispatch.ledger = receipt.lines
    /\ receipt.disposition = "NOT_APPLIED_ZERO" => dispatch.ledger = Zero

\* Once written, neither the ledger nor the receipt changes: SaleOrReturn takes
\* its received quantities from a delivery that happens once.
DeliveryIsFinal ==
    [][/\ dispatch.ledger # Zero => dispatch'.ledger = dispatch.ledger
       /\ receipt # NoReceipt => receipt' = receipt]_receiptVars

\* A receipt says per style and size exactly what was entered, and no line of it
\* is above what was dispatched.
ReceiptIsWhatWasEntered ==
    receipt # NoReceipt =>
        /\ \A l \in Line : receipt.lines[l] <= Packed[l]
        /\ \A g \in Groups : Sum(receipt.lines, Members(g)) = receipt.entered[g]

\* A user who was told 'recorded' has his receipt on file and one who was told
\* 'refused' has none, whatever answers were lost and requests repeated.
AnswersAreTrue ==
    \A u \in User : attest[u].state \in {"recorded", "refused"} =>
        (attest[u].state = "recorded" <=> receipt.by = u)
=============================================================================
