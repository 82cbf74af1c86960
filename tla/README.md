# A verification of the ERVE service

ERVE is the operations system of a garment maker: factories sew styles, QA releases
finished pieces into stock, merchandisers reserve that stock for distributors' dispatch
orders, factories pack the orders into cartons, the central warehouse (Erve) collects
and delivers the cartons, distributors acknowledge, report sales and return goods, and
tax invoices and e-way bills follow. One Express service (`apps/api`) over PostgreSQL
holds all of the state; a web and a mobile
application are its clients.

This directory holds TLA+ models of that service, translated from its source, the TLC
configurations that check them on small instances, and theorems about them that TLAPS
checks for instances of every size. Paths below are relative to the repository; `api/`
stands for `apps/api/src/modules/`.

- [The system](#the-system): its parts, what they keep, what is hard about them
- [The modules](#the-modules): what each models, and how it corresponds to the code
- [The runs](#the-runs): what each checks, its bounds and why they suffice
- [The proofs](#the-proofs): what holds for every instance, and along which argument
- [What the checks found](#what-the-checks-found)
- [Not modelled](#not-modelled)

## The system

Every request runs in one Node process, which interleaves requests at each `await`, and
several instances of the service may share the database. Nothing but the database is
shared: coordination is by transactions (READ COMMITTED unless said otherwise), by
PostgreSQL advisory locks held until the end of a transaction
(`pg_advisory_xact_lock(hashtext(...))`), by conditional updates (`updateMany` with the
expected state in its WHERE clause) and by unique indexes. A transaction that runs past
its timeout is rolled back, and a client that gets no answer repeats its request with the
same idempotency key. These are the hard parts of the system, with the long lives of its
documents: an order is edited, packed, audited, re-edited and moved to another factory,
and each of those steps must leave derived figures in step.

| Component | State | Operations | What makes it correct |
|---|---|---|---|
| Dispatch orders (`api/sale-orders`) | orders, destinations, lines, stock allocations with an ACTIVE/RELEASED status and an attribution of packed pieces | create, edit header or lines, change factory | never more reserved than released; every line fully reserved; a ready order is complete; one order per idempotency key |
| Pooled inventory (`api/job-orders/pooled-inventory.service.ts`) | none: a reading of QA release lines and allocations | list and lock a pool's eligible release lines | a pool is (factory, style, size); the reading stays true until the reader commits |
| Factory packing and audit (`api/fulfillment/factory-dispatch.service.ts`, `packing-reconciliation.ts`) | one dispatch per order, its cartons with a version, their contents, packing audits | add, edit, remove or retire a carton, audit, finalize, abandon | what is packed is reserved and attributed exactly; only a fully packed and audited order is finalized |
| Erve packing lists, transport, receipts, carton delivery (`api/fulfillment/erve-dispatch*.ts`, `carton-delivery.service.ts`) | packing lists, claims of cartons, transport and receipt events | create, claim, submit, finalize, dispatch, confirm, acknowledge | a carton is on one live list; delivered once; a receipt accounts for every piece |
| Sale-or-return (`api/fulfillment/distributor-*.ts`, `sale-or-return-*.ts`) | sales reports and returns with their lines | submit, approve, receive | what is sold and what comes back are taken from the same received goods; a credit note keeps its goods |
| Factory invoices, tax invoices, handoff (`api/fulfillment/*invoice*.ts`, `ei-numbering-preflight.service.ts`) | drafts, numbers, frozen totals, archived documents | draft, override, finalize, cancel, render | gapless numbers; a final invoice never changes; its document matches it |
| E-way bills (`api/eway-bill`) | operations with attempts and their outcomes | prepare, claim, call, complete, close by hand | one accepted bill per invoice, and no second request unless a person closed the first, though the provider's answer may be lost |
| GST compliance (`api/gst-compliance`) | verification intents with leases, usage counters | prepare, claim, call, complete | a paid call is made once per intent and within the quota |
| Job orders, QA, quality executions (`api/job-orders`, `api/qa`, `api/quality-executions`) | job orders, their activities and stages, executions, batches, releases | start, complete, undo a stage, submit, finalize, rework | released plus rejected plus rework never exceeds produced; no stage is undone under a live batch |
| Process flows, quality forms (`api/process-flow-runtime`, `api/quality-forms`) | versioned definitions | publish, revise | one live version |
| Purchase orders, price lists, tax rules, master data, document sequences | documents and masters with versions; a counter per number series | create, edit, activate, import | no gap in a series; one active version at a time |
| Sessions, login, users (`api/auth`, `api/users`) | a hashed current and previous refresh token, a session version, an account | log in, refresh, log out, deactivate, reset | a rotated token works only within its grace; a revoked session never answers again |
| Client session coordination (`packages/client`) | an access token per tab, a lock and a channel between tabs | refresh, log out, resume | one refresh at a time; a logout in one tab ends all |
| Historical import, reports, shared packages, user interface, command-line tools | staging tables; otherwise none | one-off commits; reads | |

How they interact: a QA release makes stock, an order reserves it, cartons consume the
reservation of the order's lines, an audited and complete set of cartons makes the order
ready, and everything downstream starts from the ready order. Orders and packing share
`sale-order-{id}` as a lock and call each other: an edit looks at and invalidates
cartons, and every carton change re-attributes what the lines have reserved. Orders meet
each other only in the pools and in the number sequence. Sessions touch the rest only
through the account.

`PROJECT.json` lists under "hazards" each place in this code where something can go
wrong that a test would hardly reach, with the properties that cover it.

## The modules

| Module | Models | With |
|---|---|---|
| `StockLedger` | the abstract promise of reservation: pools of stock from which a request takes all it needs at once, or nothing | |
| `PoolReservation` | the creation of an order, statement by statement, with its locks, its idempotency record and its number; other transactions as environment | implements `StockLedger` |
| `DispatchOrder` | the life of orders: creation, edits, factory change, QA releases, cartons, audits, finalization | dispatch orders, pooled inventory and factory packing in one state |
| `ErvePacking` | packing lists that join the cartons of several orders, their dispatch, and the paged listing of eligible cartons | starts from the READY cartons of `DispatchOrder` |
| `CartonDelivery` | the label of one carton and the delivery recorded with it | one carton of a dispatched list |
| `DistributorReceipt` | transport and receipt of one Erve dispatch | starts from a dispatch of `ErvePacking` |
| `SaleOrReturn` | sales reports and returns of delivered goods | starts from a delivery of `DistributorReceipt` |
| `TaxInvoice` | drafting, correcting, issuing, cancelling and replacing the invoices of finalized packing lists, with their archived images | starts from a finalized list of `ErvePacking` |
| `EwayBill` | e-way bills of one issued invoice at an external provider | starts from an issued invoice of `TaxInvoice` |
| `GstinVerification` | paid lookups of one GSTIN at an external provider | |
| `JobOrderQuality` | one job order: its stages, its quality activities, its final batches | its releases are the `QaRelease` of `DispatchOrder` |
| `RefreshSession` | one session, its user and its concurrent requests | sessions, login, user administration |
| `Sums` | `Sum(f, S)`, the sum of f over a finite set of rows | used by the four modules that add up rows |
| `SumTheorems` | what the proofs use of sums, of minima and of maxima | |
| `OrderProofs` | the theorems about `DispatchOrder` and `PoolReservation` | |
| `RefreshSessionProofs`, `GstinVerificationProofs`, `JobOrderQualityProofs` | the theorems about the module of that name | |
| `CartonProofs` | the theorems about `ErvePacking` and `CartonDelivery` | |
| `DistributorProofs` | the theorems about `SaleOrReturn` and `DistributorReceipt` | |
| `TaxProofs` | the theorems about `TaxInvoice` and `EwayBill` | |
| `MC<Module>` | values of the constants for TLC | |

Each module has an `Init`, a `Next` and a `Spec`. Where one proof module covers two
components the second one's are named for it: `ReservationSpec`, `DeliverySpec`, `ReceiptSpec`,
`BillSpec`, with their `DeliveryTypeOK`, `receiptVars` and so on.

How much of a handler is one step follows from its locks. A handler that holds an advisory
lock from before the first read it acts on to its commit is one action (`DispatchOrder`,
`ErvePacking`, `DistributorReceipt`, `TaxInvoice`, `EwayBill`). One whose reads and writes
other transactions may come between is taken apart into statements, or into what it reads
before its lock, what it reads under it and its commit (`PoolReservation`, `CartonDelivery`,
`SaleOrReturn`, `GstinVerification`, `JobOrderQuality`, `RefreshSession`). A refused request
rolls back: where nothing else depends on it, it is no step.

Orders are modelled twice because they have two kinds of hazard. `PoolReservation` is
about interleaving: its steps are single statements and its order is only a demand on
pools. `DispatchOrder` is about long sequences of legal calls; every handler that touches
an existing order takes `sale-order-{id}` before it reads what it acts on
(`sale-orders.service.ts:1190`, `factory-dispatch.service.ts:705`, `782`, `923`, `1060`,
`1124`, `1311`), and what happens between orders, in the pools, is atomic by
`ReservationIsAtomic`.

### DispatchOrder

| Variable | In the database |
|---|---|
| `releases` | `QaReleaseLine` rows, numbered in the order of their creation |
| `orders` | an order's factory and its destinations; `NoOrder` before its creation |
| `lines` | `SaleOrderLine` rows by id, each with its `SaleOrderLineStockAllocation` rows by release line, of which a line has at most one each: id, quantity, status, and the `packedQuantity` attributed to it |
| `dispatch` | the `FactoryDispatch` of an order: none, DRAFT or READY_FOR_ERVE |
| `cartons` | `FactoryPackingCarton` rows with destination, version, retirement, weight, contents and the version of the latest `FactoryCartonPackingAudit` |
| `inspecting` | what an inspector has on his screen: a carton and the version he read |

| Action | Handler |
|---|---|
| `CreateDispatchOrder` | `createDispatchOrder` |
| `UpdateDispatchOrder` | `updateDispatchOrder` with lines and the same factory: merge with the existing lines, releases newest first, reservation of the extra, deletion of dropped lines and destinations, version bump of the cartons touched |
| `ChangeFactory` | `updateDispatchOrder` with another factory: release everything, rewrite the lines, reserve in the new pools, drop the dispatch |
| `AddFactoryPackingCarton`, `UpdateFactoryPackingCarton`, `RemoveFactoryPackingCarton` | the handlers of those names, re-attribution included; removal deletes a carton that was never audited and retires one that was |
| `OpenCarton`, `CloseScreen`, `ConfirmCartonPackingAudit` | the inspector reads a carton, looks away, signs it off |
| `FinalizeFactoryDispatch`, `DeleteFactoryDispatch` | the handlers of those names |
| `QaRelease` | the part of a quality execution that releases a batch into stock |

A request gives a total per destination and style, which `Expand` divides equally over
the sizes of the style that are eligible, and refuses when they do not divide it
(`expandStyleTotalsToLines`). Planning (`Candidates`, `Granted`, `Sufficient`,
`Reserve`) is written as intervals: the demands of a pool, in their order, and its release
lines, in theirs, are laid end to end along the same axis, and a demand is granted from a
release line the length of their overlap (`Share`). This is what the two nested loops with
their running remainders compute, without the loops. Releasing what a line loses, newest row
first (`Taken`), and attributing what is packed, oldest release first (`Attribute`), are
written the same way: what a row gets is what the rows before it leave of the total, up to its
own quantity.

### PoolReservation and StockLedger

`pc[a]` is the next statement of attempt `a`: it opens a transaction, takes the key's
lock, looks for the record of the key (a replay or a conflict ends it), takes the locks
of the pools it needs in ascending order, reads each pool's released and committed pieces,
plans or refuses, takes the next serial, writes and commits. `Abort` ends a transaction
before its commit at any point: an error, the timeout, a crash. `keyLock`, `poolLock` and
`sequenceLock` are the advisory locks and the row lock of `DocumentSequence`; `seen` is
what a transaction has read; `released`, `taken`, `record` and `serial` are committed rows.
The environment is QA, which releases stock (`ReleasePieces`), and every path that gives reserved stock back
without a pool lock. A retry is another attempt with the same key.

`Ledger == INSTANCE StockLedger` maps the committed rows onto the abstract ledger. The
abstract specification has no locks, no reading and no aborts: a request is served in one
step that finds the stock and takes it, each request once.

### RefreshSession

`session` is the `RefreshSession` row. The service derives a token's successor by an HMAC of
the token, so tokens are numbered by generation and the row holds the generation of its
current and of its previous token. `user` is the account with its session version;
`login` is a login between its check of the account and its insert; `pc` and `call` are
the requests in flight, each with the token it carries and the instant it took as `now`
when it started, before its first query. A refresh is three statements that other requests
may interleave: find the session, rotate conditionally, and if the condition failed read it
again. No transaction holds them together in the code, nor here. `issued` is the set of
tokens the clients have been given; an answer may be lost, so `Answer` adds the successor
to it or does not. Password reset and deactivation change the user and revoke in one
transaction, hence in one step (`api/users/users.service.ts:262-359`).

### ErvePacking

| Variable | In the database |
|---|---|
| `source` | what the factory dispatch has made of a carton: packing, ready or retired |
| `on` | `FactoryPackingCarton.ervePackingListId` |
| `lists` | `ErvePackingList` rows: status, store, distributor, the single order if there is one, the snapshot of `ErvePackingListCommercialLine`, the quantities of the invoice handoffs |
| `browse`, `steady` | one client paging through the listing, and the cartons it had to be shown (history) |

`CreateErvePackingList`, `AddErvePackingListCartons`, `RemoveErvePackingListCarton`,
`FinalizeErvePackingList` and `RecordErveDispatch` (with its handoffs) are the handlers of
those names; `RetireCarton` and `FinalizeFactoryDispatch` are the factory's. A page of the
listing is two actions without a lock: `QueryPage` examines candidates, oldest first, up to its
budget and until its page is full, and moves the cursor behind the last one examined;
`HydratePage` reads the picked cartons again. Cartons are numbers in the order of their ids, so
the candidates are a set and "examined" is a matter of how many come before.

### CartonDelivery

| Variable | In the database |
|---|---|
| `carton` | its version, its last inspection, whether it is retired or ready, the instant of its dispatch |
| `tokens` | `CartonDeliveryToken` rows in the order of their issue |
| `evidence` | the `CartonDeliveryConfirmation` |
| `holder`, `req` | who holds the three locks of the carton; what each desk and each person delivering has asked, read and been answered |

A request is `Send`, `Lock` (`withCarton`: the locks are taken and everything is read under
them) and `Commit`, which is `PrepareLabel`, `ManageCredential` (revoke, extend, reissue) or
`Confirm`. Between `Lock` and `Commit` edits and inspections wait, but the dispatch of
the list and the clock go on. A person who gets no answer sends the same confirmation again.

### DistributorReceipt

`dispatch` is the `ErveDispatch` with its received quantities (`ledger`) and their source,
`receipt` the one `ErveDispatchDistributorReceipt`, `attest` what each user submitted and was
told. `SubmitDistributorReceipt` recognizes a repeated request by its key before it looks
at the version, plans the entered quantities over the lines (`Plan`, `buildReceiptPlan`) and
either applies them, records evidence only, or records that nothing came;
`ConfirmErveDispatchDelivery` is the merchandiser's fallback; `UpdateTransport` stands for the
two handlers of transport details by the version they advance.

### SaleOrReturn

`received`, `sold` and `returns` are rows; `request` is a transaction: its lines, the pairs it
has locked (`held`), the line it checks, which of the five sums it has read. `OpenReport`,
`OpenSubmit` and `OpenApprove` start one, `LockPair` takes the least of its pairs it does not
hold (`NextPair`, the code's sorted list of keys), `Query` reads one
sum at READ COMMITTED, and `Report`, `Submit` and `Approve` commit. `Reject`,
`RecordCreditNote`, `Cancel` and `Receive` hold the lock of their return only and are one action
each. A request may name one pair on several lines, which the code accepts: its lines are checked
one by one, each against what was there before the request, and written in turn (`Asked` is what
lines of a pair come to together, `Written` what the last of them leaves in a row).

### TaxInvoice

| Variable | In the database and the file storage |
|---|---|
| `invoices` | `TaxInvoice` rows: status, number, billing details (by the version of the distributor they are of), version, a corrected rate, the image, the invoice replaced |
| `serial` | `DocumentSequence` |
| `distributor`, `picture` | master data that change meanwhile |
| `files`, `stored` | `File` rows of archived images and what is in the storage |
| `issuing`, `comparing` | requests between their transactions |

Issuing is `PrepareIssue`, `ArchiveImage` and `FinalizeTaxInvoice`, with `Interrupt` between any
two. `CreateOrGetDraft`, `OverrideRate`, `CompareBillTo` and `RefreshBillTo`,
`CancelTaxInvoice` and `ReconcileImages` (the clean-up of images) are handlers.

### EwayBill

`attempts` are `EwayBillRequestAttempt` rows with outcome, movement, settings and review time;
`bills` the attempts a demo bill is recorded for; `invoice`, `movement`, `settings` and `linked`
what generation depends on; `req` where a request's handler is; `sent`, a history, the attempts
the provider was asked for and has not refused, so that it may hold a bill of them. `Prepare`, `Claim`, `Complete`
and `RecordFailure` are its transactions, `Call` and `Answered` the provider's call between
them, `Crash` the end of the server at any point. `CloseDemoAttempt` is the person
who closes an attempt without a result: an UNCERTAIN one at once, a DISPATCHED one after its
review time (`eway-bill-operations.service.ts:629-637`). `Stall` bounds how long a server that goes on takes
from its claim to its call. The assumption `Stall < Grace` is that it takes less than the 60
seconds of `DISPATCHED_REVIEW_GRACE_MS` (`eway-bill-operations.service.ts:63`); nothing in the
code enforces it. It matters to one thing only, that nobody closes an attempt which is claimed
and not yet answered. That the provider works on one request at a time is nowhere claimed: after
a time-out a person may close the attempt and another request may be sent.

### GstinVerification

`intents` are `GstVerificationOperation` rows, `claims` `GstVerificationClaim` rows (unique by
key), `evidence` what was retrieved, `released` the claims an operator gave back. `Execute`,
`Claim`, `Consult`, `Recheck`, `Lookup`, then `CacheHit`, `Complete` or `Fail` are the queries and
transactions of one execution; the same intent may be executed twice at once, and `Crash`
ends a request anywhere. A key is a mode and a level of the settings, for one GSTIN;
complete evidence covers the basic level. Where evidence of both levels answers, the code takes
the one retrieved last; `Covering` takes either.

### JobOrderQuality

| Variable | In the database |
|---|---|
| `job` | `JobOrder`: status, prepared quantity, how completion was recorded |
| `stage` | `JobOrderStageStatus` rows |
| `single` | the latest attempt at each of the gates before production, an inspection (`SAMPLE`) and a meeting (`MEETING`), and at the inline inspection |
| `batch` | `FinalQualityBatch` rows with their latest attempt |
| `req` | requests: what they read before their transaction and under their lock |

The production side (`StartProductionStage`, `CompleteProductionStage`,
`UndoCompletedProductionStage`, `MarkJobOrderProductionComplete`) holds `job-order-{id}`, the
quality side (`UpdatePreparedQuantity`, `StartActivity`, `FinalizeActivity`,
`StartFinalPhysicalBatch`, `BeginDecision` and `DecideBatch`, `SaveDraft`,
`StartFinalBatchReinspection`) the lock of quality accounting, and both write the row of the
order. A handler is begun and committed in two steps where the other side may come between.
The version of the order is a counter of which a handler only asks whether it is still the one
it read, so a request carries that bit (`current`), which every write of the row clears. A request
is a row of its handler (`op`), the stage it is at, the activity or batch it is of, the pieces or
the outcome it brings, and what it read: `current`, the order's `status` and whether it is to
`promote` the order. `Recalculated` is `recalculateJobOrderStatus`, which closes an order whose
pieces are all accounted for. The constants are the process flow: `Stages`, the stage of the
inline inspection (`InlineAt`) and the one the final inspection is associated with (`FinalAt`),
which need not be the last. The gates are the two kinds the runtime supports
(`process-flow-runtime-capability.ts:73-91`): the inspection must be passed and is repeated after
a FAIL, the meeting must be finalized, with whatever outcome, and is held once.

## The runs

Run one with `tlc -workers 2 -config <cfg> MC<module>`; each ends within three minutes on two
workers. Deadlock is not checked in any of them: the bounds (orders, attempts, tokens, time)
let every instance run out of steps, and a server at rest is a legal state. That nobody waits
for ever is checked as `EveryRequestSettles` and `RequestsFinish` instead.

| Run | Config | Question | States |
|---|---|---|---|
| `order_attribution` | `DispatchOrder.cfg` | Does the derived attribution of packed pieces survive every sequence of edits and packing? Is packed stock always reserved and a ready order complete? Which steps can over-allocate? | 28,443 |
| `order_factories` | `DispatchOrder_factory.cfg` | Two orders, factories, styles and destinations: is every reservation from its own pool after factory changes, and an inspected carton of one destination after lines moved? | 14,627 |
| `reservation` | `PoolReservation.cfg` | Two creations with one key or two, over two pools, with rollbacks and unlocked writers: over-allocation, idempotency, numbering, refinement of `StockLedger`, and does every request settle? | 41,285 |
| `session` | `RefreshSession.cfg` | Two requests against rotation, expiry, administration and lost answers | 788,446 |
| `packing_lists` | `ErvePacking.cfg` | Four cartons of two orders, two lists: is a list of one owner, a dispatch what was finalized, and does paging show every carton? | 104,951 |
| `distributor_receipt` | `DistributorReceipt.cfg` | Two users' receipts, retries and the fallback over one dispatch of two lines of one style: one source of what was received, true answers | 172,474 |
| `carton_delivery` | `CartonDelivery.cfg` | Two desks and a deliverer over a carton that is edited, inspected, retired and dispatched: one good label, deliveries by good labels, true answers | 1,151,093 |
| `sale_or_return` | `SaleOrReturn.cfg` | Two clerks over two pairs and a return: every line of a report or an approval covered when it commits, covered credit notes, no endless wait | 441,610 |
| `tax_invoice` | `TaxInvoice.cfg` | Two issuers, an accountant, changing masters, interruptions and the clean-up: gapless numbers, kept images, issue as prepared | 323,178 |
| `eway_bill` | `EwayBill.cfg` | Two requests, three attempts, crashes, late answers, closing by hand: explained attempts, nothing sent forgotten or sent again unclosed, one bill | 652,416 |
| `gstin_verification` | `GstinVerification.cfg` | Two requests, three intents, crashes and reconciliation: one worker per key, uncertainty keeps its key, nothing known is paid for | 2,378,510 |
| `job_order_quality` | `JobOrderQuality.cfg` | Two requests on either side of an order, two stages, two batches: stages in order behind two gates, earned dispositions, resolved completion | 794,504 |

### Bounds

A bound on a counter disables the step that would pass it; no step behaves differently at a
bound. Symmetry sets permute values the specification never compares or chooses among,
and are used in no run with a liveness property.

`DispatchOrder`: `Total` 1 and 2 with a release of 2 pieces makes a line that can grow,
shrink by part and disappear; two release lines per pool make an allocation order (newest
released first, oldest packed first) visible; two versions of a carton separate "audited"
from "audited in its last state". A line can leave a packed destination only when another
line stays behind, so moving a line under an audited carton needs two destinations and two
styles: that is `order_factories`, where a line is one piece and two orders share the stock.
One carton at a time is packed; ids are used again.

`PoolReservation`: a circle of waiters needs two keys (requests with one key are serialized by
it) and two pools both requests want; the lock of the number sequence matters only to
requests whose pools are disjoint, hence the three bodies. Two attempts with one key are a
retry that overlaps its original. The theorems cover any number of attempts.

`RefreshSession`: with `Grace` 1, `Idle` 2 and `Absolute` 3 the three deadlines fall on
different instants; three generations are a current token, its predecessor, and one
that is older than both.

`ErvePacking`: one carton goes to a destination without a store, two to one store on one
account, one to the same store on another account, so every reason not to join occurs;
a page of one carton and a budget of two make pages that are full, pages that run out of
budget, and a look-ahead. `CartonDelivery`: two versions of the carton, two credentials
(the second issued after the first is revoked), a label that expires one tick after dispatch.
`DistributorReceipt`: two lines of one style and size, of two pieces and one, so that a short
receipt must be split; `MaxVersion` 5 leaves two transport updates beside the decision.
`SaleOrReturn`: one piece per pair suffices to exceed it; two pairs can be locked crosswise, and a
request of two lines may name both or one of them twice (`Entries`: as many lines as pairs).

`TaxInvoice`: three invoices of one list are two replacements; two versions of each master
separate prepared from current. `EwayBill`: five ticks hold a claim, its call, its review time
and a second attempt; three attempts are one closed, one failed, one that succeeds.
`GstinVerification`: two levels are two keys one of which answers for the other; three intents
leave one to each request and one behind; two changes of the settings are enough to leave the
terms an intent was confirmed under and come back to them. `JobOrderQuality`: two stages are a
stage with the inline inspection and a last one; two batches of an order of two pieces are one
that covers it or two that share it. Final inspection is at the last stage; what differs when
it is at an earlier one is a finding and the theorem `StagesNotSkipped`.

### Properties

`DispatchOrder`. `AttributionExact` is the ledger that six handlers maintain and three
re-check; `PackedIsReserved`, `AuditedCartonMatches` and `ReadyIsComplete` tie three tables
together that no single handler writes as a whole; `OnlyReleasingEditsOverAllocate` delimits
the one disagreement on over-allocation: nothing but an edit that gives back pieces exceeds a
release.

`PoolReservation`. `NoOverAllocation` is the promise; `OneOrderPerKey` and `NumbersAreGapless`
survive rollbacks and retries; `ReservationIsAtomic` says all of it at once against
`StockLedger`; `EveryRequestSettles` is why the pools are locked in order.

`RefreshSession`. `RevokedIsFinal` (no race revives a session), `AnswersNeedALiveSession`
(at the instant a new token is answered the session is neither revoked nor, for the
request that rotated it, expired), `AnswersAreCurrent` (the token answered is the one the
row holds: two racing tabs get the same).

`ErvePacking`. `OneOwnerPerList` relates cartons of many joins; `DispatchIsItsSnapshot` ties
four things written by three handlers at three times; `ListingMissesNothing` is about a reader
without a lock: whatever was eligible all the while he paged has been shown.

`CartonDelivery`, `DistributorReceipt`. `AnswersAreTrue` is the promise of an idempotent
request when answers are lost; `OneLiveCredential` and `DeliveredByAGoodLabel` hold although
requests act on what they read before they waited; `LedgerHasOneSource` keeps the two ways to
record a delivery apart; `ReceiptIsWhatWasEntered` checks the planner against what was entered.

`SaleOrReturn`. `EachLineIsCovered` is what the pair locks protect through five reads: what
a line was checked against is still there when the request commits;
`CreditNotesStayCovered` holds of every later step of a return; `RequestsFinish` is why pairs
are locked in order.

`TaxInvoice`. `NumbersAreGapless` across refusals and interruptions; `IssuedKeepsItsImage`
although the clean-up runs beside three transactions; `IssuedAsPrepared` although everything
may change between them.

`EwayBill`, `GstinVerification`. What was sent and what was paid for is never forgotten,
nor repeated unless a person or an operator decides so (`SentIsOnRecord`, `UncertainKeepsItsKey`), never attributed to something else
(`OpenAttemptIsExplained`, `BillIsOfItsAttempt`), never done twice at once (`OneWorkerPerKey`) and
not done for what is known (`KnownIsNotPaidForAgain`).

`JobOrderQuality`. `PreparedCoversBatches`, `StagesInOrder`, `DispositionIsEarned` and
`CompleteIsResolved` relate the two sides of an order, which hold different locks;
`UndoneBeforeInspection` is the one place where both locks are taken.

### Fairness

Two runs assume any. `reservation`: weak fairness of `Handle(a)` for every attempt, that is,
PostgreSQL executes the statement it was sent and grants a free lock to a waiter, and Node
sends the next one. Attempts are finite and each holds a lock only up to its end, so a
waiter's statement is eventually enabled for good. `sale_or_return`: weak fairness of the steps
of an open transaction, and strong fairness of `LockPair`: clerks start requests without end,
so a lock may become free again and again, and PostgreSQL grants a lock to its waiters in turn.
There is no fairness on what clients, the environment or failures do.

## The proofs

`tlapm <module>` checks each of the eight proof modules. For each component `IInv`
(`ReservationIInv`, `DeliveryIInv`, `ReceiptIInv`, `BillIInv`) is the inductive invariant, and `Invariance ==
Spec => []IInv` follows from `Init => IInv` and the lemmas that every action preserves it; the
theorems are consequences. The assumptions are those on the constants (`PoolAssumption`,
`BoundsAssumption` and the like), which say no more than what kind of value each is, and are
evaluated by TLC in the runs. The one that says more is `Stall < Grace` in `EwayBill`. One
theorem has a hypothesis about a constant, because without it it is false, as
[what the checks found](#what-the-checks-found) shows: `FinalAt = Stages` (final inspection is
associated with the last stage).

### Sums

Pieces are added up over rows, and how such a sum moves when a row does is what several
invariants rest on. `Sum` is the community modules' fold over a set, which takes the elements
in an order nobody knows. `SumTheorems.tla` proves, for any finite set, that the fold exists
(`FoldExists`, `FoldUnique`), that the element taken first does not matter (`SumRemove`: taking
any x out of S takes f[x] out of the sum), and from these how a sum follows a change of one
term (`SumChange`), of the set (`SumAdd`, `SumSubset`, `SumSplit`) and of all terms
(`SumMonotone`, `SumEqual`, `SumPlus`). `Filling` is about first come, first served, which the
planner, the release and the attribution of pieces all are: when vessels are filled in an order
from a total, each with what is left up to its size, together they take the lesser of the total
and their sizes. The library's induction theorems take an operator as a parameter,
which the provers cannot instantiate; the induction here takes a smallest set among the
counterexamples instead (`Least`, by the well-founded order of finite sets).

### Orders

`OrderProofs.tla` proves the safety of `DispatchOrder` for any orders and factories, any finite
sets of destinations, styles and sizes, any configuration of sizes, any quantities and any
bounds.

| Theorem | Statement |
|---|---|
| `TypeCorrect` | `Spec => []TypeOK` |
| `AttributionIsExact` | `Spec => []AttributionExact` |
| `PackedGoodsAreReserved` | `Spec => []PackedIsReserved` |
| `ReservationsAreOfTheirPool` | `Spec => []ReservedFromItsPool` |
| `InspectedCartonsMatch` | `Spec => []AuditedCartonMatches` |
| `ReadyOrdersAreComplete` | `Spec => []ReadyIsComplete` |
| `OnlyReleasingEditsMay` | `Spec => OnlyReleasingEditsOverAllocate` |
| `EditsReserveInFull` | `Spec => EditReservesInFull`: a creation, and an edit within the factory, leave every line of the order reserved in full |

The argument. `IInv` says of every line (`LinesGood`) that its rows are good: no row has more
packed pieces than an ACTIVE one has pieces, ids are distinct (they decide what is released
first), its ACTIVE rows are of the pool of its order's factory and its own item, and what is
attributed is what lies in cartons. It adds that a line is reserved in full or not at all. This is
more than `PackedIsReserved`, which is not inductive without it: an edit measures what a line still
needs against what it has reserved, and releases by the drop of its quantity. The other conjuncts
tie the tables together: before its creation an order has no line, carton or dispatch
(`NothingWithoutOrder`), cartons hold lines of their own order (`ContentsOfOrder`), a line is the
only one of its order, destination and item (`OneLinePerGrain`), and a screen shows a carton
that exists (`ScreensOpen`). `AuditedCartonMatches` and `ReadyIsComplete` are inductive beside
them.

A handler touches the lines and the cartons of one order, so each of these has to be shown of that
order alone (`OneOrderStep`, `ReconcileStep`). What each handler does to a line's rows has a lemma
of its own: `AttributeGood`, `ReducedGood` (what a kept line loses is taken from unpacked pieces,
and there are enough of them because the edit refused to go below what is packed), `MergeGood`
(what was granted is added to ACTIVE rows, revives RELEASED ones, creates the rest with new ids),
`UnreservedGood`, `UnpackedGood`. The planner rests on one fact about intervals (`Overlaps`): laid
end to end, an interval overlaps others that reach far enough by exactly its own length. Used one
way, over the release lines, a line is granted all it asked for (`GrantedInFull`); the other way,
over the lines, a release line gives no more than it had free (`SharesFit`), from which the
bound on what a step commits follows (`ReservedAnew`, `EditCommits`). Only the second use needs the
availability to be right, and there the code's counting twice of what an edit gives back (finding 1)
makes the exception in `OnlyReleasingEditsOverAllocate` necessary. `TargetsGood` says of the
matching of wanted lines with existing ones that each wanted line becomes at most one line, and that
a line which goes on is one of the order and keeps its item, whatever moves where.

### Reservation

The second part of `OrderProofs.tla` proves the safety of `PoolReservation` for any finite or
infinite set of attempts, keys, bodies and pools, any demand and any bound on stock.
The assumption is
`PoolAssumption`: pools are ordered (as numbers), a body asks a natural
number of each pool and something of at least one, and there is a key and a body.

| Theorem | Statement |
|---|---|
| `ReservationTypeCorrect` | `ReservationSpec => []ReservationTypeOK` |
| `NeverOverAllocated` | `ReservationSpec => []NoOverAllocation` |
| `PlansStand` | `ReservationSpec => []PlannedStockIsThere` |
| `KeysAreIdempotent` | `ReservationSpec => []OneOrderPerKey` |
| `GaplessNumbers` | `ReservationSpec => []NumbersAreGapless` |
| `LocksAreOrdered` | `ReservationSpec => []PoolsLockedInOrder` |
| `ReservesAtomically` | `ReservationSpec => Ledger!LedgerSpec` |

The argument. None of the properties is inductive: that stock is not over-allocated at
the commit depends on what was read statements earlier. `ReservationIInv` strengthens them with who
holds what when (`LocksHeld`: past its key a transaction has the key's lock, past its
pools all of their locks, when it writes the sequence's), with what a reading is worth
(`ReadsStand`: what was read of a pool is never more than what is available now, since
only a lock holder takes stock and everyone else only adds to it), with what a record
means (`RecordsStand`: a key's record is the attempt that created its order; until a
transaction commits there is no record of the key it holds) and with the serial
(`SerialsStand`). Each conjunct has a lemma that every step preserves it, one case per
action; `ReservationIInv` follows, each theorem is a consequence of it, and the refinement maps
`Commit` to `Reserve`, `ReleasePieces` to `AddStock`, `ReleaseAllocation` to `GiveBack` and
every other step to a stutter.

### Sessions

`RefreshSessionProofs.tla` proves the safety of `RefreshSession` for any set of requests, any
timeouts and grace period, and any bounds on the clock, the chain of tokens and the number of
password resets.

| Theorem | Statement |
|---|---|
| `TypeCorrect` | `Spec => []TypeOK` |
| `ChainHolds` | `Spec => []TokensFormAChain` |
| `RevocationIsFinal` | `Spec => RevokedIsFinal` |
| `RacersAgree` | `Spec => AnswersAreCurrent` |
| `OnlyTheLiveAnswer` | `Spec => AnswersNeedALiveSession` |
| `InstantsNeverRunBack` | `Spec => ActivityNeverRunsBack` |

The argument. `IInv` adds to the types and the chain: a request needs a token and a token a
finished login (`LoginFirst`); a call carries a token the row has reached and an instant that
has passed (`CallsStand`); whoever carries the current token received it after it was made,
so the instant his rotation writes is no earlier than the ones it replaces
(`InstantsStand`); and what a lookup accepted stays acceptable until somebody revokes,
because everybody who changes the account revokes with it (`LookupsStand`). The last two
are why the three statements of a refresh need no transaction.

### Packing lists

| Theorem | Statement |
|---|---|
| `ListsHaveOneOwner` | `Spec => []OneOwnerPerList` |
| `DispatchesAreTheirSnapshots` | `Spec => []DispatchIsItsSnapshot` |
| `ListingIsComplete` | `Spec => []ListingMissesNothing` |

For any finite set of cartons, any contents and any number of lists. The first two are inductive
together with `ListsTypeOK`: a list names one order only while all its cartons are of it
(`SingleOrder`), and the cartons of a finalized list neither change nor leave. `ListingInv` is
the reader's: each carton he has to be shown has been, or is picked for the page he is reading, or
is still ahead of the cursor and he is told there is more. `ExaminedFirst` carries it: what a page
leaves unexamined comes after all it examines, for any budget and any size of page.

### Carton delivery

| Theorem | Statement |
|---|---|
| `DeliveryTypeCorrect` | `DeliverySpec => []DeliveryTypeOK` |
| `OneCredentialLives` | `DeliverySpec => []OneLiveCredential` |
| `AnswersStayTrue` | `DeliverySpec => []AnswersAreTrue` |
| `DeliveriesAreByGoodLabels` | `DeliverySpec => DeliveredByAGoodLabel` |

`LockedSeesAll` carries the argument: what the holder of the locks read is still so, except that
the carton may have been dispatched since. `LabelsWereIssued` says that a label carries a
credential that exists. The unrevoked credential, if any, is the one `CurrentToken` finds
(`CurrentIsLive`), so replacing it leaves one.

### Distributor receipts

| Theorem | Statement |
|---|---|
| `ReceiptTypeCorrect` | `ReceiptSpec => []ReceiptTypeOK` |
| `AnswersStayTrue` | `ReceiptSpec => []AnswersAreTrue` |
| `LedgerIsDecidedOnce` | `ReceiptSpec => []LedgerFollowsDecision` |
| `LedgerSourceIsOne` | `ReceiptSpec => []LedgerHasOneSource` |
| `ReceiptsAddUp` | `ReceiptSpec => []ReceiptIsWhatWasEntered` |
| `DeliveriesAreFinal` | `ReceiptSpec => DeliveryIsFinal` |

For any lines, quantities and users. `LedgerFollowsDecision` says that what was received is
nothing before a decision, and the receipt's after one that was applied. `ReceiptsAddUp` is about
the planner (`buildReceiptPlan`), which spreads what was entered per style and size over the lines
behind it: `PlanIsEntered` adds up, for any number of lines, both what it concludes where one
answer is possible (one line, nothing, everything) and the explicit split it accepts elsewhere.

### Sale or return

| Theorem | Statement |
|---|---|
| `TypeCorrect` | `Spec => []TypeOK` |
| `LinesAreCovered` | `Spec => EachLineIsCovered` |
| `OnlyRepeats` | `Spec => OnlyRepeatsOversell` |
| `CreditStays` | `Spec => CreditNotesStayCovered` |
| `ReturnsOnlyDwindle` | `Spec => []ReturnsDwindle` |

For any pairs, clerks, quantities and number of returns. A pair is locked by one request
(`LocksExclusive`), a request reads under its locks, and what its queries have come to so far is
no more than is left (`CheckHolds`, `Bound`): sold and approved pieces of a pair only grow under
its lock, and everything else that moves while a request reads its five sums moves in its favour.
`LinesAreCovered` says what the check of a line is worth: each line of a report or an approval fits,
at its commit, into what is left of the goods received (sold and awaiting pieces taken off).
`OnlyRepeats` follows: only a report that names a pair twice takes the two beyond what was
received. An approval cannot: of two entries for one line the last is written, and each was
checked. With the pieces already back taken off too (`OnlyRepeatsOversellReturned`) it is false,
since a receipt takes no pair's lock. `ReturnsOnlyDwindle` holds of every request, also where a
lot is not what its line says was received.

### Tax invoices

| Theorem | Statement |
|---|---|
| `TypeCorrect` | `Spec => []TypeOK` |
| `NumbersStayGapless` | `Spec => []NumbersAreGapless` |
| `ImagesAreKept` | `Spec => []IssuedKeepsItsImage` |
| `ReplacementsFormAChain` | `Spec => []ReplacementChain` |
| `IssuedAsItWasPrepared` | `Spec => IssuedAsPrepared` |

`PreparedStands` says what a version is worth: the draft has at least the version a request
prepared, and if it has just that one, also its billing details; and the archive of a draft's
image stays announced as long as a request means to issue with it. `SerialsStand` counts
without cardinalities: numbers and issued invoices are one to one. `Greatest` (a bounded
set of numbers has a greatest element, by well-founded induction) is why the latest cancelled
invoice exists.

### E-way bills

| Theorem | Statement |
|---|---|
| `BillTypeCorrect` | `BillSpec => []BillTypeOK` |
| `OpenAttemptStaysExplained` | `BillSpec => []OpenAttemptIsExplained` |
| `SentStaysOnRecord` | `BillSpec => []SentIsOnRecord` |
| `OneBillOfItsAttempt` | `BillSpec => []BillIsOfItsAttempt` |

`OneRequestPerAttempt`: an attempt belongs to the request that prepared it.
`ReviewOutlastsCall`: the review time of an attempt is after the last instant its call can end,
so nobody can close it while the call is under way. `SentInv` is about what the provider may hold a
bill of: such an attempt is dispatched, uncertain, succeeded or closed by hand, never unsent or
refused, and all but the last of them are closed. `BillsStand` states `BillIsOfItsAttempt` without a cardinality.

### GST lookups

| Theorem | Statement |
|---|---|
| `TypeCorrect` | `Spec => []TypeOK` |
| `OneWorkerAtAKey` | `Spec => []OneWorkerPerKey` |
| `UncertaintyKeepsItsKey` | `Spec => []UncertainKeepsItsKey` |
| `KnownIsNotPaidFor` | `Spec => KnownIsNotPaidForAgain` |

`WorkersAreAlone`: whoever is past the claim of an intent is alone there and, until the end,
holds a claim of an intent on record as dispatched; the uniqueness of keys among claims, a part
of `TypeOK`, makes workers of different intents workers of different keys.
`IntentsArePrepared` keeps what an unprepared intent cannot have yet.

`KnownIsNotPaidFor` is about evidence of the same key, with fixed times of freshness (`Fresh`): complete
evidence that comes in after a basic lookup was consulted answers it too, and it is paid for all
the same. `Knowledge` is what makes the check before the call enough: whoever has consulted the evidence
under his claim knows that nothing fresh answers his intent, and until he calls nobody else can
record evidence of his key. He loses that knowledge only when the settings change, and then his
intent is not confirmed any more, for good, since their version only grows; that is what
`Recheck` looks at.

### Production and inspection

| Theorem | Statement |
|---|---|
| `TypeCorrect` | `Spec => []TypeOK` |
| `PreparedCovers` | `Spec => []PreparedCoversBatches` |
| `DispositionFollowsAttempt` | `Spec => []DispositionIsEarned` |
| `AutomaticIsResolved` | `Spec => []CompleteIsResolved` |
| `ProductionInOrder` | `FinalAt = Stages => (Spec => []StagesInOrder)` |
| `StagesNotSkipped` | `Spec => []NoStageSkipped` |
| `ReopenedBeforeInspection` | `Spec => UndoneBeforeInspection` |

For any number of stages, batches and requests and any ordered quantity. None of the properties
is inductive: a transaction writes on the strength of what it read, under one of two locks, while
a transaction under the other lock may write the same rows. `RequestHolds` says of each request
what of its reading still holds. `ReadHolds`: before its locks, only what its version vouches for.
`StageHolds`: under the lock of the job order, what the quality side cannot take away (the gates are
satisfied, the stages before are completed, the stages after not started). `PrepareHolds` and
`DecisionHolds`: under the lock of quality accounting, what the production side cannot take away
(the pieces in batches, the attempt of the batch; that the order may be promoted only as long as its
version stands). `LocksExclusive` says that of two transactions under way one is on each side.
A step of one request preserves what holds of the others by frames: each of a few lemmas names
what a kind of step leaves alone. `Production` says of stages and batches what no request can
undo: a batch exists only where the stage of its inspection has started. `NoStageSkipped` is what
is left of the order of stages when final inspection is associated with an earlier one, and holds
of every flow.

### Only model-checked

Liveness (`EveryRequestSettles`, `RequestsFinish`): fairness and ENABLED are outside the
prover's reach. Every other property a run checks is a theorem.
Some theorems are about properties in no run, `OnlyRepeats` and `ReturnsOnlyDwindle` among them.

## What the checks found

Each item but the last two is a property of a module that the code does not have. To see a
counterexample, put it in place of the properties of the config named (state predicates as
INVARIANT, the others as PROPERTY).

1. `CommittedWithinReleased` (`DispatchOrder.cfg`). An edit writes its releases of allocations before
   it plans (`sale-orders.service.ts:1471-1503`), and the planner adds the planned releases to
   an availability it reads afterwards (`383`). What is given back counts twice, and an edit
   that shrinks one line and grows another may reserve more than was released.
2. `FullyReserved` (`DispatchOrder_factory.cfg`). A factory change writes new lines beside the
   old ones, which stay with a quantity and no reservation (`1385`).
3. `NoConstraintError` (`DispatchOrder.cfg`). Dropping a line that has a RELEASED allocation or
   stands in a retired carton passes every validation and fails on a foreign key (`1494`); the
   request is rolled back with a database error.
4. `AuditCertifiesWhatWasSeen` (`DispatchOrder.cfg`). A sign-off names no version
   (`factory-dispatch.service.ts:1151`), so it certifies what the carton holds now, not what the
   inspector saw.
5. `OnlyReuseRevokes` (`RefreshSession.cfg`). A request takes `now` before its lookup; if the
   request that rotated the token started later, the elapsed time is negative, the grace test
   fails and the session is revoked as stolen (`refresh-session.service.ts:180`).
6. `LogoutEndsTheSession` (`RefreshSession.cfg`). The same test makes a logout that loses to a
   later refresh revoke nothing (`317`).
7. `OnlyRepeatsOversellReturned` (`SaleOrReturn.cfg` with `SPECIFICATION Spec`). A receipt takes the lock of its
   return, not of its pairs (`distributor-return.service.ts:489`); a sales report that reads
   "returned" before it and "awaiting receipt" after it counts the goods in neither.
8. `CommittedWithinReceived` (`SaleOrReturn.cfg` with `SPECIFICATION Spec`). A report that names a pair
   on two lines has each checked by itself (`distributor-sales-report.service.ts:222`).
9. `LotsAreReceipts` (`SaleOrReturn.cfg` with `SPECIFICATION Spec`). A receipt that names one line
   twice is accepted (`distributor-return.service.ts:500`); the lot keeps what the line no longer
   says.
10. `MarkedStaysComplete` (`JobOrderQuality.cfg`). An update of the prepared quantity writes back
    the status it read, over a completion recorded meanwhile under the other lock
    (`job-orders.service.ts:3174`).
11. `ResolvedIsPromoted` (`JobOrderQuality.cfg`). A release and a stage completion beside it each
    miss the other's write, and the automatic completion is lost (`2348`).
12. `NothingStartsOnCancelled` (`JobOrderQuality.cfg`). The check that an order is not cancelled
    precedes the transaction, and cancelling takes another lock
    (`quality-executions.service.ts:888`).
13. `NoLiveStageUnderCompletion` (`JobOrderQuality.cfg`). After completion by hand an earlier
    stage may be undone; it stays in progress under a completed order (`job-orders.service.ts:2869`).
14. `StagesInOrder` (`JobOrderQuality.cfg` with `FinalAt = 1`). Under the lock of quality accounting
    the automatic completion closes the last stage when it finds it the only one open
    (`2365`); the undo of the stage before it holds the lock of the job order and has found the last
    one not started. Afterwards the last stage is complete and the one before it in progress, under a
    completed order. It takes a flow whose final inspection is associated with an earlier stage,
    which `master-data.validation.ts:329-351` allows and `prisma/seed.ts:552` creates.
15. A comment says a dispatch makes no invoice handoff for sale-or-return lines
    (`erve-dispatch.service.ts:1299`); the code makes one for every line.
16. A comment says an invoice is never issued against another revision of its draft
    (`tax-invoice.service.ts:1328`); a corrected rate does not raise the version compared.

Two more are visible in the code: a factory change without lines re-creates the existing lines
under their own ids (`sale-orders.service.ts:1372-1378`) and always fails; and two lock keys that
collide in `hashtext` wait for each other as if they were one, in an order their sorting does
not see.

## Not modelled

Whole components. The map covers the handlers that carry the state of orders, packing,
delivery, returns, invoices, e-way bills, lookups, production and sessions, a small share of the
repository's lines: most of it is user interface, forms, reports, projections, validation and
master data, which have no protocol of their own. Left out for that reason: factory invoices,
the older QA tasks, process flows and quality forms, purchase orders, price lists and tax
rules, master data, the historical import, reports, shared types, the clients and the
command-line tools, each with its reason in `PROJECT.json`. Two left out have a hazard: the
coordination of browser tabs (`packages/client`), which spares the server races that
`RefreshSession` shows to be safe without it, and the rule of the last administrator
(`users.service.ts:62`), which is one count under a lock of its own.

In the modules:

- `DispatchOrder`: the grouping of destinations by distributor, edits of the header only,
  store snapshots, numbering, audit logs and the factory invoice a finalized dispatch
  produces (a missing rate is one more way finalization is refused, so not a step). The
  version a client expects (`expectedVersion`) is a refusal when stale, hence no step.
  Destinations are numbers within an order, and an edit pairs its lines with the existing ones in
  that order, where the code goes by the order of the request (`sale-orders.service.ts:718-726`):
  it decides which of two equal lines keeps its id, on which no property depends. A carton's details beyond its weight are left
  out: an edit of them alone is the version bump of `UpdateFactoryPackingCarton`. Ids
  compare in creation order; ULIDs of the same millisecond do not
  (`sale-orders.service.ts:2196`). An inspector's screen is cleared when its carton is
  deleted, since confirming it is then a plain "not found". A confirmation does not look at
  the dispatch's status; the cartons of a ready dispatch are audited already, so it
  changes nothing.
- `PoolReservation`: the release lines of a pool are added up (the planner is in
  `DispatchOrder`); candidates and committed pieces are read in one step per pool; lock
  hashes are distinct; the locks of retail stores, taken in sorted order between the key's
  and the pools', and of existing orders are left out. Edits appear through what they do
  to the pools without their lock; an edit that asks for stock takes pool locks in the
  same order by the same function.
- `RefreshSession`: one session of one user; cookies, access tokens and the HMAC itself.
  A revocation also stamps `updatedAt`, which nobody reads of a revoked row.
- `ErvePacking`: numbering, prices (a missing one refuses finalization) and the text search of
  the listing, which is one more filter.
- `CartonDelivery`: rate limits, the short session of the public page, and the recipient, the stated
  time and the remarks, which are data of the evidence.
- `DistributorReceipt`: who carries the goods, and remarks.
- `SaleOrReturn`: one dispatch; approval notes and documents; the queries of positions, which only
  read.
- `TaxInvoice`: amounts, the layout of the document, and all but one style of an invoice. Every style has an image that can be
  read: an invoice whose style has none, or one missing in the storage, is issued without, and a
  damaged one refuses the preparation (`tax-invoice-document.service.ts:196-215`). A
  cancellation among the reads of a draft request changes what is answered, not what is written.
- `EwayBill`: the fields of a request are those of its movement; a live bill is only linked.
- `GstinVerification`: one GSTIN; the limit of lookups counts those of one tick; an operator's
  attestation that nobody is at work on a claim is taken as true; names and the usage report.
- `JobOrderQuality`: one size, one gate of each kind, one inline and one final activity; the fields of forms,
  attachments, the records of idempotency keys and the 24 hours in which a stage may be undone.
  The queries of a recalculation are one read. Final inspection may start while its stage is in
  progress or completed, the policy the runtime supports; that of retired flows, after completion
  only (`quality-executions.service.ts:608`), allows less.
