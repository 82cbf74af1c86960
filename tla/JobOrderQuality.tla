---------------------------- MODULE JobOrderQuality ----------------------------
(***************************************************************************)
(* One job order on the factory floor: its production stages, the quality  *)
(* activities that gate them, the quantity prepared and the final batches  *)
(* inspected out of it.  Production handlers serialise on the lock of the  *)
(* job order, quality handlers on the lock of its quality accounting, and  *)
(* both write the same row: a request that holds one lock runs beside a    *)
(* request that holds the other.                                           *)
(***************************************************************************)
EXTENDS Sums, FiniteSets

CONSTANTS
    Batch,          \* FinalQualityBatch rows
    Request,        \* requests in flight
    Stages,         \* number of production stages
    InlineAt,       \* the stage whose completion needs the inline inspection
    FinalAt,        \* the stage final inspection is associated with
    Ordered         \* orderedQuantityTotal, of one size

ASSUME FlowAssumption ==
    /\ Stages \in Nat \ {0} /\ Ordered \in Nat \ {0}
    /\ InlineAt \in 1 .. Stages /\ FinalAt \in 1 .. Stages

VARIABLES
    job,            \* status, prepared quantity and how completion was recorded
    stage,          \* stage -> its JobOrderStageStatus
    single,         \* activity of one execution -> its latest attempt
    batch,          \* batch -> quantity, disposition and latest attempt
    req             \* request -> the handler it is in and what it has read

vars == <<job, stage, single, batch, req>>

\* Before production an inspection gates it, to be passed, and a meeting, to be
\* finalized; the two are independent.  The inline inspection gates one stage.
Gate == {"SAMPLE", "MEETING"}
Activity == Gate \cup {"INLINE"}

\* executions of an activity and batches are rows of different tables
ASSUME BatchAssumption == IsFiniteSet(Batch) /\ Batch \cap Activity = {}

Outcome  == {"PASS", "FAIL"}
JobStatus == {"DRAFT", "SENT_TO_FACTORY", "CONFIRMED_BY_FACTORY", "IN_PRODUCTION",
              "PRODUCTION_COMPLETE", "CANCELLED"}
Disposition == {"NONE", "DRAFT", "AWAITING_REINSPECTION", "RELEASED",
                "PERMANENTLY_REJECTED", "CANCELLED"}
Attempt == {"NONE", "DRAFT", "CANCELLED"} \cup Outcome

\* A request: its handler, the stage it is at or the activity or batch it is of,
\* the pieces or the outcome it brings; and, once it runs, whether the version
\* it read is current, the status it read and whether it is to promote the order.
RequestRow == [op : {"none", "start", "complete", "undo", "mark", "prepare", "open", "batch",
                     "judge", "reject", "cancel"},
               at : 0 .. Stages, of : Activity \cup Batch \cup {"none"}, pieces : 0 .. Ordered,
               outcome : Outcome \cup {"none"}, phase : {"idle", "read", "begun"},
               current : BOOLEAN, status : JobStatus, promote : BOOLEAN]
NoRequest == [op |-> "none", at |-> 0, of |-> "none", pieces |-> 0, outcome |-> "none",
              phase |-> "idle", current |-> FALSE, status |-> "DRAFT", promote |-> FALSE]

TypeOK ==
    /\ job \in [status : JobStatus, prepared : 0 .. Ordered,
                audit : {"none", "AUTOMATIC", "MANUAL"}]
    /\ stage \in [1 .. Stages -> {"NOT_STARTED", "IN_PROGRESS", "COMPLETED"}]
    /\ single \in [Activity -> Attempt]
    /\ batch \in [Batch -> [quantity : 0 .. Ordered, disposition : Disposition,
                            attempt : Attempt, untouched : BOOLEAN]]
    /\ req \in [Request -> RequestRow]

Init ==
    /\ job = [status |-> "DRAFT", prepared |-> 0, audit |-> "none"]
    /\ stage = [s \in 1 .. Stages |-> "NOT_STARTED"]
    /\ single = [a \in Activity |-> "NONE"]
    /\ batch = [b \in Batch |-> [quantity |-> 0, disposition |-> "NONE",
                                 attempt |-> "NONE", untouched |-> TRUE]]
    /\ req = [r \in Request |-> NoRequest]

-----------------------------------------------------------------------------
(* What the handlers ask of the rows *)

Quantities(bs) == [b \in Batch |-> bs[b].quantity]
Live(bs) == {b \in Batch : bs[b].disposition \notin {"NONE", "CANCELLED"}}
\* fault: a rejected batch gives its pieces back
Committed_but_rejected(bs) ==
    Sum(Quantities(bs), {b \in Live(bs) : bs[b].disposition # "PERMANENTLY_REJECTED"})
Committed(bs) == Sum(Quantities(bs), Live(bs))

Resolved(d) == d \in {"RELEASED", "PERMANENTLY_REJECTED"}
\* fault: the batches need not cover the order
FullyResolved_without_coverage(prepared, bs) ==
    prepared = Ordered /\ Live(bs) # {} /\ \A b \in Live(bs) : Resolved(bs[b].disposition)
\* the whole order is prepared and every piece went through final inspection
FullyResolved(prepared, bs) ==
    /\ prepared = Ordered /\ Live(bs) # {}
    /\ \A b \in Live(bs) : Resolved(bs[b].disposition)
    /\ Committed(bs) = prepared

Open(st) == {s \in 1 .. Stages : st[s] # "COMPLETED"}
NextStage(s) == s \in Open(stage) /\ \A t \in Open(stage) : s <= t
Workable == job.status \in {"CONFIRMED_BY_FACTORY", "IN_PRODUCTION"}

GatesSatisfied == single["SAMPLE"] = "PASS" /\ single["MEETING"] \in Outcome

\* an inspection that failed is repeated, a meeting is held once
Startable(a) == single[a] \notin {"DRAFT", "PASS"} /\ (a = "MEETING" => single[a] # "FAIL")

\* a quality activity may newly start
Eligible(a) ==
    /\ job.status # "CANCELLED"
    /\ CASE a \in Gate    -> job.status \notin {"DRAFT", "SENT_TO_FACTORY"}
         [] a = "INLINE" -> stage[InlineAt] = "IN_PROGRESS"
         [] OTHER        -> stage[FinalAt] \in {"IN_PROGRESS", "COMPLETED"}

-----------------------------------------------------------------------------
(* Requests: what is read before the transaction, the locks, the versions  *)

JobOps == {"start", "complete", "undo", "mark"}
\* undoing the last stage takes the accounting lock after the job order's
Locks(q) == (IF q.op \in JobOps THEN {"job-order"} ELSE {"qa-accounting"})
            \cup (IF q.op = "undo" /\ q.at = Stages THEN {"qa-accounting"} ELSE {})
Free(l) == \A r \in Request : req[r].phase = "begun" => l \notin Locks(req[r])

\* The version of the job order is a counter; all a request asks of it is
\* whether it is still the one it read, as a batch inspector asks of the attempt.
JobWritten(rs) ==
    [r \in Request |-> IF rs[r].op \in JobOps \cup {"prepare"} \/ rs[r].phase = "begun"
                       THEN [rs[r] EXCEPT !.current = FALSE] ELSE rs[r]]
AttemptWritten(rs, x) ==
    [r \in Request |-> IF rs[r].op = "judge" /\ rs[r].phase = "read" /\ rs[r].of = x
                       THEN [rs[r] EXCEPT !.current = FALSE] ELSE rs[r]]

Receive(r, body) ==
    /\ req[r].phase = "idle"
    /\ req' = [req EXCEPT ![r] = [body EXCEPT !.phase = "read", !.current = TRUE]]
    /\ UNCHANGED <<job, stage, single, batch>>

\* start and complete: the next stage, once the gates before production are satisfied
ReadStage(r, s) ==
    /\ Workable /\ NextStage(s) /\ GatesSatisfied
    /\ \/ Receive(r, [NoRequest EXCEPT !.op = "start", !.at = s])
       \/ /\ stage[s] = "IN_PROGRESS"
          /\ s = InlineAt => single["INLINE"] = "PASS"
          /\ Receive(r, [NoRequest EXCEPT !.op = "complete", !.at = s])

Undoable(s) ==
    /\ stage[s] = "COMPLETED"
    /\ s < Stages => stage[s + 1] = "NOT_STARTED"
Inspected(s) == s = Stages /\ Live(batch) # {}

ReadUndo(r, s) ==
    /\ job.status \in {"IN_PRODUCTION", "PRODUCTION_COMPLETE"}
    /\ Undoable(s) /\ ~Inspected(s)
    /\ Receive(r, [NoRequest EXCEPT !.op = "undo", !.at = s])

Markable == job.status = "IN_PRODUCTION" /\ \A s \in 1 .. Stages : stage[s] # "IN_PROGRESS"

ReadMark(r) == Markable /\ Receive(r, [NoRequest EXCEPT !.op = "mark"])

ReadPrepare(r, n) ==
    /\ stage[FinalAt] \in {"IN_PROGRESS", "COMPLETED"}
    /\ Receive(r, [NoRequest EXCEPT !.op = "prepare", !.pieces = n])

\* start of a quality execution: of a single activity, or of a new final batch
ReadOpen(r, a) ==
    /\ Eligible(a) /\ Startable(a)
    /\ Receive(r, [NoRequest EXCEPT !.op = "open", !.of = a])
ReadBatch(r, n) ==
    Eligible("FINAL") /\ Receive(r, [NoRequest EXCEPT !.op = "batch", !.pieces = n])

\* finalize: of a single activity, or of the latest attempt at a batch
ReadJudge(r, x, outcome) ==
    /\ job.status # "CANCELLED"
    /\ \/ x \in Activity /\ single[x] = "DRAFT"
       \/ x \in Batch /\ batch[x].attempt = "DRAFT"
    /\ Receive(r, [NoRequest EXCEPT !.op = "judge", !.of = x, !.outcome = outcome])

\* reject and cancel read nothing before they hold the lock
ReadDecide(r, op, b) ==
    batch[b].disposition # "NONE" /\ Receive(r, [NoRequest EXCEPT !.op = op, !.of = b])

\* the prepared quantity is not lowered below what final inspection has taken
Covered(prepared) == Committed(batch) <= prepared

\* what a transaction checks again once it holds its locks
\* fault: the version of the order is trusted from before the transaction
Admitted_at_any_version(q) ==
    CASE q.op = "undo"    -> Undoable(q.at) /\ ~Inspected(q.at)
      [] q.op = "mark"    -> Markable
      [] q.op = "prepare" -> Covered(q.pieces)
      [] OTHER            -> TRUE
\* fault: the undo counts no final batches under the lock
Admitted_without_recount(q) ==
    /\ q.current
    /\ CASE q.op = "undo"    -> Undoable(q.at)
         [] q.op = "mark"    -> Markable
         [] q.op = "prepare" -> Covered(q.pieces)
         [] OTHER            -> TRUE
Admitted(q) ==
    /\ q.current
    /\ CASE q.op = "undo"    -> Undoable(q.at) /\ ~Inspected(q.at)
         [] q.op = "mark"    -> Markable
         [] q.op = "prepare" -> Covered(q.pieces)
         [] OTHER            -> TRUE

Versioned == {"start", "complete", "undo", "mark", "prepare"}

\* the locks are taken and the rows read; writes of others still come between
\* this and the commit, when they hold another lock
Begin(r) ==
    LET q == req[r] IN
    /\ q.phase = "read" /\ q.op \in Versioned
    /\ \A l \in Locks(q) : Free(l)
    /\ req' = IF Admitted(q)
              THEN [req EXCEPT ![r].phase = "begun", ![r].status = job.status]
              ELSE [req EXCEPT ![r] = NoRequest]
    /\ UNCHANGED <<job, stage, single, batch>>

-----------------------------------------------------------------------------
(* The job order's side *)

Transition(from, to) ==
    /\ job.status \in from /\ Free("job-order")
    /\ job' = [job EXCEPT !.status = to]
    /\ req' = JobWritten(req)
    /\ UNCHANGED <<stage, single, batch>>

SendJobOrderToFactory == Transition({"DRAFT"}, "SENT_TO_FACTORY")
ConfirmJobOrder       == Transition({"SENT_TO_FACTORY"}, "CONFIRMED_BY_FACTORY")
CancelJobOrder ==
    Transition({"DRAFT", "SENT_TO_FACTORY", "CONFIRMED_BY_FACTORY"}, "CANCELLED")

Committing(r, op) == req[r].phase = "begun" /\ req[r].op = op
Finished(r) == JobWritten([req EXCEPT ![r] = NoRequest])

\* recalculateJobOrderStatus, of a job order as it is: promote it, and close the
\* last stage when it is the only one open
Promotable(j, bs) == j.status = "IN_PRODUCTION" /\ FullyResolved(j.prepared, bs)
Promoted(j) == [j EXCEPT !.status = "PRODUCTION_COMPLETE", !.audit = "AUTOMATIC"]
AutoClosed(st) == IF Open(st) = {Stages} THEN [st EXCEPT ![Stages] = "COMPLETED"] ELSE st
Recalculated(j, st) ==
    /\ job'   = IF Promotable(j, batch) THEN Promoted(j) ELSE j
    /\ stage' = IF Promotable(j, batch) THEN AutoClosed(st) ELSE st

\* a stage found in progress is answered as started
StartProductionStage(r) ==
    LET s == req[r].at IN
    /\ Committing(r, "start")
    /\ \/ /\ stage[s] = "NOT_STARTED"
          /\ stage' = [stage EXCEPT ![s] = "IN_PROGRESS"]
          /\ job' = [job EXCEPT !.status = "IN_PRODUCTION"]
          /\ req' = Finished(r)
       \/ /\ stage[s] # "NOT_STARTED"
          /\ req' = [req EXCEPT ![r] = NoRequest]
          /\ UNCHANGED <<job, stage>>
    /\ UNCHANGED <<single, batch>>

\* completeStageStatusRow is conditional: a stage the recalculation of another
\* transaction has closed meanwhile fails the request
CompleteProductionStage(r) ==
    LET s == req[r].at IN
    /\ Committing(r, "complete")
    /\ \/ /\ stage[s] # "COMPLETED"
          /\ Recalculated([job EXCEPT !.status = "IN_PRODUCTION"],
                          [stage EXCEPT ![s] = "COMPLETED"])
          /\ req' = Finished(r)
       \/ /\ stage[s] = "COMPLETED"
          /\ req' = [req EXCEPT ![r] = NoRequest]
          /\ UNCHANGED <<job, stage>>
    /\ UNCHANGED <<single, batch>>

UndoCompletedProductionStage(r) ==
    LET s == req[r].at IN
    /\ Committing(r, "undo")
    /\ stage' = [stage EXCEPT ![s] = "IN_PROGRESS"]
    /\ job' = IF s = Stages /\ req[r].status = "PRODUCTION_COMPLETE"
              THEN [job EXCEPT !.status = "IN_PRODUCTION"] ELSE job
    /\ req' = Finished(r)
    /\ UNCHANGED <<single, batch>>

MarkJobOrderProductionComplete(r) ==
    /\ Committing(r, "mark")
    /\ job' = [job EXCEPT !.status = "PRODUCTION_COMPLETE", !.audit = "MANUAL"]
    /\ req' = Finished(r)
    /\ UNCHANGED <<stage, single, batch>>

\* writes back the status it read along with the quantity
UpdatePreparedQuantity(r) ==
    /\ Committing(r, "prepare")
    /\ Recalculated([job EXCEPT !.prepared = req[r].pieces, !.status = req[r].status], stage)
    /\ req' = Finished(r)
    /\ UNCHANGED <<single, batch>>

-----------------------------------------------------------------------------
(* The quality side *)

\* start, of an activity of one execution; a draft is answered, not started again
StartActivity(r) ==
    LET a == req[r].of IN
    /\ req[r].phase = "read" /\ req[r].op = "open" /\ Free("qa-accounting")
    /\ single' = IF Startable(a) THEN [single EXCEPT ![a] = "DRAFT"] ELSE single
    /\ req' = [req EXCEPT ![r] = NoRequest]
    /\ UNCHANGED <<job, stage, batch>>

FinalizeActivity(r) ==
    LET a == req[r].of IN
    /\ req[r].phase = "read" /\ req[r].op = "judge" /\ a \in Activity
    /\ Free("qa-accounting")
    /\ single' = IF req[r].current THEN [single EXCEPT ![a] = req[r].outcome] ELSE single
    /\ req' = AttemptWritten([req EXCEPT ![r] = NoRequest], a)
    /\ UNCHANGED <<job, stage, batch>>

\* one draft attempt at a time when a batch starts; a repeat is answered with it
StartFinalPhysicalBatch(r) ==
    LET n == req[r].pieces IN
    /\ req[r].phase = "read" /\ req[r].op = "batch" /\ Free("qa-accounting")
    /\ \/ /\ \A b \in Batch : batch[b].attempt # "DRAFT"
          /\ n <= job.prepared - Committed(batch)
          /\ \E b \in Batch :
               /\ batch[b].disposition = "NONE"
               /\ batch' = [batch EXCEPT ![b] = [quantity |-> n, disposition |-> "DRAFT",
                                                 attempt |-> "DRAFT", untouched |-> TRUE]]
       \/ /\ \/ \E b \in Batch : batch[b].attempt = "DRAFT"
             \/ n > job.prepared - Committed(batch)
          /\ UNCHANGED batch
    /\ req' = [req EXCEPT ![r] = NoRequest]
    /\ UNCHANGED <<job, stage, single>>

\* saveDraft: a new version of the attempt
SaveDraft(b) ==
    /\ batch[b].attempt = "DRAFT" /\ Free("qa-accounting")
    /\ batch' = [batch EXCEPT ![b].untouched = FALSE]
    /\ req' = AttemptWritten(req, b)
    /\ UNCHANGED <<job, stage, single>>

StartFinalBatchReinspection(b) ==
    /\ batch[b].disposition = "AWAITING_REINSPECTION" /\ batch[b].attempt = "FAIL"
    /\ Free("qa-accounting")
    /\ batch' = [batch EXCEPT ![b].attempt = "DRAFT", ![b].untouched = TRUE]
    /\ UNCHANGED <<job, stage, single, req>>

\* what a decision makes of the batch
Decided(q) ==
    LET b == batch[q.of] IN
    CASE q.op = "judge"  -> [b EXCEPT !.attempt = q.outcome,
                                      !.disposition = IF q.outcome = "PASS" THEN "RELEASED"
                                                      ELSE "AWAITING_REINSPECTION"]
      [] q.op = "reject" -> [b EXCEPT !.disposition = "PERMANENTLY_REJECTED"]
      [] q.op = "cancel" -> [b EXCEPT !.attempt = "CANCELLED", !.disposition = "CANCELLED"]

Released == {b \in Batch : batch[b].disposition = "RELEASED"}
\* fault: a batch under reinspection may be rejected, or cancelled once inspected
Decidable_while_inspected(q) ==
    LET b == batch[q.of] IN
    CASE q.op = "judge"  ->
           /\ q.current /\ b.attempt = "DRAFT"
           /\ q.outcome = "PASS" =>
                Sum(Quantities(batch), Released) + b.quantity <= Ordered
      [] q.op = "reject" -> b.disposition = "AWAITING_REINSPECTION"
      [] q.op = "cancel" -> b.disposition = "DRAFT" /\ b.attempt = "DRAFT" /\ b.untouched
\* finalize wants the attempt it read and what is released within the order;
\* rejecting wants the latest attempt failed, cancelling wants it untouched
Decidable(q) ==
    LET b == batch[q.of] IN
    CASE q.op = "judge"  ->
           /\ q.current /\ b.attempt = "DRAFT"
           /\ q.outcome = "PASS" =>
                Sum(Quantities(batch), Released) + b.quantity <= Ordered
      [] q.op = "reject" -> b.disposition = "AWAITING_REINSPECTION" /\ b.attempt = "FAIL"
      [] q.op = "cancel" -> b.disposition = "DRAFT" /\ b.attempt = "DRAFT" /\ b.untouched

\* A decision holds the accounting lock, writes its batch and recalculates the
\* order from what it then reads: the version it saw guards the promotion.
BeginDecision(r) ==
    LET q == req[r] IN
    /\ q.phase = "read" /\ q.op \in {"judge", "reject", "cancel"} /\ q.of \in Batch
    /\ Free("qa-accounting")
    /\ req' = IF Decidable(q)
              THEN [req EXCEPT ![r].phase = "begun", ![r].current = TRUE, ![r].promote =
                      Promotable(job, [batch EXCEPT ![q.of] = Decided(q)])]
              ELSE [req EXCEPT ![r] = NoRequest]
    /\ UNCHANGED <<job, stage, single, batch>>

DecideBatch(r) ==
    LET q == req[r]
        others == AttemptWritten([req EXCEPT ![r] = NoRequest], q.of)
        promoted == q.promote /\ q.current
    IN
    /\ q.phase = "begun" /\ q.op \in {"judge", "reject", "cancel"}
    /\ batch' = [batch EXCEPT ![q.of] = Decided(q)]
    /\ job'   = IF promoted THEN Promoted(job) ELSE job
    /\ stage' = IF promoted THEN AutoClosed(stage) ELSE stage
    /\ req'   = IF promoted THEN JobWritten(others) ELSE others
    /\ UNCHANGED single

Next ==
    \/ SendJobOrderToFactory \/ ConfirmJobOrder \/ CancelJobOrder
    \/ \E r \in Request :
         \/ \E s \in 1 .. Stages : ReadStage(r, s) \/ ReadUndo(r, s)
         \/ ReadMark(r)
         \/ \E n \in 0 .. Ordered : ReadPrepare(r, n)
         \/ \E n \in 1 .. Ordered : ReadBatch(r, n)
         \/ \E a \in Activity : ReadOpen(r, a)
         \/ \E x \in Activity \cup Batch, o \in Outcome : ReadJudge(r, x, o)
         \/ \E b \in Batch : ReadDecide(r, "reject", b) \/ ReadDecide(r, "cancel", b)
         \/ Begin(r)
         \/ StartProductionStage(r) \/ CompleteProductionStage(r)
         \/ UndoCompletedProductionStage(r) \/ MarkJobOrderProductionComplete(r)
         \/ UpdatePreparedQuantity(r)
         \/ StartActivity(r) \/ FinalizeActivity(r)
         \/ StartFinalPhysicalBatch(r) \/ BeginDecision(r) \/ DecideBatch(r)
    \/ \E b \in Batch : SaveDraft(b) \/ StartFinalBatchReinspection(b)

Spec == Init /\ [][Next]_vars

-----------------------------------------------------------------------------
(* Properties *)

\* No more pieces are put through final inspection than the factory prepared,
\* nor prepared than were ordered: a piece that was rejected for good is not
\* inspected a second time as if it were another one.
PreparedCoversBatches ==
    /\ Sum(Quantities(batch), Live(batch)) <= job.prepared
    /\ job.prepared <= Ordered

\* Production goes through its stages in order, behind its gates and its inline
\* inspection, and has started exactly when the order says so: a start that
\* races an undo, or the order's cancelling, does not get past it.  It holds of
\* flows whose final inspection is associated with the last stage; of others the
\* last stage may be closed while the one before it is being undone.
StagesInOrder ==
    /\ \A s \in 1 .. Stages : stage[s] # "NOT_STARTED" =>
         /\ GatesSatisfied
         /\ \A t \in 1 .. s - 1 : stage[t] = "COMPLETED"
    /\ stage[InlineAt] = "COMPLETED" /\ InlineAt < Stages => single["INLINE"] = "PASS"
    /\ job.status \in {"IN_PRODUCTION", "PRODUCTION_COMPLETE"} <=> stage[1] # "NOT_STARTED"

\* Also when final inspection is associated with an earlier stage, and completion
\* closes the last one, no stage is started past a gate or before an earlier one.
Started(s) == stage[s] # "NOT_STARTED"
NoStageSkipped ==
    /\ \A s \in 1 .. Stages : Started(s) =>
         GatesSatisfied /\ \A t \in 1 .. s - 1 : Started(t)
    /\ stage[InlineAt] = "COMPLETED" /\ InlineAt < Stages => single["INLINE"] = "PASS"
    /\ job.status \in {"IN_PRODUCTION", "PRODUCTION_COMPLETE"} <=> Started(1)

\* A batch's disposition is what its latest attempt came to: released on a PASS,
\* rejected on a FAIL nobody is inspecting again, cancelled before any inspection.
DispositionIsEarned ==
    \A b \in Batch :
      CASE batch[b].disposition = "NONE"                 -> batch[b].attempt = "NONE"
        [] batch[b].disposition = "DRAFT"                -> batch[b].attempt = "DRAFT"
        [] batch[b].disposition = "AWAITING_REINSPECTION"-> batch[b].attempt \in {"FAIL", "DRAFT"}
        [] batch[b].disposition = "RELEASED"             -> batch[b].attempt = "PASS"
        [] batch[b].disposition = "PERMANENTLY_REJECTED" -> batch[b].attempt = "FAIL"
        [] batch[b].disposition = "CANCELLED" -> batch[b].attempt = "CANCELLED" /\ batch[b].untouched

\* An order the system itself declared complete has every ordered piece released
\* or rejected, and stays so whatever runs beside it.
CompleteIsResolved ==
    job.status = "PRODUCTION_COMPLETE" /\ job.audit = "AUTOMATIC" =>
      /\ job.prepared = Ordered
      /\ \A b \in Live(batch) : batch[b].disposition \in {"RELEASED", "PERMANENTLY_REJECTED"}
      /\ Sum(Quantities(batch), Live(batch)) = Ordered

\* The last stage is reopened only while nothing of it is in final inspection,
\* also when a batch is started while the undo is under way.
UndoneBeforeInspection ==
    [][stage[Stages] = "COMPLETED" /\ stage'[Stages] # "COMPLETED" => Live(batch) = {}]_vars

\* "A live in-progress stage record left hanging under a terminal production
\* status would be an inconsistent state."  It does not hold: an earlier stage is
\* undone after the order was marked complete, and its order stays complete.
NoLiveStageUnderCompletion ==
    job.status = "PRODUCTION_COMPLETE" => \A s \in 1 .. Stages : stage[s] # "IN_PROGRESS"

\* Only an undo takes the completion back.  It does not hold: an update of the
\* prepared quantity writes back the status it read before the merchandiser's mark.
MarkedStaysComplete ==
    [][job.status = "PRODUCTION_COMPLETE" /\ job'.status # "PRODUCTION_COMPLETE"
         => \E s \in 1 .. Stages : stage[s] = "COMPLETED" /\ stage'[s] # "COMPLETED"]_vars

\* With no request running, a resolved order is complete.  It does not hold: the
\* release and a stage completion beside it each miss what the other wrote.
ResolvedIsPromoted ==
    (\A r \in Request : req[r].phase # "begun") /\ job.status = "IN_PRODUCTION"
      => ~FullyResolved(job.prepared, batch)

\* "A cancelled Job Order can never newly start any Quality activity."  It does
\* not hold: the order is cancelled between that check and the new execution.
NothingStartsOnCancelled ==
    [][job.status = "CANCELLED" => single' = single]_vars
=============================================================================
