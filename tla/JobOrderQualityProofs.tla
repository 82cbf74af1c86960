------------------------- MODULE JobOrderQualityProofs -------------------------
(***************************************************************************)
(* One job order, its stages and its final inspection, for any batches,    *)
(* requests, process flow and ordered quantity.                            *)
(***************************************************************************)
EXTENDS JobOrderQuality, SumTheorems

-----------------------------------------------------------------------------
(* The inductive invariant *)

Decision == {"judge", "reject", "cancel"}

\* Two transactions under way hold different locks.
LocksExclusive ==
    \A r, u \in Request :
        r # u /\ req[r].phase = "begun" /\ req[u].phase = "begun" =>
            Locks(req[r]) \cap Locks(req[u]) = {}

Formed(q) ==
    /\ q.op \in {"start", "complete", "undo"} => q.at \in 1 .. Stages
    /\ q.op = "batch" => q.pieces \in 1 .. Ordered
    /\ q.op = "open" => q.of \in Activity
    /\ q.op = "judge" => q.of \in Activity \cup Batch /\ q.outcome \in Outcome
    /\ q.op \in {"reject", "cancel"} => q.of \in Batch
    /\ q.phase = "begun" => q.op \in Versioned \/ (q.op \in Decision /\ q.of \in Batch)

\* every ordered piece is released or rejected
Settled ==
    /\ \A b \in Live(batch) : Resolved(batch[b].disposition)
    /\ Committed(batch) = Ordered

\* What a request read still holds when its version is current, or is for good.
ReadHolds(q) ==
    /\ q.op \in {"start", "complete"} /\ q.current =>
         Workable /\ NextStage(q.at) /\ GatesSatisfied
    /\ q.op = "complete" /\ q.current =>
         stage[q.at] = "IN_PROGRESS" /\ (q.at = InlineAt => single["INLINE"] = "PASS")
    /\ q.op \in {"prepare", "batch"} => Started(FinalAt)
    /\ q.op = "judge" /\ q.current /\ q.of \in Activity => single[q.of] = "DRAFT"

\* What a transaction of the job order's side found holds until it commits,
\* whatever the quality side writes meanwhile.
StageHolds(q) ==
    /\ q.op \in {"start", "complete"} =>
         GatesSatisfied /\ \A t \in 1 .. q.at - 1 : stage[t] = "COMPLETED"
    /\ q.op \in {"complete", "undo"} => Started(q.at)
    /\ q.op = "complete" /\ q.at = InlineAt => single["INLINE"] = "PASS"
    /\ q.op = "undo" /\ q.at = Stages => Live(batch) = {}
    /\ q.op = "undo" /\ FinalAt = Stages => \A t \in q.at + 1 .. Stages : ~Started(t)
    /\ q.op \in {"mark", "prepare"} => Started(1)

\* The same of the two kinds of transactions of the quality side.
PrepareHolds(q) ==
    q.op = "prepare" =>
      /\ q.status \in {"IN_PRODUCTION", "PRODUCTION_COMPLETE"}
      /\ Committed(batch) <= q.pieces
      /\ q.status = "PRODUCTION_COMPLETE" /\ job.audit = "AUTOMATIC" => Settled

DecisionHolds(q) ==
    LET b == batch[q.of] IN
    /\ q.op = "judge" => b.attempt = "DRAFT"
    /\ q.op = "reject" => b.disposition = "AWAITING_REINSPECTION" /\ b.attempt = "FAIL"
    /\ q.op = "cancel" => b.disposition = "DRAFT" /\ b.attempt = "DRAFT" /\ b.untouched
    /\ q.op \in Decision /\ q.promote /\ q.current =>
         Promotable(job, [batch EXCEPT ![q.of] = Decided(q)])

RequestHolds(r) ==
    LET q == req[r] IN
    /\ q.phase # "idle" => Formed(q)
    /\ q.phase = "read" => ReadHolds(q)
    /\ q.phase = "begun" => StageHolds(q) /\ PrepareHolds(q) /\ DecisionHolds(q)

\* Production, whatever stage final inspection is associated with: a started
\* stage has only started stages before it, completed ones when inspection is
\* associated with the last.
Production ==
    /\ \A s \in 1 .. Stages : Started(s) =>
         /\ GatesSatisfied
         /\ \A t \in 1 .. s - 1 : Started(t) /\ (FinalAt = Stages => stage[t] = "COMPLETED")
    /\ stage[InlineAt] = "COMPLETED" /\ InlineAt < Stages => single["INLINE"] = "PASS"
    /\ job.status \in {"IN_PRODUCTION", "PRODUCTION_COMPLETE"} <=> Started(1)
    /\ \A b \in Batch : batch[b].disposition # "NONE" => Started(FinalAt)

IInv ==
    /\ TypeOK /\ LocksExclusive
    /\ \A r \in Request : RequestHolds(r)
    /\ Production
    /\ PreparedCoversBatches /\ DispositionIsEarned /\ CompleteIsResolved

-----------------------------------------------------------------------------
(* Types *)

JobRow == [status : JobStatus, prepared : 0 .. Ordered, audit : {"none", "AUTOMATIC", "MANUAL"}]
StageMap == [1 .. Stages -> {"NOT_STARTED", "IN_PROGRESS", "COMPLETED"}]
BatchRow == [quantity : 0 .. Ordered, disposition : Disposition, attempt : Attempt,
             untouched : BOOLEAN]
BatchMap == [Batch -> BatchRow]

LEMMA Typed ==
    TypeOK <=> /\ job \in JobRow /\ stage \in StageMap /\ single \in [Activity -> Attempt]
               /\ batch \in BatchMap /\ req \in [Request -> RequestRow]
  BY DEF TypeOK, JobRow, StageMap, BatchMap, BatchRow

LEMMA TypedNext ==
    TypeOK' <=> /\ job' \in JobRow /\ stage' \in StageMap /\ single' \in [Activity -> Attempt]
                /\ batch' \in BatchMap /\ req' \in [Request -> RequestRow]
  BY DEF TypeOK, JobRow, StageMap, BatchMap, BatchRow

LEMMA Consts == /\ Stages \in Nat /\ 1 <= Stages /\ Ordered \in Nat /\ 1 <= Ordered
                /\ InlineAt \in 1 .. Stages /\ FinalAt \in 1 .. Stages
                /\ 1 \in 1 .. Stages /\ Stages \in 1 .. Stages
                /\ IsFiniteSet(Batch)
  BY FlowAssumption, BatchAssumption

LEMMA NoRequestTyped == NoRequest \in RequestRow
  BY Consts DEF NoRequest, RequestRow, JobStatus

\* u is the request q, its version perhaps found stale
Same(q, u) == u = q \/ u = [q EXCEPT !.current = FALSE]

LEMMA SameIs ==
    ASSUME NEW q \in RequestRow, NEW u, Same(q, u)
    PROVE  /\ u \in RequestRow
           /\ u.op = q.op /\ u.at = q.at /\ u.of = q.of /\ u.pieces = q.pieces
           /\ u.outcome = q.outcome /\ u.phase = q.phase /\ u.status = q.status
           /\ u.promote = q.promote /\ (u.current => q.current)
  BY DEF Same, RequestRow

LEMMA JobWrittenIs ==
    ASSUME NEW rs \in [Request -> RequestRow]
    PROVE  /\ JobWritten(rs) \in [Request -> RequestRow]
           /\ \A r \in Request :
                /\ Same(rs[r], JobWritten(rs)[r])
                /\ (rs[r].op \in JobOps \cup {"prepare"} \/ rs[r].phase = "begun")
                     => ~JobWritten(rs)[r].current
<1>1. \A r \in Request : rs[r] \in RequestRow
  OBVIOUS
<1>2. \A q \in RequestRow : [q EXCEPT !.current = FALSE] \in RequestRow
                            /\ ~[q EXCEPT !.current = FALSE].current
  BY DEF RequestRow
<1> QED
  BY <1>1, <1>2 DEF JobWritten, Same

LEMMA AttemptWrittenIs ==
    ASSUME NEW rs \in [Request -> RequestRow], NEW x
    PROVE  /\ AttemptWritten(rs, x) \in [Request -> RequestRow]
           /\ \A r \in Request :
                /\ Same(rs[r], AttemptWritten(rs, x)[r])
                /\ rs[r].op = "judge" /\ rs[r].phase = "read" /\ rs[r].of = x
                     => ~AttemptWritten(rs, x)[r].current
<1>1. \A r \in Request : rs[r] \in RequestRow
  OBVIOUS
<1>2. \A q \in RequestRow : [q EXCEPT !.current = FALSE] \in RequestRow
                            /\ ~[q EXCEPT !.current = FALSE].current
  BY DEF RequestRow
<1> QED
  BY <1>1, <1>2 DEF AttemptWritten, Same

\* A request that ends leaves the others with their rows.
LEMMA EndedIs ==
    ASSUME NEW rs \in [Request -> RequestRow], NEW r \in Request
    PROVE  /\ [rs EXCEPT ![r] = NoRequest] \in [Request -> RequestRow]
           /\ [rs EXCEPT ![r] = NoRequest][r] = NoRequest
           /\ \A u \in Request \ {r} : [rs EXCEPT ![r] = NoRequest][u] = rs[u]
  BY NoRequestTyped

LEMMA NoRequestIsIdle == /\ NoRequest.phase = "idle" /\ ~NoRequest.current
                         /\ NoRequest.op = "none" /\ \A u : Same(NoRequest, u) => u = NoRequest
<1>1. NoRequest.phase = "idle" /\ ~NoRequest.current /\ NoRequest.op = "none"
  BY DEF NoRequest
<1>2. ASSUME NEW q \in RequestRow, ~q.current PROVE [q EXCEPT !.current = FALSE] = q
  BY <1>2 DEF RequestRow
<1>3. [NoRequest EXCEPT !.current = FALSE] = NoRequest
  BY <1>1, <1>2, NoRequestTyped
<1> QED
  BY <1>1, <1>3 DEF Same

LEMMA LocksAre ==
    \A q : /\ "job-order" \in Locks(q) <=> q.op \in JobOps
           /\ "qa-accounting" \in Locks(q) <=> (q.op \notin JobOps \/ (q.op = "undo" /\ q.at = Stages))
           /\ Locks(q) \subseteq {"job-order", "qa-accounting"}
  BY DEF Locks, JobOps

-----------------------------------------------------------------------------
(* What is committed to final inspection *)

Counts(row) == row.disposition \notin {"NONE", "CANCELLED"}
Share(row) == IF Counts(row) THEN row.quantity ELSE 0

LEMMA CommittedIs ==
    ASSUME NEW bs \in BatchMap
    PROVE  /\ Committed(bs) = Sum([b \in Batch |-> Share(bs[b])], Batch)
           /\ Committed(bs) \in Nat
<1>1. \A b \in Batch : bs[b].quantity \in Nat
  BY Consts DEF BatchMap, BatchRow
<1>2. PICK f, g, L : f = Quantities(bs) /\ g = [b \in Batch |-> Share(bs[b])] /\ L = Live(bs)
  OBVIOUS
<1>3. /\ L \in SUBSET Batch
      /\ \A b \in L : f[b] \in Nat /\ g[b] = f[b]
      /\ \A b \in Batch \ L : g[b] = 0
  BY <1>1, <1>2 DEF Quantities, Share, Counts, Live
<1>4. \A b \in L : f[b] \in Int
  BY <1>3
<1>5. Sum(g, Batch) = Sum(f, L)
  BY ONLY <1>3, <1>4, Consts, SumWhere
<1>6. IsFiniteSet(L)
  BY <1>3, Consts, FS_Subset
<1>7. Sum(f, L) \in Nat
  BY ONLY <1>3, <1>6, SumNat
<1> QED
  BY <1>2, <1>5, <1>7 DEF Committed

LEMMA CommittedChange ==
    ASSUME NEW bs \in BatchMap, NEW b \in Batch, NEW row \in BatchRow
    PROVE  /\ [bs EXCEPT ![b] = row] \in BatchMap
           /\ Committed([bs EXCEPT ![b] = row]) = Committed(bs) - Share(bs[b]) + Share(row)
           /\ Share(row) \in Nat /\ Share(bs[b]) \in Nat
           /\ Committed(bs) \in Nat /\ Committed([bs EXCEPT ![b] = row]) \in Nat
<1>1. PICK cs : cs = [bs EXCEPT ![b] = row]
  OBVIOUS
<1>2. cs \in BatchMap /\ cs[b] = row /\ \A x \in Batch \ {b} : cs[x] = bs[x]
  BY <1>1 DEF BatchMap
<1>3. \A x \in Batch : Share(bs[x]) \in Nat /\ Share(cs[x]) \in Nat
  BY <1>2, Consts DEF BatchMap, BatchRow, Share
<1>4. PICK f, g : f = [x \in Batch |-> Share(bs[x])] /\ g = [x \in Batch |-> Share(cs[x])]
  OBVIOUS
<1>5. /\ \A x \in Batch : f[x] \in Int /\ g[x] \in Int
      /\ \A x \in Batch \ {b} : g[x] = f[x]
      /\ f[b] = Share(bs[b]) /\ g[b] = Share(row)
  BY <1>2, <1>3, <1>4
<1>6. Sum(g, Batch) = Sum(f, Batch) - f[b] + g[b]
  BY ONLY <1>5, Consts, SumChange
<1>7. Committed(bs) = Sum(f, Batch) /\ Committed(bs) \in Nat
  BY <1>4, CommittedIs
<1>8. Committed(cs) = Sum(g, Batch) /\ Committed(cs) \in Nat
  BY <1>2, <1>4, CommittedIs
<1> QED
  BY <1>1, <1>2, <1>3, <1>5, <1>6, <1>7, <1>8

\* A batch's disposition follows from its latest attempt.
Earned(row) ==
    CASE row.disposition = "NONE"                  -> row.attempt = "NONE"
      [] row.disposition = "DRAFT"                 -> row.attempt = "DRAFT"
      [] row.disposition = "AWAITING_REINSPECTION" -> row.attempt \in {"FAIL", "DRAFT"}
      [] row.disposition = "RELEASED"              -> row.attempt = "PASS"
      [] row.disposition = "PERMANENTLY_REJECTED"  -> row.attempt = "FAIL"
      [] row.disposition = "CANCELLED" -> row.attempt = "CANCELLED" /\ row.untouched

LEMMA EarnedIs ==
    /\ DispositionIsEarned <=> \A b \in Batch : Earned(batch[b])
    /\ DispositionIsEarned' <=> \A b \in Batch : Earned(batch'[b])
  BY DEF DispositionIsEarned, Earned

\* A batch in inspection or awaiting another is live, and keeps an order from being settled.
LEMMA UnresolvedBatch ==
    ASSUME TypeOK, DispositionIsEarned, NEW b \in Batch,
           batch[b].attempt = "DRAFT" \/ batch[b].disposition = "AWAITING_REINSPECTION"
    PROVE  /\ batch[b].disposition \in {"DRAFT", "AWAITING_REINSPECTION"}
           /\ b \in Live(batch) /\ ~Settled /\ Counts(batch[b])
<1>1. batch[b] \in BatchRow
  BY Typed DEF BatchMap
<1>2. batch[b].disposition \in {"DRAFT", "AWAITING_REINSPECTION"}
  BY <1>1, EarnedIs DEF Earned, BatchRow, Disposition
<1> QED
  BY <1>2 DEF Live, Settled, Resolved, Counts

\* The properties in terms of what is committed.
LEMMA PropertiesAre ==
    /\ PreparedCoversBatches <=> Committed(batch) <= job.prepared /\ job.prepared <= Ordered
    /\ CompleteIsResolved <=>
         (job.status = "PRODUCTION_COMPLETE" /\ job.audit = "AUTOMATIC" =>
            job.prepared = Ordered /\ Settled)
    /\ PreparedCoversBatches' <=> Committed(batch') <= job'.prepared /\ job'.prepared <= Ordered
    /\ CompleteIsResolved' <=>
         (job'.status = "PRODUCTION_COMPLETE" /\ job'.audit = "AUTOMATIC" =>
            job'.prepared = Ordered /\ Settled')
  BY DEF PreparedCoversBatches, CompleteIsResolved, Committed, Settled, Resolved

-----------------------------------------------------------------------------
(* Steps and the requests they do not belong to *)

\* What a step leaves of the activities that are done with.
Passed ==
    /\ \A a \in Activity : single[a] = "PASS" => single'[a] = "PASS"
    /\ single["MEETING"] \in Outcome => single'["MEETING"] \in Outcome

LEMMA PassedIs ==
    /\ Passed => (GatesSatisfied => GatesSatisfied')
    /\ Passed => \A a \in Activity : single[a] = "PASS" => single'[a] = "PASS"
    /\ single' = single => Passed
  BY DEF Passed, GatesSatisfied, Activity, Gate

\* What a step leaves to the requests outside A.
Frame(A) ==
    /\ \A r \in Request \ A : Same(req[r], req'[r])
    /\ \A r \in Request \ A :
         req'[r].current /\ (req[r].op \in JobOps \/ req[r].phase = "begun")
           => job' = job /\ stage' = stage
    /\ \A r \in Request \ A :
         req'[r].current /\ req[r].op = "judge" /\ req[r].phase = "read" /\ req[r].of \in Activity
           => single'[req[r].of] = single[req[r].of]
    /\ \A s \in 1 .. Stages : Started(s) => Started(s)'
    /\ Passed
    /\ \A r \in Request \ A : req[r].phase = "begun" /\ req[r].op \in JobOps =>
         \A s \in 1 .. Stages :
           \/ stage'[s] = stage[s]
           \/ stage'[s] = "COMPLETED" /\ (~Started(s) => s = Stages /\ Started(FinalAt))
    /\ \A r \in Request \ A : req[r].phase = "begun" /\ "qa-accounting" \in Locks(req[r]) =>
         /\ batch' = batch
         /\ job'.audit = "AUTOMATIC" => job.audit = "AUTOMATIC" \/ Settled

LEMMA FrameKeepsReads ==
    ASSUME IInv, TypeOK', NEW A \in SUBSET Request, Frame(A),
           NEW r \in Request \ A, req[r].phase = "read"
    PROVE  ReadHolds(req[r])'
<1>1. PICK q, u : q = req[r] /\ u = req'[r]
  OBVIOUS
<1>2. q \in RequestRow /\ Same(q, u) /\ q.phase = "read" /\ ReadHolds(q) /\ Formed(q)
  BY <1>1, Typed DEF IInv, RequestHolds, Frame
<1>3. u.op = q.op /\ u.at = q.at /\ u.of = q.of /\ (u.current => q.current)
  BY ONLY <1>2, SameIs
<1>4. /\ u.current /\ q.op \in JobOps => job' = job /\ stage' = stage
      /\ u.current /\ q.op = "judge" /\ q.of \in Activity => single'[q.of] = single[q.of]
      /\ \A s \in 1 .. Stages : Started(s) => Started(s)'
      /\ single["INLINE"] = "PASS" => single'["INLINE"] = "PASS"
      /\ GatesSatisfied => GatesSatisfied'
  BY <1>1, <1>2, PassedIs DEF Frame, Activity
<1>5. u.op \in {"start", "complete"} /\ u.current =>
        (Workable /\ NextStage(u.at) /\ GatesSatisfied)'
  BY <1>2, <1>3, <1>4 DEF ReadHolds, Workable, NextStage, Open, JobOps, Activity
<1>6. u.op = "complete" /\ u.current =>
        (stage[u.at] = "IN_PROGRESS" /\ (u.at = InlineAt => single["INLINE"] = "PASS"))'
  BY <1>2, <1>3, <1>4 DEF ReadHolds, JobOps, Activity
<1>7. u.op \in {"prepare", "batch"} => Started(FinalAt)'
  BY <1>2, <1>3, <1>4, Consts DEF ReadHolds
<1>8. u.op = "judge" /\ u.current /\ u.of \in Activity => single'[u.of] = "DRAFT"
  BY <1>2, <1>3, <1>4 DEF ReadHolds
<1> QED
  BY <1>1, <1>5, <1>6, <1>7, <1>8 DEF ReadHolds

LEMMA FrameKeepsStages ==
    ASSUME IInv, TypeOK', NEW A \in SUBSET Request, Frame(A),
           NEW r \in Request \ A, req[r].phase = "begun"
    PROVE  StageHolds(req[r])'
<1>1. PICK q, u : q = req[r] /\ u = req'[r]
  OBVIOUS
<1>2. q \in RequestRow /\ Same(q, u) /\ q.phase = "begun" /\ StageHolds(q) /\ Formed(q)
  BY <1>1, Typed DEF IInv, RequestHolds, Frame
<1>3. u.op = q.op /\ u.at = q.at
  BY ONLY <1>2, SameIs
<1>4. /\ \A s \in 1 .. Stages : Started(s) => Started(s)'
      /\ single["INLINE"] = "PASS" => single'["INLINE"] = "PASS"
      /\ GatesSatisfied => GatesSatisfied'
      /\ q.op \in JobOps => \A s \in 1 .. Stages :
           \/ stage'[s] = stage[s]
           \/ stage'[s] = "COMPLETED" /\ (~Started(s) => s = Stages /\ Started(FinalAt))
      /\ "qa-accounting" \in Locks(q) => batch' = batch
  BY <1>1, <1>2, PassedIs DEF Frame, Activity
<1>5. ASSUME u.op \in {"start", "complete"}
      PROVE  GatesSatisfied' /\ \A t \in 1 .. u.at - 1 : stage'[t] = "COMPLETED"
  <2>1. q.at \in 1 .. Stages /\ q.op \in JobOps
    BY <1>2, <1>3, <1>5 DEF Formed, JobOps
  <2>2. \A t \in 1 .. q.at - 1 : t \in 1 .. Stages
    BY <2>1, Consts
  <2> QED
    BY <1>2, <1>3, <1>4, <1>5, <2>1, <2>2 DEF StageHolds, Activity
<1>6. u.op \in {"complete", "undo"} => Started(u.at)'
  BY <1>2, <1>3, <1>4 DEF StageHolds, Formed
<1>7. u.op = "complete" /\ u.at = InlineAt => single'["INLINE"] = "PASS"
  BY <1>2, <1>3, <1>4 DEF StageHolds, Activity
<1>8. u.op = "undo" /\ u.at = Stages => Live(batch') = {}
  BY <1>2, <1>3, <1>4, LocksAre DEF StageHolds
<1>9. ASSUME u.op = "undo", FinalAt = Stages, NEW t \in u.at + 1 .. Stages PROVE ~Started(t)'
  <2>1. q.at \in 1 .. Stages /\ q.op \in JobOps
    BY <1>2, <1>3, <1>9 DEF Formed, JobOps
  <2>2. t \in 1 .. Stages /\ Stages \in q.at + 1 .. Stages
    BY <1>3, <1>9, <2>1, Consts
  <2>3. ~Started(t) /\ ~Started(FinalAt)
    BY <1>2, <1>3, <1>9, <2>2 DEF StageHolds
  <2>4. stage'[t] = stage[t]
    BY <1>4, <2>1, <2>2, <2>3
  <2> QED
    BY <2>3, <2>4 DEF Started
<1>10. u.op \in {"mark", "prepare"} => Started(1)'
  BY <1>2, <1>3, <1>4, Consts DEF StageHolds
<1> QED
  BY <1>1, <1>5, <1>6, <1>7, <1>8, <1>9, <1>10 DEF StageHolds

LEMMA FrameKeepsPrepare ==
    ASSUME IInv, TypeOK', NEW A \in SUBSET Request, Frame(A),
           NEW r \in Request \ A, req[r].phase = "begun"
    PROVE  PrepareHolds(req[r])'
<1>1. PICK q, u : q = req[r] /\ u = req'[r]
  OBVIOUS
<1>2. q \in RequestRow /\ Same(q, u) /\ q.phase = "begun" /\ PrepareHolds(q)
  BY <1>1, Typed DEF IInv, RequestHolds, Frame
<1>3. u.op = q.op /\ u.status = q.status /\ u.pieces = q.pieces
  BY ONLY <1>2, SameIs
<1>4. "qa-accounting" \in Locks(q) =>
        batch' = batch /\ (job'.audit = "AUTOMATIC" => job.audit = "AUTOMATIC" \/ Settled)
  BY <1>1, <1>2 DEF Frame
<1>5. q.op = "prepare" => "qa-accounting" \in Locks(q)
  BY LocksAre DEF JobOps
<1>6. batch' = batch => (Settled <=> Settled') /\ Committed(batch) = Committed(batch')
  BY DEF Settled
<1> QED
  BY <1>1, <1>2, <1>3, <1>4, <1>5, <1>6 DEF PrepareHolds

LEMMA FrameKeepsDecision ==
    ASSUME IInv, TypeOK', NEW A \in SUBSET Request, Frame(A),
           NEW r \in Request \ A, req[r].phase = "begun"
    PROVE  DecisionHolds(req[r])'
<1>1. PICK q, u : q = req[r] /\ u = req'[r]
  OBVIOUS
<1>2. q \in RequestRow /\ Same(q, u) /\ q.phase = "begun" /\ DecisionHolds(q)
  BY <1>1, Typed DEF IInv, RequestHolds, Frame
<1>3. /\ u.op = q.op /\ u.of = q.of /\ u.outcome = q.outcome /\ u.promote = q.promote
      /\ (u.current => q.current)
  BY ONLY <1>2, SameIs
<1>4. /\ "qa-accounting" \in Locks(q) => batch' = batch
      /\ u.current => job' = job
  BY <1>1, <1>2 DEF Frame
<1>5. q.op \in Decision => "qa-accounting" \in Locks(q)
  BY LocksAre DEF JobOps, Decision
<1>6. CASE q.op \in Decision
  <2>1. batch' = batch
    BY <1>4, <1>5, <1>6
  <2>2. Decided(u)' = Decided(q)
    BY <1>3, <2>1 DEF Decided
  <2>3. u.promote /\ u.current => Promotable(job', [batch' EXCEPT ![u.of] = Decided(u)'])
    BY <1>2, <1>3, <1>4, <1>6, <2>1, <2>2 DEF DecisionHolds, Promotable
  <2> QED
    BY <1>1, <1>2, <1>3, <2>1, <2>3 DEF DecisionHolds
<1>7. CASE q.op \notin Decision
  BY <1>1, <1>3, <1>7 DEF DecisionHolds, Decision
<1> QED
  BY <1>6, <1>7

LEMMA FrameKeepsRequests ==
    ASSUME IInv, TypeOK', NEW A \in SUBSET Request, Frame(A), NEW r \in Request \ A
    PROVE  RequestHolds(r)'
<1>1. PICK q, u : q = req[r] /\ u = req'[r]
  OBVIOUS
<1>2. q \in RequestRow /\ Same(q, u) /\ (q.phase # "idle" => Formed(q))
  BY <1>1, Typed DEF IInv, RequestHolds, Frame
<1>3. u.phase = q.phase /\ u.op = q.op /\ u.at = q.at /\ u.of = q.of /\ u.pieces = q.pieces
      /\ u.outcome = q.outcome
  BY ONLY <1>2, SameIs
<1>4. u.phase # "idle" => Formed(u)'
  BY <1>2, <1>3 DEF Formed
<1>5. u.phase = "read" => ReadHolds(u)'
  BY <1>1, <1>3, FrameKeepsReads
<1>6. u.phase = "begun" => StageHolds(u)' /\ PrepareHolds(u)' /\ DecisionHolds(u)'
  BY <1>1, <1>3, FrameKeepsStages, FrameKeepsPrepare, FrameKeepsDecision
<1> QED
  BY <1>1, <1>4, <1>5, <1>6 DEF RequestHolds

\* A step that begins no transaction keeps the locks apart.
LEMMA FrameKeepsLocks ==
    ASSUME IInv, TypeOK', NEW A \in SUBSET Request, Frame(A),
           \A r \in A : req'[r].phase # "begun"
    PROVE  LocksExclusive'
<1>1. \A r \in Request \ A : req'[r].phase = req[r].phase /\ Locks(req'[r]) = Locks(req[r])
  <2> TAKE r \in Request \ A
  <2>1. req[r] \in RequestRow /\ Same(req[r], req'[r])
    BY Typed DEF IInv, Frame
  <2>2. /\ req'[r].phase = req[r].phase /\ req'[r].op = req[r].op /\ req'[r].at = req[r].at
    BY ONLY <2>1, SameIs
  <2> QED
    BY <2>2 DEF Locks
<1>2. \A r, u \in Request : r # u /\ req[r].phase = "begun" /\ req[u].phase = "begun" =>
            Locks(req[r]) \cap Locks(req[u]) = {}
  BY DEF IInv, LocksExclusive
<1>3. SUFFICES ASSUME NEW r \in Request, NEW u \in Request, r # u,
                      req'[r].phase = "begun", req'[u].phase = "begun"
               PROVE  Locks(req'[r]) \cap Locks(req'[u]) = {}
  BY DEF LocksExclusive, Locks
<1>4. r \notin A /\ u \notin A
  BY <1>3
<1> QED
  BY <1>1, <1>2, <1>3, <1>4

-----------------------------------------------------------------------------
(* Requests that only read *)

Safety == Production /\ PreparedCoversBatches /\ DispositionIsEarned /\ CompleteIsResolved

LEMMA FrameKeepsIInv ==
    ASSUME IInv, TypeOK', NEW A \in SUBSET Request, Frame(A),
           \A r \in A : RequestHolds(r)', LocksExclusive', Safety'
    PROVE  IInv'
<1>1. \A r \in Request : RequestHolds(r)'
  BY FrameKeepsRequests
<1> QED
  BY <1>1 DEF IInv, Safety

LEMMA RowsUnchanged ==
    ASSUME IInv, UNCHANGED <<job, stage, single, batch>>
    PROVE  Safety'
<1>1. Production'
  BY DEF IInv, Production, Started, GatesSatisfied
<1>2. PreparedCoversBatches' /\ DispositionIsEarned' /\ CompleteIsResolved'
  BY DEF IInv, PreparedCoversBatches, DispositionIsEarned, CompleteIsResolved
<1> QED
  BY <1>1, <1>2 DEF Safety

LEMMA RequestStepKeepsIInv ==
    ASSUME IInv, NEW r \in Request, NEW u \in RequestRow, req' = [req EXCEPT ![r] = u],
           UNCHANGED <<job, stage, single, batch>>,
           u.phase # "idle" => Formed(u),
           u.phase = "read" => ReadHolds(u),
           u.phase = "begun" => /\ StageHolds(u) /\ PrepareHolds(u) /\ DecisionHolds(u)
                                /\ \A l \in Locks(u) : Free(l)
    PROVE  IInv'
<1>1. TypeOK'
  BY Typed, TypedNext DEF IInv
<1>2. req'[r] = u /\ \A v \in Request \ {r} : req'[v] = req[v]
  BY Typed DEF IInv
<1>3. Frame({r})
  BY <1>2, PassedIs DEF Frame, Same, Started
<1>4. ReadHolds(u)' <=> ReadHolds(u)
  BY DEF ReadHolds, Workable, NextStage, GatesSatisfied, Open, Started
<1>5. /\ StageHolds(u)' <=> StageHolds(u)
      /\ PrepareHolds(u)' <=> PrepareHolds(u)
      /\ DecisionHolds(u)' <=> DecisionHolds(u)
  <2>1. Decided(u)' = Decided(u) /\ (Settled' <=> Settled)
    BY DEF Decided, Settled
  <2> QED
    BY <2>1 DEF StageHolds, PrepareHolds, DecisionHolds, Started, GatesSatisfied
<1>6. Formed(u)' <=> Formed(u)
  BY DEF Formed
<1>7. RequestHolds(r)'
  BY <1>2, <1>4, <1>5, <1>6 DEF RequestHolds
<1>8. LocksExclusive'
  <2>1. CASE u.phase # "begun"
    BY <1>1, <1>2, <1>3, <2>1, FrameKeepsLocks
  <2>2. CASE u.phase = "begun"
    <3>1. \A v \in Request \ {r} : req[v].phase = "begun" => Locks(req[v]) \cap Locks(u) = {}
      BY <2>2 DEF Free
    <3>2. \A v, w \in Request : v # w /\ req[v].phase = "begun" /\ req[w].phase = "begun" =>
            Locks(req[v]) \cap Locks(req[w]) = {}
      BY DEF IInv, LocksExclusive
    <3>3. SUFFICES ASSUME NEW v \in Request, NEW w \in Request, v # w,
                          req'[v].phase = "begun", req'[w].phase = "begun"
                   PROVE  Locks(req'[v]) \cap Locks(req'[w]) = {}
      BY DEF LocksExclusive, Locks
    <3> QED
      BY <1>2, <3>1, <3>2, <3>3
  <2> QED
    BY <2>1, <2>2
<1>9. Safety'
  BY RowsUnchanged
<1> QED
  BY <1>1, <1>3, <1>7, <1>8, <1>9, FrameKeepsIInv

\* A request that is let in, or refused.
LEMMA ReceiveKeepsIInv ==
    ASSUME IInv, NEW r \in Request, NEW body \in RequestRow, Receive(r, body),
           Formed([body EXCEPT !.phase = "read", !.current = TRUE]),
           ReadHolds([body EXCEPT !.phase = "read", !.current = TRUE])
    PROVE  IInv'
<1>1. PICK u : u = [body EXCEPT !.phase = "read", !.current = TRUE]
  OBVIOUS
<1>2. u \in RequestRow /\ u.phase = "read"
  BY <1>1 DEF RequestRow
<1>3. req' = [req EXCEPT ![r] = u] /\ UNCHANGED <<job, stage, single, batch>>
  BY <1>1 DEF Receive
<1> QED
  BY <1>1, <1>2, <1>3, RequestStepKeepsIInv

LEMMA EndKeepsIInv ==
    ASSUME IInv, NEW r \in Request, req' = [req EXCEPT ![r] = NoRequest],
           UNCHANGED <<job, stage, single, batch>>
    PROVE  IInv'
  BY NoRequestTyped, NoRequestIsIdle, RequestStepKeepsIInv

LEMMA ReadStageKeepsIInv ==
    ASSUME IInv, NEW r \in Request, NEW s \in 1 .. Stages, ReadStage(r, s) PROVE IInv'
<1>1. Workable /\ NextStage(s) /\ GatesSatisfied
  BY DEF ReadStage
<1>2. s \in 0 .. Stages
  BY Consts
<1>3. CASE Receive(r, [NoRequest EXCEPT !.op = "start", !.at = s])
  <2>1. PICK body : body = [NoRequest EXCEPT !.op = "start", !.at = s]
    OBVIOUS
  <2>2. body \in RequestRow /\ body.op = "start" /\ body.at = s
    BY <1>2, <2>1, NoRequestTyped DEF RequestRow
  <2>3. PICK u : u = [body EXCEPT !.phase = "read", !.current = TRUE]
    OBVIOUS
  <2>4. u.op = "start" /\ u.at = s /\ u.phase = "read"
    BY <2>2, <2>3 DEF RequestRow
  <2>5. Formed(u) /\ ReadHolds(u)
    BY <1>1, <2>4 DEF Formed, ReadHolds
  <2> QED
    BY <1>3, <2>1, <2>2, <2>3, <2>5, ReceiveKeepsIInv
<1>4. CASE /\ stage[s] = "IN_PROGRESS" /\ (s = InlineAt => single["INLINE"] = "PASS")
           /\ Receive(r, [NoRequest EXCEPT !.op = "complete", !.at = s])
  <2>1. PICK body : body = [NoRequest EXCEPT !.op = "complete", !.at = s]
    OBVIOUS
  <2>2. body \in RequestRow /\ body.op = "complete" /\ body.at = s
    BY <1>2, <2>1, NoRequestTyped DEF RequestRow
  <2>3. PICK u : u = [body EXCEPT !.phase = "read", !.current = TRUE]
    OBVIOUS
  <2>4. u.op = "complete" /\ u.at = s /\ u.phase = "read"
    BY <2>2, <2>3 DEF RequestRow
  <2>5. Formed(u) /\ ReadHolds(u)
    BY <1>1, <1>4, <2>4 DEF Formed, ReadHolds
  <2> QED
    BY <1>4, <2>1, <2>2, <2>3, <2>5, ReceiveKeepsIInv
<1> QED
  BY <1>3, <1>4 DEF ReadStage

LEMMA ReadUndoOrMarkKeepsIInv ==
    ASSUME IInv, NEW r \in Request,
           (\E s \in 1 .. Stages : ReadUndo(r, s)) \/ ReadMark(r)
    PROVE  IInv'
<1>1. ASSUME NEW s \in 1 .. Stages, ReadUndo(r, s) PROVE IInv'
  <2>1. PICK body : body = [NoRequest EXCEPT !.op = "undo", !.at = s]
    OBVIOUS
  <2>2. body \in RequestRow /\ body.op = "undo" /\ body.at = s
    <3>1. s \in 0 .. Stages
      BY Consts
    <3> QED
      BY <2>1, <3>1, NoRequestTyped DEF RequestRow
  <2>3. PICK u : u = [body EXCEPT !.phase = "read", !.current = TRUE]
    OBVIOUS
  <2>4. u.op = "undo" /\ u.at = s /\ u.phase = "read"
    BY <2>2, <2>3 DEF RequestRow
  <2>5. Formed(u) /\ ReadHolds(u)
    BY <2>4 DEF Formed, ReadHolds
  <2>6. Receive(r, body)
    BY <1>1, <2>1 DEF ReadUndo
  <2> QED
    BY <2>2, <2>3, <2>5, <2>6, ReceiveKeepsIInv
<1>2. CASE ReadMark(r)
  <2>1. PICK body : body = [NoRequest EXCEPT !.op = "mark"]
    OBVIOUS
  <2>2. body \in RequestRow /\ body.op = "mark"
    BY <2>1, NoRequestTyped DEF RequestRow
  <2>3. PICK u : u = [body EXCEPT !.phase = "read", !.current = TRUE]
    OBVIOUS
  <2>4. u.op = "mark" /\ u.phase = "read"
    BY <2>2, <2>3 DEF RequestRow
  <2>5. Formed(u) /\ ReadHolds(u)
    BY <2>4 DEF Formed, ReadHolds
  <2>6. Receive(r, body)
    BY <1>2, <2>1 DEF ReadMark
  <2> QED
    BY <2>2, <2>3, <2>5, <2>6, ReceiveKeepsIInv
<1> QED
  BY <1>1, <1>2

LEMMA ReadPrepareOrBatchKeepsIInv ==
    ASSUME IInv, NEW r \in Request, NEW n \in 0 .. Ordered,
           ReadPrepare(r, n) \/ (n # 0 /\ ReadBatch(r, n))
    PROVE  IInv'
<1>1. CASE ReadPrepare(r, n)
  <2>1. PICK body : body = [NoRequest EXCEPT !.op = "prepare", !.pieces = n]
    OBVIOUS
  <2>2. body \in RequestRow /\ body.op = "prepare"
    BY <2>1, NoRequestTyped DEF RequestRow
  <2>3. PICK u : u = [body EXCEPT !.phase = "read", !.current = TRUE]
    OBVIOUS
  <2>4. u.op = "prepare" /\ u.phase = "read"
    BY <2>2, <2>3 DEF RequestRow
  <2>5. Receive(r, body) /\ Started(FinalAt)
    BY <1>1, <2>1 DEF ReadPrepare, Started
  <2>6. Formed(u) /\ ReadHolds(u)
    BY <2>4, <2>5 DEF Formed, ReadHolds
  <2> QED
    BY <2>2, <2>3, <2>5, <2>6, ReceiveKeepsIInv
<1>2. CASE n # 0 /\ ReadBatch(r, n)
  <2>1. PICK body : body = [NoRequest EXCEPT !.op = "batch", !.pieces = n]
    OBVIOUS
  <2>2. body \in RequestRow /\ body.op = "batch" /\ body.pieces = n
    BY <2>1, NoRequestTyped DEF RequestRow
  <2>3. PICK u : u = [body EXCEPT !.phase = "read", !.current = TRUE]
    OBVIOUS
  <2>4. u.op = "batch" /\ u.pieces = n /\ u.phase = "read"
    BY <2>2, <2>3 DEF RequestRow
  <2>5. Receive(r, body) /\ Started(FinalAt)
    BY <1>2, <2>1 DEF ReadBatch, Eligible, Gate, Started
  <2>6. n \in 1 .. Ordered
    BY <1>2, Consts
  <2>7. Formed(u) /\ ReadHolds(u)
    BY <2>4, <2>5, <2>6 DEF Formed, ReadHolds
  <2> QED
    BY <2>2, <2>3, <2>5, <2>7, ReceiveKeepsIInv
<1> QED
  BY <1>1, <1>2

LEMMA ReadQualityKeepsIInv ==
    ASSUME IInv, NEW r \in Request,
           \/ \E a \in Activity : ReadOpen(r, a)
           \/ \E x \in Activity \cup Batch, o \in Outcome : ReadJudge(r, x, o)
           \/ \E b \in Batch : ReadDecide(r, "reject", b) \/ ReadDecide(r, "cancel", b)
    PROVE  IInv'
<1>1. ASSUME NEW a \in Activity, ReadOpen(r, a) PROVE IInv'
  <2>1. PICK body : body = [NoRequest EXCEPT !.op = "open", !.of = a]
    OBVIOUS
  <2>2. body \in RequestRow /\ body.op = "open" /\ body.of = a
    BY <2>1, NoRequestTyped DEF RequestRow
  <2>3. PICK u : u = [body EXCEPT !.phase = "read", !.current = TRUE]
    OBVIOUS
  <2>4. u.op = "open" /\ u.of = a /\ u.phase = "read"
    BY <2>2, <2>3 DEF RequestRow
  <2>5. Formed(u) /\ ReadHolds(u)
    BY <2>4 DEF Formed, ReadHolds
  <2>6. Receive(r, body)
    BY <1>1, <2>1 DEF ReadOpen
  <2> QED
    BY <2>2, <2>3, <2>5, <2>6, ReceiveKeepsIInv
<1>2. ASSUME NEW x \in Activity \cup Batch, NEW o \in Outcome, ReadJudge(r, x, o) PROVE IInv'
  <2>1. PICK body : body = [NoRequest EXCEPT !.op = "judge", !.of = x, !.outcome = o]
    OBVIOUS
  <2>2. body \in RequestRow /\ body.op = "judge" /\ body.of = x /\ body.outcome = o
    BY <2>1, NoRequestTyped DEF RequestRow
  <2>3. PICK u : u = [body EXCEPT !.phase = "read", !.current = TRUE]
    OBVIOUS
  <2>4. u.op = "judge" /\ u.of = x /\ u.outcome = o /\ u.phase = "read"
    BY <2>2, <2>3 DEF RequestRow
  <2>5. x \in Activity => single[x] = "DRAFT"
    BY <1>2, BatchAssumption DEF ReadJudge
  <2>6. Formed(u) /\ ReadHolds(u)
    BY <2>4, <2>5 DEF Formed, ReadHolds
  <2>7. Receive(r, body)
    BY <1>2, <2>1 DEF ReadJudge
  <2> QED
    BY <2>2, <2>3, <2>6, <2>7, ReceiveKeepsIInv
<1>3. ASSUME NEW b \in Batch, NEW op \in {"reject", "cancel"}, ReadDecide(r, op, b) PROVE IInv'
  <2>1. PICK body : body = [NoRequest EXCEPT !.op = op, !.of = b]
    OBVIOUS
  <2>2. body \in RequestRow /\ body.op = op /\ body.of = b
    BY <2>1, NoRequestTyped DEF RequestRow
  <2>3. PICK u : u = [body EXCEPT !.phase = "read", !.current = TRUE]
    OBVIOUS
  <2>4. u.op = op /\ u.of = b /\ u.phase = "read"
    BY <2>2, <2>3 DEF RequestRow
  <2>5. Formed(u) /\ ReadHolds(u)
    BY <2>4 DEF Formed, ReadHolds
  <2>6. Receive(r, body)
    BY <1>3, <2>1 DEF ReadDecide
  <2> QED
    BY <2>2, <2>3, <2>5, <2>6, ReceiveKeepsIInv
<1> QED
  BY <1>1, <1>2, <1>3

-----------------------------------------------------------------------------
(* Transactions that begin *)

LEMMA BegunStage ==
    ASSUME IInv, NEW q \in RequestRow, q.op \in JobOps, Formed(q), ReadHolds(q), Admitted(q)
    PROVE  StageHolds(q)
<1>1. stage \in StageMap /\ q.current
  BY Typed DEF IInv, Admitted
<1>2. ASSUME q.op \in {"start", "complete"}
      PROVE  GatesSatisfied /\ \A t \in 1 .. q.at - 1 : stage[t] = "COMPLETED"
  <2>1. q.at \in 1 .. Stages /\ GatesSatisfied /\ NextStage(q.at)
    BY <1>1, <1>2 DEF Formed, ReadHolds
  <2>2. \A t \in 1 .. q.at - 1 : t \in 1 .. Stages /\ ~(q.at <= t)
    BY <2>1, Consts
  <2> QED
    BY <2>1, <2>2 DEF NextStage, Open
<1>3. q.op = "complete" => Started(q.at) /\ (q.at = InlineAt => single["INLINE"] = "PASS")
  BY <1>1 DEF ReadHolds, Started
<1>4. ASSUME q.op = "undo"
      PROVE  /\ Started(q.at) /\ (q.at = Stages => Live(batch) = {})
             /\ \A t \in q.at + 1 .. Stages : ~Started(t)
  <2>1. q.at \in 1 .. Stages /\ Undoable(q.at) /\ ~Inspected(q.at)
    BY <1>4 DEF Formed, Admitted
  <2>2. Started(q.at) /\ (q.at = Stages => Live(batch) = {})
    BY <2>1 DEF Undoable, Inspected, Started
  <2>3. ASSUME NEW t \in q.at + 1 .. Stages, Started(t) PROVE FALSE
    <3>1. q.at < Stages /\ t \in 1 .. Stages /\ (t # q.at + 1 => q.at + 1 \in 1 .. t - 1)
      BY <2>1, Consts
    <3>2. ~Started(q.at + 1)
      BY <2>1, <3>1 DEF Undoable, Started
    <3> QED
      BY <2>3, <3>1, <3>2 DEF IInv, Production
  <2> QED
    BY <2>2, <2>3
<1>5. ASSUME q.op = "mark" PROVE Started(1)
  BY <1>5 DEF Admitted, Markable, IInv, Production
<1>6. q.op # "prepare"
  BY DEF JobOps
<1> QED
  BY <1>2, <1>3, <1>4, <1>5, <1>6 DEF StageHolds

LEMMA BeginKeepsIInv == ASSUME IInv, NEW r \in Request, Begin(r) PROVE IInv'
<1>1. PICK q : q = req[r]
  OBVIOUS
<1>2. /\ q \in RequestRow /\ q.phase = "read" /\ q.op \in Versioned
      /\ Formed(q) /\ ReadHolds(q) /\ job \in JobRow
  BY <1>1, Typed DEF IInv, RequestHolds, Begin
<1>3. CASE ~Admitted(q)
  <2>1. req' = [req EXCEPT ![r] = NoRequest] /\ UNCHANGED <<job, stage, single, batch>>
    BY <1>1, <1>3 DEF Begin
  <2> QED
    BY <2>1, EndKeepsIInv
<1>4. CASE Admitted(q)
  <2>1. PICK u : u = [q EXCEPT !.phase = "begun", !.status = job.status]
    OBVIOUS
  <2>2. /\ u \in RequestRow /\ u.op = q.op /\ u.at = q.at /\ u.of = q.of /\ u.pieces = q.pieces
        /\ u.outcome = q.outcome /\ u.phase = "begun" /\ u.status = job.status
    BY <1>2, <2>1 DEF RequestRow, JobRow
  <2>3. req' = [req EXCEPT ![r] = u] /\ UNCHANGED <<job, stage, single, batch>>
    BY <1>1, <1>4, <2>1 DEF Begin
  <2>4. \A l \in Locks(u) : Free(l)
    <3>1. Locks(u) = Locks(q)
      BY <2>2 DEF Locks
    <3> QED
      BY <1>1, <3>1 DEF Begin
  <2>5. Formed(u)
    BY <1>2, <2>2 DEF Formed
  <2>6. DecisionHolds(u)
    BY <1>2, <2>2 DEF DecisionHolds, Versioned, Decision
  <2>7. CASE q.op \in JobOps
    <3>1. StageHolds(q)
      BY <1>2, <1>4, <2>7, BegunStage
    <3>2. StageHolds(u)
      BY <2>2, <3>1 DEF StageHolds
    <3>3. PrepareHolds(u)
      BY <2>2, <2>7 DEF PrepareHolds, JobOps
    <3> QED
      BY <2>2, <2>3, <2>4, <2>5, <2>6, <3>2, <3>3, RequestStepKeepsIInv
  <2>8. CASE q.op = "prepare"
    <3>1. Started(1) /\ job.status \in {"IN_PRODUCTION", "PRODUCTION_COMPLETE"}
      <4>1. Started(FinalAt)
        BY <1>2, <2>8 DEF ReadHolds
      <4>2. FinalAt # 1 => 1 \in 1 .. FinalAt - 1
        BY Consts
      <4> QED
        BY <4>1, <4>2, Consts DEF IInv, Production
    <3>2. Committed(batch) <= q.pieces
      BY <1>4, <2>8 DEF Admitted, Covered
    <3>3. job.status = "PRODUCTION_COMPLETE" /\ job.audit = "AUTOMATIC" => Settled
      BY PropertiesAre DEF IInv
    <3>4. PrepareHolds(u) /\ StageHolds(u)
      BY <2>2, <2>8, <3>1, <3>2, <3>3 DEF PrepareHolds, StageHolds
    <3> QED
      BY <2>2, <2>3, <2>4, <2>5, <2>6, <3>4, RequestStepKeepsIInv
  <2> QED
    BY <1>2, <2>7, <2>8 DEF Versioned, JobOps
<1> QED
  BY <1>3, <1>4

LEMMA BeginDecisionKeepsIInv == ASSUME IInv, NEW r \in Request, BeginDecision(r) PROVE IInv'
<1>1. PICK q : q = req[r]
  OBVIOUS
<1>2. /\ q \in RequestRow /\ q.phase = "read" /\ q.op \in Decision /\ q.of \in Batch
      /\ Formed(q) /\ Free("qa-accounting")
  BY <1>1, Typed DEF IInv, RequestHolds, BeginDecision, Decision
<1>3. CASE ~Decidable(q)
  <2>1. req' = [req EXCEPT ![r] = NoRequest] /\ UNCHANGED <<job, stage, single, batch>>
    BY <1>1, <1>3 DEF BeginDecision
  <2> QED
    BY <2>1, EndKeepsIInv
<1>4. CASE Decidable(q)
  <2>1. PICK p \in BOOLEAN : p <=> Promotable(job, [batch EXCEPT ![q.of] = Decided(q)])
    <3>1. CASE Promotable(job, [batch EXCEPT ![q.of] = Decided(q)])
      BY <3>1
    <3>2. CASE ~Promotable(job, [batch EXCEPT ![q.of] = Decided(q)])
      BY <3>2
    <3> QED
      BY <3>1, <3>2
  <2>2. PICK u : u = [q EXCEPT !.phase = "begun", !.current = TRUE, !.promote = p]
    OBVIOUS
  <2>3. /\ u \in RequestRow /\ u.op = q.op /\ u.at = q.at /\ u.of = q.of /\ u.pieces = q.pieces
        /\ u.outcome = q.outcome /\ u.phase = "begun" /\ u.current /\ u.promote = p
    BY <1>2, <2>2 DEF RequestRow
  <2>4. p = Promotable(job, [batch EXCEPT ![q.of] = Decided(q)])
    BY <2>1 DEF Promotable
  <2>5. req' = [req EXCEPT ![r] = u] /\ UNCHANGED <<job, stage, single, batch>>
    BY <1>1, <1>4, <2>2, <2>4 DEF BeginDecision
  <2>6. Locks(u) = {"qa-accounting"}
    BY <1>2, <2>3 DEF Locks, JobOps, Decision
  <2>7. Formed(u)
    BY <1>2, <2>3 DEF Formed
  <2>8. Decided(u) = Decided(q)
    BY <2>3 DEF Decided
  <2>9. DecisionHolds(u)
    BY <1>4, <2>1, <2>3, <2>8 DEF DecisionHolds, Decidable
  <2>10. StageHolds(u) /\ PrepareHolds(u)
    BY <1>2, <2>3 DEF StageHolds, PrepareHolds, Decision
  <2> QED
    BY <1>2, <2>3, <2>5, <2>6, <2>7, <2>9, <2>10, RequestStepKeepsIInv
<1> QED
  BY <1>3, <1>4

-----------------------------------------------------------------------------
(* Transactions that write the order and its stages *)

LEMMA Alone ==
    ASSUME IInv, NEW r \in Request, NEW u \in Request, r # u,
           req[r].phase = "begun", req[u].phase = "begun"
    PROVE  /\ ~(req[r].op \in JobOps /\ req[u].op \in JobOps)
           /\ ~("qa-accounting" \in Locks(req[r]) /\ "qa-accounting" \in Locks(req[u]))
<1>1. Locks(req[r]) \cap Locks(req[u]) = {}
  BY DEF IInv, LocksExclusive
<1> QED
  BY <1>1, LocksAre

LEMMA SameTwice == \A q \in RequestRow : \A u, v : Same(q, u) /\ Same(u, v) => Same(q, v)
<1> SUFFICES ASSUME NEW q \in RequestRow, NEW u, NEW v, Same(q, u), Same(u, v) PROVE Same(q, v)
  OBVIOUS
<1>1. u \in RequestRow
  BY ONLY SameIs, Same(q, u)
<1>2. CASE u = q
  BY <1>2
<1>3. CASE u # q
  <2>1. u = [q EXCEPT !.current = FALSE] /\ ~u.current
    BY <1>3 DEF Same, RequestRow
  <2>2. [u EXCEPT !.current = FALSE] = u
    BY <1>1, <2>1 DEF RequestRow
  <2>3. v = u
    BY <2>2 DEF Same
  <2> QED
    BY <2>1, <2>3 DEF Same
<1> QED
  BY <1>2, <1>3

LEMMA FinishedIs ==
    ASSUME TypeOK, NEW r \in Request
    PROVE  /\ Finished(r) \in [Request -> RequestRow] /\ Finished(r)[r] = NoRequest
           /\ \A u \in Request \ {r} :
                /\ Same(req[u], Finished(r)[u])
                /\ (req[u].op \in JobOps \cup {"prepare"} \/ req[u].phase = "begun")
                     => ~Finished(r)[u].current
<1>1. PICK rs : rs = [req EXCEPT ![r] = NoRequest]
  OBVIOUS
<1>2. /\ rs \in [Request -> RequestRow] /\ rs[r] = NoRequest
      /\ \A u \in Request \ {r} : rs[u] = req[u]
  BY <1>1, Typed, EndedIs
<1>3. /\ JobWritten(rs) \in [Request -> RequestRow]
      /\ \A u \in Request :
                /\ Same(rs[u], JobWritten(rs)[u])
                /\ (rs[u].op \in JobOps \cup {"prepare"} \/ rs[u].phase = "begun")
                     => ~JobWritten(rs)[u].current
  BY ONLY <1>2, JobWrittenIs
<1>4. Finished(r) = JobWritten(rs)
  BY <1>1 DEF Finished
<1> QED
  BY <1>2, <1>3, <1>4, NoRequestIsIdle

\* A transaction that writes the order, but no activity and no batch.
LEMMA JobStepKeepsIInv ==
    ASSUME IInv, NEW r \in Request, req[r].phase = "begun", req' = Finished(r),
           UNCHANGED <<single, batch>>, job' \in JobRow, stage' \in StageMap,
           \A s \in 1 .. Stages : Started(s) => Started(s)',
           req[r].op \notin JobOps => \A s \in 1 .. Stages :
             \/ stage'[s] = stage[s]
             \/ stage'[s] = "COMPLETED" /\ (~Started(s) => s = Stages /\ Started(FinalAt)),
           \/ "qa-accounting" \in Locks(req[r])
           \/ job'.audit = "AUTOMATIC" => job.audit = "AUTOMATIC" \/ Settled,
           Safety'
    PROVE  IInv'
<1>1. /\ req' \in [Request -> RequestRow] /\ req'[r] = NoRequest
      /\ \A u \in Request \ {r} :
           /\ Same(req[u], req'[u])
           /\ (req[u].op \in JobOps \cup {"prepare"} \/ req[u].phase = "begun") => ~req'[u].current
  BY FinishedIs DEF IInv
<1>2. TypeOK'
  BY <1>1, Typed, TypedNext DEF IInv
<1>3. \A u \in Request \ {r} : req[u].phase = "begun" =>
        /\ ~(req[r].op \in JobOps /\ req[u].op \in JobOps)
        /\ ~("qa-accounting" \in Locks(req[r]) /\ "qa-accounting" \in Locks(req[u]))
  BY Alone
<1>4. Frame({r})
  BY <1>1, <1>3, PassedIs DEF Frame
<1>5. RequestHolds(r)'
  BY <1>1, NoRequestIsIdle DEF RequestHolds
<1>6. \A u \in {r} : req'[u].phase # "begun"
  BY <1>1, NoRequestIsIdle
<1>7. LocksExclusive'
  BY <1>2, <1>4, <1>6, FrameKeepsLocks
<1> QED
  BY <1>2, <1>4, <1>5, <1>7, FrameKeepsIInv

\* Stages in order, of a job order whose stages are st.
Flow(st) ==
    /\ \A s \in 1 .. Stages : st[s] # "NOT_STARTED" =>
         /\ GatesSatisfied
         /\ \A t \in 1 .. s - 1 : /\ st[t] # "NOT_STARTED"
                                  /\ FinalAt = Stages => st[t] = "COMPLETED"
    /\ st[InlineAt] = "COMPLETED" /\ InlineAt < Stages => single["INLINE"] = "PASS"

LEMMA ProductionIs ==
    Production <=>
      /\ Flow(stage)
      /\ job.status \in {"IN_PRODUCTION", "PRODUCTION_COMPLETE"} <=> Started(1)
      /\ \A b \in Batch : batch[b].disposition # "NONE" => Started(FinalAt)
  BY DEF Production, Flow, Started

LEMMA ProductionNext ==
    ASSUME IInv, UNCHANGED <<single, batch>>, Flow(stage'),
           job'.status \in {"IN_PRODUCTION", "PRODUCTION_COMPLETE"} <=> Started(1)',
           Started(FinalAt) => Started(FinalAt)'
    PROVE  Production'
<1>1. \A b \in Batch : batch[b].disposition # "NONE" => Started(FinalAt)
  BY DEF IInv, Production
<1> QED
  BY <1>1 DEF Flow, Production, Started, GatesSatisfied

LEMMA AutoClosedIs ==
    ASSUME NEW st \in StageMap
    PROVE  /\ AutoClosed(st) \in StageMap
           /\ \A s \in 1 .. Stages :
                \/ AutoClosed(st)[s] = st[s]
                \/ /\ s = Stages /\ AutoClosed(st)[s] = "COMPLETED"
                   /\ \A t \in 1 .. Stages - 1 : st[t] = "COMPLETED"
<1>1. CASE Open(st) = {Stages}
  <2>1. \A t \in 1 .. Stages - 1 : st[t] = "COMPLETED"
    <3>1. \A t \in 1 .. Stages - 1 : t \in 1 .. Stages /\ t # Stages
      BY Consts
    <3> QED
      BY <1>1, <3>1 DEF Open
  <2>2. AutoClosed(st) = [st EXCEPT ![Stages] = "COMPLETED"]
    BY <1>1 DEF AutoClosed
  <2> QED
    BY <2>1, <2>2 DEF StageMap
<1>2. CASE Open(st) # {Stages}
  BY <1>2 DEF AutoClosed
<1> QED
  BY <1>1, <1>2

LEMMA AutoClosedFlow ==
    ASSUME NEW st \in StageMap, Flow(st), st[1] # "NOT_STARTED"
    PROVE  Flow(AutoClosed(st)) /\ AutoClosed(st)[1] # "NOT_STARTED"
<1>1. PICK c : c = AutoClosed(st)
  OBVIOUS
<1>2. \A s \in 1 .. Stages :
        \/ c[s] = st[s]
        \/ s = Stages /\ c[s] = "COMPLETED" /\ \A t \in 1 .. Stages - 1 : st[t] = "COMPLETED"
  BY <1>1, AutoClosedIs
<1>3. GatesSatisfied /\ c[1] # "NOT_STARTED"
  BY <1>2, Consts DEF Flow
<1>4. ASSUME NEW s \in 1 .. Stages, c[s] # "NOT_STARTED", NEW t \in 1 .. s - 1
      PROVE  c[t] # "NOT_STARTED" /\ (FinalAt = Stages => c[t] = "COMPLETED")
  <2>1. t \in 1 .. Stages /\ t # Stages /\ (s = Stages => t \in 1 .. Stages - 1)
    BY Consts
  <2>2. c[t] = st[t]
    BY <1>2, <2>1
  <2>3. CASE c[s] = st[s]
    BY <1>4, <2>2, <2>3 DEF Flow
  <2>4. CASE c[s] # st[s]
    BY <1>2, <2>1, <2>2, <2>4
  <2> QED
    BY <2>3, <2>4
<1>5. c[InlineAt] = "COMPLETED" /\ InlineAt < Stages => single["INLINE"] = "PASS"
  BY <1>2, Consts DEF Flow
<1> QED
  BY <1>1, <1>3, <1>4, <1>5 DEF Flow

LEMMA RecalculatedIs ==
    ASSUME IInv, NEW j \in JobRow, NEW st \in StageMap, Recalculated(j, st),
           UNCHANGED <<single, batch>>,
           \A s \in 1 .. Stages : Started(s) => st[s] # "NOT_STARTED",
           Flow(st), st[1] # "NOT_STARTED",
           j.status \in {"IN_PRODUCTION", "PRODUCTION_COMPLETE"}, Committed(batch) <= j.prepared,
           j.status = "PRODUCTION_COMPLETE" /\ j.audit = "AUTOMATIC" => j.prepared = Ordered /\ Settled
    PROVE  /\ job' \in JobRow /\ stage' \in StageMap
           /\ \A s \in 1 .. Stages : Started(s) => Started(s)'
           /\ \A s \in 1 .. Stages :
                \/ stage'[s] = st[s]
                \/ s = Stages /\ stage'[s] = "COMPLETED" /\ Started(FinalAt)
           /\ job'.audit = "AUTOMATIC" => j.audit = "AUTOMATIC" \/ Settled
           /\ Safety'
<1>1. \A s \in 1 .. Stages :
        \/ AutoClosed(st)[s] = st[s]
        \/ /\ s = Stages /\ AutoClosed(st)[s] = "COMPLETED"
           /\ \A t \in 1 .. Stages - 1 : st[t] = "COMPLETED"
  BY AutoClosedIs
<1>2. Settled' <=> Settled
  BY DEF Settled
<1>3. DispositionIsEarned'
  BY DEF IInv, DispositionIsEarned
<1>4. /\ job' \in JobRow /\ stage' \in StageMap
      /\ \A s \in 1 .. Stages : Started(s) => Started(s)'
      /\ \A s \in 1 .. Stages :
           \/ stage'[s] = st[s]
           \/ s = Stages /\ stage'[s] = "COMPLETED" /\ Started(FinalAt)
      /\ job'.audit = "AUTOMATIC" => j.audit = "AUTOMATIC" \/ Settled
      /\ Flow(stage') /\ Started(1)' /\ job'.prepared = j.prepared
      /\ job'.status \in {"IN_PRODUCTION", "PRODUCTION_COMPLETE"}
      /\ job'.status = "PRODUCTION_COMPLETE" /\ job'.audit = "AUTOMATIC" =>
           j.prepared = Ordered /\ Settled
  <2>1. CASE Promotable(j, batch)
    <3>1. job' = Promoted(j) /\ stage' = AutoClosed(st)
      BY <2>1 DEF Recalculated
    <3>2. /\ job' \in JobRow /\ job'.status = "PRODUCTION_COMPLETE" /\ job'.prepared = j.prepared
      BY <3>1 DEF Promoted, JobRow, JobStatus
    <3>3. Settled /\ j.prepared = Ordered /\ Live(batch) # {}
      BY <2>1 DEF Promotable, FullyResolved, Settled
    <3>4. Started(FinalAt)
      BY <3>3 DEF Live, IInv, Production
    <3>5. /\ stage' \in StageMap /\ Flow(stage') /\ stage'[1] # "NOT_STARTED"
      BY <3>1, AutoClosedIs, AutoClosedFlow
    <3>6. \A s \in 1 .. Stages : stage'[s] = st[s] \/ (s = Stages /\ stage'[s] = "COMPLETED")
      BY <1>1, <3>1
    <3>7. \A s \in 1 .. Stages : Started(s) => Started(s)'
      BY <3>6 DEF Started
    <3> QED
      BY <3>2, <3>3, <3>4, <3>5, <3>6, <3>7 DEF Started
  <2>2. CASE ~Promotable(j, batch)
    <3>1. job' = j /\ stage' = st
      BY <2>2 DEF Recalculated
    <3> QED
      BY <3>1 DEF Started
  <2> QED
    BY <2>1, <2>2
<1>5. Production'
  BY <1>4, Consts, ProductionNext
<1>6. PreparedCoversBatches' /\ CompleteIsResolved'
  <2>1. j.prepared <= Ordered
    BY Consts DEF JobRow
  <2> QED
    BY <1>2, <1>4, <2>1, PropertiesAre
<1> QED
  BY <1>3, <1>4, <1>5, <1>6 DEF Safety

LEMMA TransitionKeepsIInv ==
    ASSUME IInv,
           NEW from \in SUBSET {"DRAFT", "SENT_TO_FACTORY", "CONFIRMED_BY_FACTORY"},
           NEW to \in {"SENT_TO_FACTORY", "CONFIRMED_BY_FACTORY", "CANCELLED"},
           Transition(from, to)
    PROVE  IInv'
<1>1. /\ req' = JobWritten(req) /\ job' = [job EXCEPT !.status = to]
      /\ UNCHANGED <<stage, single, batch>>
      /\ job.status \in {"DRAFT", "SENT_TO_FACTORY", "CONFIRMED_BY_FACTORY"}
      /\ \A u \in Request : req[u].phase = "begun" => "job-order" \notin Locks(req[u])
  BY DEF Transition, Free
<1>2. job \in JobRow /\ req \in [Request -> RequestRow]
  BY Typed DEF IInv
<1>3. /\ job' \in JobRow /\ job'.status = to /\ job'.prepared = job.prepared
      /\ job'.audit = job.audit
  BY <1>1, <1>2 DEF JobRow, JobStatus
<1>4. /\ req' \in [Request -> RequestRow]
      /\ \A r \in Request :
           /\ Same(req[r], req'[r])
           /\ (req[r].op \in JobOps \cup {"prepare"} \/ req[r].phase = "begun") => ~req'[r].current
  BY <1>1, <1>2, JobWrittenIs
<1>5. TypeOK'
  BY <1>1, <1>3, <1>4, Typed, TypedNext DEF IInv
<1>6. PICK A \in SUBSET Request : A = {}
  OBVIOUS
<1>7. \A u \in Request : req[u].phase = "begun" => req[u].op \notin JobOps
  BY <1>1, LocksAre
<1>8. Frame(A)
  BY <1>1, <1>3, <1>4, <1>6, <1>7, PassedIs DEF Frame, Started
<1>9. ~Started(1)
  BY <1>1 DEF IInv, Production
<1>10. Production'
  BY <1>1, <1>3, <1>9 DEF IInv, Production, Started
<1>11. PreparedCoversBatches' /\ DispositionIsEarned' /\ CompleteIsResolved'
  BY <1>1, <1>3 DEF IInv, PreparedCoversBatches, DispositionIsEarned, CompleteIsResolved
<1>12. LocksExclusive'
  BY <1>5, <1>6, <1>8, FrameKeepsLocks
<1> QED
  BY <1>5, <1>6, <1>8, <1>10, <1>11, <1>12, FrameKeepsIInv DEF Safety

LEMMA TransitionsKeepIInv ==
    ASSUME IInv, SendJobOrderToFactory \/ ConfirmJobOrder \/ CancelJobOrder PROVE IInv'
<1>1. CASE SendJobOrderToFactory
  BY <1>1, TransitionKeepsIInv DEF SendJobOrderToFactory
<1>2. CASE ConfirmJobOrder
  BY <1>2, TransitionKeepsIInv DEF ConfirmJobOrder
<1>3. CASE CancelJobOrder
  BY <1>3, TransitionKeepsIInv DEF CancelJobOrder
<1> QED
  BY <1>1, <1>2, <1>3

\* What is known of a request of the job order's side that commits.
LEMMA CommitFacts ==
    ASSUME IInv, NEW r \in Request, req[r].phase = "begun",
           req[r].op \in {"start", "complete", "undo", "mark", "prepare"}
    PROVE  /\ Formed(req[r]) /\ StageHolds(req[r]) /\ PrepareHolds(req[r])
           /\ req[r] \in RequestRow /\ job \in JobRow /\ stage \in StageMap
           /\ Flow(stage) /\ (req[r].op \in {"mark", "prepare", "undo", "complete"} => Started(1))
           /\ DispositionIsEarned /\ Committed(batch) <= job.prepared /\ job.prepared <= Ordered
           /\ job.prepared \in Nat /\ Committed(batch) \in Nat
<1>1. /\ Formed(req[r]) /\ StageHolds(req[r]) /\ PrepareHolds(req[r])
  BY DEF IInv, RequestHolds
<1>2. /\ req[r] \in RequestRow /\ job \in JobRow /\ stage \in StageMap /\ batch \in BatchMap
  BY Typed DEF IInv
<1>3. Flow(stage) /\ DispositionIsEarned
  BY ProductionIs DEF IInv
<1>4. Committed(batch) <= job.prepared /\ job.prepared <= Ordered
  BY PropertiesAre DEF IInv
<1>5. req[r].op \in {"mark", "prepare", "undo", "complete"} => Started(1)
  <2>1. req[r].op \in {"mark", "prepare"} => Started(1)
    BY <1>1 DEF StageHolds
  <2>2. req[r].op \in {"undo", "complete"} => Started(req[r].at) /\ req[r].at \in 1 .. Stages
    BY <1>1 DEF StageHolds, Formed
  <2>3. \A s \in 1 .. Stages : s # 1 => 1 \in 1 .. s - 1
    BY Consts
  <2> QED
    BY <2>1, <2>2, <2>3, <1>3 DEF Flow, Started
<1>6. job.prepared \in Nat /\ Committed(batch) \in Nat
  <2>1. job.prepared \in 0 .. Ordered
    BY <1>2 DEF JobRow
  <2>2. Committed(batch) \in Nat
    BY <1>2, CommittedIs
  <2> QED
    BY <2>1, <2>2, Consts
<1> QED
  BY <1>1, <1>2, <1>3, <1>4, <1>5, <1>6

LEMMA StartKeepsIInv == ASSUME IInv, NEW r \in Request, StartProductionStage(r) PROVE IInv'
<1>1. PICK s : s = req[r].at
  OBVIOUS
<1>2. req[r].phase = "begun" /\ req[r].op = "start" /\ s \in 1 .. Stages
  BY <1>1 DEF StartProductionStage, Committing, IInv, RequestHolds, Formed
<1>3. /\ StageHolds(req[r]) /\ job \in JobRow /\ stage \in StageMap /\ Flow(stage)
      /\ DispositionIsEarned /\ Committed(batch) <= job.prepared /\ job.prepared <= Ordered
  BY <1>2, CommitFacts
<1>4. CASE stage[s] # "NOT_STARTED" /\ req' = [req EXCEPT ![r] = NoRequest]
           /\ UNCHANGED <<job, stage, single, batch>>
  BY <1>4, EndKeepsIInv
<1>5. CASE /\ stage[s] = "NOT_STARTED" /\ stage' = [stage EXCEPT ![s] = "IN_PROGRESS"]
           /\ job' = [job EXCEPT !.status = "IN_PRODUCTION"]
           /\ req' = Finished(r) /\ UNCHANGED <<single, batch>>
  <2>1. /\ job' \in JobRow /\ job'.status = "IN_PRODUCTION" /\ job'.prepared = job.prepared
        /\ job'.audit = job.audit
    BY <1>3, <1>5 DEF JobRow, JobStatus
  <2>2. /\ stage' \in StageMap /\ stage'[s] = "IN_PROGRESS"
        /\ \A t \in 1 .. Stages : t # s => stage'[t] = stage[t]
    BY <1>2, <1>3, <1>5 DEF StageMap
  <2>3. \A t \in 1 .. Stages : Started(t) => Started(t)'
    BY <2>2 DEF Started
  <2>4. GatesSatisfied /\ \A t \in 1 .. s - 1 : stage[t] = "COMPLETED"
    BY <1>1, <1>2, <1>3 DEF StageHolds
  <2>5. Flow(stage')
    <3>1. ASSUME NEW t \in 1 .. Stages, stage'[t] # "NOT_STARTED", NEW v \in 1 .. t - 1
          PROVE  stage'[v] # "NOT_STARTED" /\ (FinalAt = Stages => stage'[v] = "COMPLETED")
      <4>1. v \in 1 .. Stages /\ v # t
        BY Consts
      <4>2. CASE t = s
        BY <2>2, <2>4, <4>1, <4>2
      <4>3. CASE t # s
        <5>1. stage[t] # "NOT_STARTED"
          BY <2>2, <3>1, <4>3
        <5>2. v # s
          BY <1>3, <1>5, <5>1 DEF Flow
        <5> QED
          BY <1>3, <2>2, <4>1, <5>1, <5>2 DEF Flow
      <4> QED
        BY <4>2, <4>3
    <3>2. stage'[InlineAt] = "COMPLETED" => stage[InlineAt] = "COMPLETED"
      BY <2>2, Consts
    <3> QED
      BY <1>3, <2>4, <3>1, <3>2 DEF Flow
  <2>6. Started(1)'
    <3>1. s = 1 \/ 1 \in 1 .. s - 1
      BY <1>2, Consts
    <3> QED
      BY <2>2, <2>4, <3>1, Consts DEF Started
  <2>7. Production'
    BY <1>5, <2>1, <2>3, <2>5, <2>6, Consts, ProductionNext
  <2>8. PreparedCoversBatches' /\ DispositionIsEarned' /\ CompleteIsResolved'
    BY <1>3, <1>5, <2>1, PropertiesAre, EarnedIs
  <2> QED
    BY <1>2, <1>5, <2>1, <2>2, <2>3, <2>7, <2>8, JobStepKeepsIInv DEF Safety, JobOps
<1> QED
  BY <1>1, <1>4, <1>5 DEF StartProductionStage

LEMMA CompleteKeepsIInv == ASSUME IInv, NEW r \in Request, CompleteProductionStage(r) PROVE IInv'
<1>1. PICK s : s = req[r].at
  OBVIOUS
<1>2. req[r].phase = "begun" /\ req[r].op = "complete" /\ s \in 1 .. Stages
  BY <1>1 DEF CompleteProductionStage, Committing, IInv, RequestHolds, Formed
<1>3. /\ StageHolds(req[r]) /\ job \in JobRow /\ stage \in StageMap /\ Flow(stage) /\ Started(1)
      /\ Committed(batch) <= job.prepared
  BY <1>2, CommitFacts
<1>4. CASE req' = [req EXCEPT ![r] = NoRequest] /\ UNCHANGED <<job, stage, single, batch>>
  BY <1>4, EndKeepsIInv
<1>5. PICK j, st : /\ j = [job EXCEPT !.status = "IN_PRODUCTION"]
                   /\ st = [stage EXCEPT ![s] = "COMPLETED"]
  OBVIOUS
<1>6. CASE Recalculated(j, st) /\ req' = Finished(r) /\ UNCHANGED <<single, batch>>
  <2>1. /\ j \in JobRow /\ j.status = "IN_PRODUCTION" /\ j.prepared = job.prepared
        /\ j.audit = job.audit
    BY <1>3, <1>5 DEF JobRow, JobStatus
  <2>2. /\ st \in StageMap /\ st[s] = "COMPLETED"
        /\ \A t \in 1 .. Stages : t # s => st[t] = stage[t]
    BY <1>2, <1>3, <1>5 DEF StageMap
  <2>3. \A t \in 1 .. Stages : Started(t) => st[t] # "NOT_STARTED"
    BY <2>2 DEF Started
  <2>4. /\ GatesSatisfied /\ Started(s) /\ (s = InlineAt => single["INLINE"] = "PASS")
        /\ \A t \in 1 .. s - 1 : stage[t] = "COMPLETED"
    BY <1>1, <1>2, <1>3 DEF StageHolds
  <2>5. Flow(st)
    <3>1. ASSUME NEW t \in 1 .. Stages, st[t] # "NOT_STARTED", NEW v \in 1 .. t - 1
          PROVE  st[v] # "NOT_STARTED" /\ (FinalAt = Stages => st[v] = "COMPLETED")
      <4>1. v \in 1 .. Stages
        BY Consts
      <4>2. stage[t] # "NOT_STARTED"
        BY <2>2, <2>4, <3>1 DEF Started
      <4>3. stage[v] # "NOT_STARTED" /\ (FinalAt = Stages => stage[v] = "COMPLETED")
        BY <1>3, <4>2 DEF Flow
      <4> QED
        BY <2>2, <4>1, <4>3
    <3>2. st[InlineAt] = "COMPLETED" => s = InlineAt \/ stage[InlineAt] = "COMPLETED"
      BY <2>2, Consts
    <3> QED
      BY <1>3, <2>4, <3>1, <3>2 DEF Flow
  <2>6. st[1] # "NOT_STARTED"
    BY <1>3, <2>3, Consts
  <2>7. /\ job' \in JobRow /\ stage' \in StageMap
        /\ \A t \in 1 .. Stages : Started(t) => Started(t)'
        /\ job'.audit = "AUTOMATIC" => j.audit = "AUTOMATIC" \/ Settled
        /\ Safety'
    BY <1>3, <1>6, <2>1, <2>2, <2>3, <2>5, <2>6, RecalculatedIs
  <2> QED
    BY <1>2, <1>6, <2>1, <2>7, JobStepKeepsIInv DEF JobOps
<1> QED
  BY <1>1, <1>4, <1>5, <1>6 DEF CompleteProductionStage

LEMMA UndoKeepsIInv ==
    ASSUME IInv, NEW r \in Request, UndoCompletedProductionStage(r) PROVE IInv'
<1>1. PICK s : s = req[r].at
  OBVIOUS
<1>2. req[r].phase = "begun" /\ req[r].op = "undo" /\ s \in 1 .. Stages
  BY <1>1 DEF UndoCompletedProductionStage, Committing, IInv, RequestHolds, Formed
<1>3. /\ StageHolds(req[r]) /\ job \in JobRow /\ stage \in StageMap /\ Flow(stage) /\ Started(1)
      /\ DispositionIsEarned /\ Committed(batch) <= job.prepared /\ job.prepared <= Ordered
  BY <1>2, CommitFacts
<1>4. /\ stage' = [stage EXCEPT ![s] = "IN_PROGRESS"] /\ req' = Finished(r)
      /\ job' = job \/ job' = [job EXCEPT !.status = "IN_PRODUCTION"]
      /\ UNCHANGED <<single, batch>>
  BY <1>1 DEF UndoCompletedProductionStage
<1>5. /\ job' \in JobRow /\ job'.prepared = job.prepared /\ job'.audit = job.audit
      /\ job'.status = job.status \/ job'.status = "IN_PRODUCTION"
  BY <1>3, <1>4 DEF JobRow, JobStatus
<1>6. /\ stage' \in StageMap /\ stage'[s] = "IN_PROGRESS"
      /\ \A t \in 1 .. Stages : t # s => stage'[t] = stage[t]
  BY <1>2, <1>3, <1>4 DEF StageMap
<1>7. \A t \in 1 .. Stages : Started(t) => Started(t)'
  BY <1>6 DEF Started
<1>8. Started(s) /\ (FinalAt = Stages => \A t \in s + 1 .. Stages : ~Started(t))
  BY <1>1, <1>2, <1>3 DEF StageHolds
<1>9. Flow(stage')
  <2>1. ASSUME NEW t \in 1 .. Stages, stage'[t] # "NOT_STARTED", NEW v \in 1 .. t - 1
        PROVE  stage'[v] # "NOT_STARTED" /\ (FinalAt = Stages => stage'[v] = "COMPLETED")
    <3>1. v \in 1 .. Stages /\ (v = s => t \in s + 1 .. Stages)
      BY Consts
    <3>2. stage[t] # "NOT_STARTED"
      BY <1>6, <1>8, <2>1 DEF Started
    <3>3. stage[v] # "NOT_STARTED" /\ (FinalAt = Stages => stage[v] = "COMPLETED")
      BY <1>3, <3>2 DEF Flow
    <3>4. FinalAt = Stages => v # s
      BY <1>8, <3>1, <3>2 DEF Started
    <3> QED
      BY <1>6, <3>1, <3>3, <3>4
  <2>2. stage'[InlineAt] = "COMPLETED" => stage[InlineAt] = "COMPLETED"
    BY <1>6, Consts
  <2>3. GatesSatisfied
    BY <1>2, <1>3, <1>8 DEF Flow, Started
  <2> QED
    BY <1>3, <2>1, <2>2, <2>3 DEF Flow
<1>10. Production'
  <2>1. job.status \in {"IN_PRODUCTION", "PRODUCTION_COMPLETE"}
    BY <1>3 DEF IInv, Production
  <2>2. job'.status \in {"IN_PRODUCTION", "PRODUCTION_COMPLETE"} /\ Started(1)'
    BY <1>3, <1>5, <1>7, <2>1, Consts
  <2> QED
    BY <1>4, <1>7, <1>9, <2>2, Consts, ProductionNext
<1>11. PreparedCoversBatches' /\ DispositionIsEarned' /\ CompleteIsResolved'
  <2>1. CompleteIsResolved /\ (Settled' <=> Settled)
    BY <1>4 DEF IInv, Settled
  <2> QED
    BY <1>3, <1>4, <1>5, <2>1, PropertiesAre, EarnedIs
<1> QED
  BY <1>2, <1>4, <1>5, <1>6, <1>7, <1>10, <1>11, JobStepKeepsIInv DEF Safety, JobOps

LEMMA MarkKeepsIInv ==
    ASSUME IInv, NEW r \in Request, MarkJobOrderProductionComplete(r) PROVE IInv'
<1>1. req[r].phase = "begun" /\ req[r].op = "mark"
  BY DEF MarkJobOrderProductionComplete, Committing
<1>2. /\ job \in JobRow /\ stage \in StageMap /\ Flow(stage) /\ Started(1)
      /\ DispositionIsEarned /\ Committed(batch) <= job.prepared /\ job.prepared <= Ordered
  BY <1>1, CommitFacts
<1>3. /\ job' = [job EXCEPT !.status = "PRODUCTION_COMPLETE", !.audit = "MANUAL"]
      /\ req' = Finished(r) /\ UNCHANGED <<stage, single, batch>>
  BY DEF MarkJobOrderProductionComplete
<1>4. /\ job' \in JobRow /\ job'.prepared = job.prepared /\ job'.audit = "MANUAL"
      /\ job'.status = "PRODUCTION_COMPLETE"
  BY <1>2, <1>3 DEF JobRow, JobStatus
<1>5. Production'
  BY <1>2, <1>3, <1>4, ProductionNext DEF Started
<1>6. PreparedCoversBatches' /\ DispositionIsEarned' /\ CompleteIsResolved'
  BY <1>2, <1>3, <1>4, PropertiesAre, EarnedIs
<1> QED
  BY <1>1, <1>2, <1>3, <1>4, <1>5, <1>6, JobStepKeepsIInv DEF Safety, JobOps, Started

LEMMA PrepareKeepsIInv ==
    ASSUME IInv, NEW r \in Request, UpdatePreparedQuantity(r) PROVE IInv'
<1>1. PICK q : q = req[r]
  OBVIOUS
<1>2. q.phase = "begun" /\ q.op = "prepare"
  BY <1>1 DEF UpdatePreparedQuantity, Committing
<1>3. /\ PrepareHolds(q) /\ q \in RequestRow
      /\ job \in JobRow /\ stage \in StageMap /\ Flow(stage) /\ Started(1)
      /\ Committed(batch) \in Nat
  BY <1>1, <1>2, CommitFacts
<1>4. /\ q.status \in {"IN_PRODUCTION", "PRODUCTION_COMPLETE"} /\ Committed(batch) <= q.pieces
      /\ q.status = "PRODUCTION_COMPLETE" /\ job.audit = "AUTOMATIC" => Settled
      /\ q.pieces \in 0 .. Ordered
  BY <1>2, <1>3 DEF PrepareHolds, RequestRow
<1>5. PICK j : j = [job EXCEPT !.prepared = q.pieces, !.status = q.status]
  OBVIOUS
<1>6. Recalculated(j, stage) /\ req' = Finished(r) /\ UNCHANGED <<single, batch>>
  BY <1>1, <1>5 DEF UpdatePreparedQuantity
<1>7. j \in JobRow /\ j.status = q.status /\ j.prepared = q.pieces /\ j.audit = job.audit
  BY <1>3, <1>4, <1>5 DEF JobRow, JobStatus
<1>8. j.status = "PRODUCTION_COMPLETE" /\ j.audit = "AUTOMATIC" => j.prepared = Ordered /\ Settled
  <2>1. ASSUME Settled PROVE q.pieces = Ordered
    BY <1>3, <1>4, <2>1, Consts DEF Settled
  <2> QED
    BY <1>4, <1>7, <2>1
<1>9. (\A s \in 1 .. Stages : Started(s) => stage[s] # "NOT_STARTED") /\ stage[1] # "NOT_STARTED"
  BY <1>3 DEF Started
<1>10. /\ job' \in JobRow /\ stage' \in StageMap
       /\ \A s \in 1 .. Stages : Started(s) => Started(s)'
       /\ \A s \in 1 .. Stages :
            \/ stage'[s] = stage[s]
            \/ s = Stages /\ stage'[s] = "COMPLETED" /\ Started(FinalAt)
       /\ Safety'
  BY <1>3, <1>4, <1>6, <1>7, <1>8, <1>9, RecalculatedIs
<1>11. "qa-accounting" \in Locks(req[r])
  BY <1>1, <1>2, LocksAre DEF JobOps
<1> QED
  BY <1>1, <1>2, <1>6, <1>10, <1>11, JobStepKeepsIInv

-----------------------------------------------------------------------------
(* The quality side *)

LEMMA ActivitiesKeepIInv ==
    ASSUME IInv, NEW r \in Request, StartActivity(r) \/ FinalizeActivity(r) PROVE IInv'
<1>1. PICK q : q = req[r]
  OBVIOUS
<1>2. /\ q \in RequestRow /\ q.phase = "read" /\ Formed(q) /\ ReadHolds(q)
      /\ single \in [Activity -> Attempt] /\ req \in [Request -> RequestRow]
  BY <1>1, Typed DEF IInv, RequestHolds, StartActivity, FinalizeActivity
<1>3. PICK a : a = q.of
  OBVIOUS
<1>4. PICK rs : rs = [req EXCEPT ![r] = NoRequest]
  OBVIOUS
<1>5. /\ rs \in [Request -> RequestRow] /\ rs[r] = NoRequest
      /\ \A u \in Request \ {r} : rs[u] = req[u]
  BY <1>2, <1>4, EndedIs
<1>6. /\ single' \in [Activity -> Attempt]
      /\ Passed
      /\ \A x \in Activity : single[x] = "DRAFT" => single'[x] = "DRAFT" \/ (x = a /\ FinalizeActivity(r))
      /\ req' \in [Request -> RequestRow] /\ req'[r] = NoRequest
      /\ \A u \in Request \ {r} :
           /\ Same(req[u], req'[u])
           /\ FinalizeActivity(r) /\ req[u].op = "judge" /\ req[u].phase = "read" /\ req[u].of = a
                => ~req'[u].current
  <2>1. CASE StartActivity(r)
    <3>1. /\ single' = IF Startable(a) THEN [single EXCEPT ![a] = "DRAFT"] ELSE single
          /\ req' = rs /\ q.op = "open"
      BY <1>1, <1>3, <1>4, <2>1 DEF StartActivity
    <3>2. a \in Activity
      BY <1>2, <1>3, <3>1 DEF Formed
    <3>3. single' \in [Activity -> Attempt]
      BY <1>2, <3>1, <3>2 DEF Attempt
    <3>4. ~FinalizeActivity(r)
      BY <1>1, <3>1 DEF FinalizeActivity
    <3>5. Passed
      BY <1>2, <3>1, <3>2 DEF Startable, Passed, Outcome
    <3> QED
      BY <1>2, <1>5, <3>1, <3>2, <3>3, <3>4, <3>5 DEF Same
  <2>2. CASE FinalizeActivity(r)
    <3>1. /\ single' = IF q.current THEN [single EXCEPT ![a] = q.outcome] ELSE single
          /\ req' = AttemptWritten(rs, a) /\ q.op = "judge" /\ a \in Activity
      BY <1>1, <1>3, <1>4, <2>2 DEF FinalizeActivity
    <3>2. q.outcome \in Outcome /\ (q.current => single[a] = "DRAFT")
      BY <1>2, <1>3, <3>1 DEF Formed, ReadHolds
    <3>3. /\ req' \in [Request -> RequestRow]
          /\ \A u \in Request :
               /\ Same(rs[u], req'[u])
               /\ rs[u].op = "judge" /\ rs[u].phase = "read" /\ rs[u].of = a => ~req'[u].current
      BY <1>5, <3>1, AttemptWrittenIs
    <3>4. single' \in [Activity -> Attempt]
      BY <1>2, <3>1, <3>2 DEF Attempt
    <3>5. \A x \in Activity : x # a => single'[x] = single[x]
      BY <1>2, <3>1
    <3>6. single[a] # "DRAFT" => single'[a] = single[a]
      BY <3>1, <3>2
    <3>7. req'[r] = NoRequest
      BY <1>5, <3>3, NoRequestIsIdle
    <3>8. Passed
      BY <3>2, <3>5, <3>6 DEF Passed, Outcome, Activity, Gate
    <3> QED
      BY <1>5, <2>2, <3>3, <3>4, <3>5, <3>6, <3>7, <3>8
  <2> QED
    BY <2>1, <2>2
<1>7. UNCHANGED <<job, stage, batch>>
  BY DEF StartActivity, FinalizeActivity
<1>8. TypeOK'
  BY <1>6, <1>7, Typed, TypedNext DEF IInv
<1>9. Frame({r})
  <2>1. \A u \in Request \ {r} :
          req'[u].current /\ req[u].op = "judge" /\ req[u].phase = "read" /\ req[u].of \in Activity
            => single'[req[u].of] = single[req[u].of]
    <3> SUFFICES ASSUME NEW u \in Request \ {r}, req'[u].current, req[u].op = "judge",
                        req[u].phase = "read", req[u].of \in Activity
                 PROVE  single'[req[u].of] = single[req[u].of]
      OBVIOUS
    <3>1. req[u] \in RequestRow /\ Same(req[u], req'[u])
      BY <1>2, <1>6
    <3>2. req[u].current
      BY <3>1, SameIs
    <3>3. single[req[u].of] = "DRAFT"
      BY <3>2 DEF IInv, RequestHolds, ReadHolds
    <3> QED
      BY <1>6, <3>3
  <2> QED
    BY <1>6, <1>7, <2>1 DEF Frame, Started
<1>10. Production'
  BY <1>6, <1>7, PassedIs DEF IInv, Production, Started, Activity
<1>11. PreparedCoversBatches' /\ DispositionIsEarned' /\ CompleteIsResolved'
  BY <1>7 DEF IInv, PreparedCoversBatches, DispositionIsEarned, CompleteIsResolved
<1>12. RequestHolds(r)' /\ req'[r].phase # "begun"
  BY <1>6, NoRequestIsIdle DEF RequestHolds
<1>13. LocksExclusive'
  BY <1>8, <1>9, <1>12, FrameKeepsLocks
<1> QED
  BY <1>8, <1>9, <1>10, <1>11, <1>12, <1>13, FrameKeepsIInv DEF Safety

\* A step that writes one batch, under the accounting lock and not the order's side.
LEMMA BatchStep ==
    ASSUME IInv, NEW A \in SUBSET Request, req' \in [Request -> RequestRow],
           \A u \in Request \ A : Same(req[u], req'[u]),
           \A r \in A : req'[r] = NoRequest,
           \A u \in Request \ A : req[u].phase = "begun" => "qa-accounting" \notin Locks(req[u]),
           NEW b \in Batch, NEW row \in BatchRow, batch' = [batch EXCEPT ![b] = row],
           UNCHANGED <<job, stage, single>>,
           Earned(row), Counts(row) => Started(FinalAt),
           row.disposition # "NONE" => Started(FinalAt),
           Committed(batch') <= job.prepared,
           job.status = "PRODUCTION_COMPLETE" /\ job.audit = "AUTOMATIC" => Settled'
    PROVE  IInv'
<1>1. /\ batch \in BatchMap /\ batch' \in BatchMap /\ batch'[b] = row
      /\ \A x \in Batch : x # b => batch'[x] = batch[x]
  <2>1. batch \in BatchMap
    BY Typed DEF IInv
  <2> QED
    BY <2>1 DEF BatchMap
<1>2. TypeOK'
  BY <1>1, Typed, TypedNext DEF IInv
<1>3. Frame(A)
  BY PassedIs DEF Frame, Started
<1>4. Production'
  <2>1. \A x \in Batch : batch'[x].disposition # "NONE" => Started(FinalAt)
    BY <1>1 DEF IInv, Production
  <2> QED
    BY <2>1 DEF IInv, Production, Started, GatesSatisfied
<1>5. DispositionIsEarned'
  BY <1>1, EarnedIs DEF IInv
<1>6. PreparedCoversBatches' /\ CompleteIsResolved'
  BY PropertiesAre DEF IInv
<1>7. \A r \in A : RequestHolds(r)' /\ req'[r].phase # "begun"
  BY NoRequestIsIdle DEF RequestHolds
<1>8. LocksExclusive'
  BY <1>2, <1>3, <1>7, FrameKeepsLocks
<1> QED
  BY <1>2, <1>3, <1>4, <1>5, <1>6, <1>7, <1>8, FrameKeepsIInv DEF Safety

LEMMA BatchesAre ==
    ASSUME IInv
    PROVE  /\ batch \in BatchMap /\ \A b \in Batch : batch[b] \in BatchRow /\ Earned(batch[b])
           /\ \A b \in Batch : batch[b].disposition # "NONE" => Started(FinalAt)
           /\ Committed(batch) \in Nat /\ Committed(batch) <= job.prepared /\ job.prepared <= Ordered
           /\ job \in JobRow /\ job.prepared \in Nat
           /\ (job.status = "PRODUCTION_COMPLETE" /\ job.audit = "AUTOMATIC" =>
                 job.prepared = Ordered /\ Settled)
<1>1. batch \in BatchMap /\ job \in JobRow
  BY Typed DEF IInv
<1>2. \A b \in Batch : batch[b] \in BatchRow /\ Earned(batch[b])
  BY <1>1, EarnedIs DEF IInv, BatchMap
<1>3. \A b \in Batch : batch[b].disposition # "NONE" => Started(FinalAt)
  BY DEF IInv, Production
<1>4. job.prepared \in Nat
  <2>1. job.prepared \in 0 .. Ordered
    BY <1>1 DEF JobRow
  <2> QED
    BY <2>1, Consts
<1> QED
  BY <1>1, <1>2, <1>3, <1>4, CommittedIs, PropertiesAre DEF IInv

LEMMA FreeAccounting ==
    ASSUME Free("qa-accounting"), NEW r \in Request, req[r].phase = "begun"
    PROVE  "qa-accounting" \notin Locks(req[r])
  BY DEF Free

LEMMA StartBatchKeepsIInv ==
    ASSUME IInv, NEW r \in Request, StartFinalPhysicalBatch(r) PROVE IInv'
<1>1. PICK n : n = req[r].pieces
  OBVIOUS
<1>2. /\ req' = [req EXCEPT ![r] = NoRequest] /\ UNCHANGED <<job, stage, single>>
      /\ Free("qa-accounting")
  BY DEF StartFinalPhysicalBatch
<1>3. n \in 1 .. Ordered /\ Started(FinalAt)
  BY <1>1 DEF StartFinalPhysicalBatch, IInv, RequestHolds, Formed, ReadHolds
<1>4. CASE UNCHANGED batch
  BY <1>2, <1>4, EndKeepsIInv
<1>5. ASSUME NEW b \in Batch, batch[b].disposition = "NONE", n <= job.prepared - Committed(batch),
             batch' = [batch EXCEPT ![b] = [quantity |-> n, disposition |-> "DRAFT",
                                            attempt |-> "DRAFT", untouched |-> TRUE]]
      PROVE  IInv'
  <2>1. PICK row : row = [quantity |-> n, disposition |-> "DRAFT",
                          attempt |-> "DRAFT", untouched |-> TRUE]
    OBVIOUS
  <2>2. n \in 0 .. Ordered
    BY <1>3, Consts
  <2>3. /\ row \in BatchRow /\ row.disposition = "DRAFT" /\ Earned(row) /\ row.quantity = n
    BY <2>1, <2>2 DEF BatchRow, Disposition, Attempt, Outcome, Earned
  <2>4. /\ batch \in BatchMap /\ Committed(batch) \in Nat /\ job.prepared \in Nat
        /\ job.prepared <= Ordered
        /\ (job.status = "PRODUCTION_COMPLETE" /\ job.audit = "AUTOMATIC" =>
              job.prepared = Ordered /\ Settled)
    BY BatchesAre
  <2>5. batch' = [batch EXCEPT ![b] = row]
    BY <1>5, <2>1
  <2>6. Share(row) = n /\ Share(batch[b]) = 0
    BY <1>5, <2>3 DEF Share, Counts
  <2>7. Committed(batch') = Committed(batch) + n
    <3>1. Committed([batch EXCEPT ![b] = row]) = Committed(batch) - Share(batch[b]) + Share(row)
      BY <2>3, <2>4, CommittedChange
    <3> QED
      BY <1>3, <2>4, <2>5, <2>6, <3>1, Consts
  <2>8. Committed(batch') <= job.prepared
    BY <1>3, <1>5, <2>4, <2>7, Consts
  <2>9. ~(job.status = "PRODUCTION_COMPLETE" /\ job.audit = "AUTOMATIC")
    BY <1>3, <1>5, <2>4, Consts DEF Settled
  <2>10. /\ req' \in [Request -> RequestRow] /\ req'[r] = NoRequest
         /\ \A u \in Request \ {r} : Same(req[u], req'[u])
    BY <1>2, Typed, EndedIs DEF IInv, Same
  <2>11. \A u \in Request : req[u].phase = "begun" => "qa-accounting" \notin Locks(req[u])
    BY <1>2, FreeAccounting
  <2>12. PICK A \in SUBSET Request : A = {r}
    OBVIOUS
  <2> QED
    BY <1>2, <1>3, <2>3, <2>5, <2>8, <2>9, <2>10, <2>11, <2>12, BatchStep
<1> QED
  BY <1>1, <1>4, <1>5 DEF StartFinalPhysicalBatch

\* A change of a batch that keeps its pieces and its disposition.
LEMMA SameDispositionKeepsIInv ==
    ASSUME IInv, Free("qa-accounting"), req' \in [Request -> RequestRow],
           \A u \in Request : Same(req[u], req'[u]),
           NEW b \in Batch, NEW row \in BatchRow, batch' = [batch EXCEPT ![b] = row],
           UNCHANGED <<job, stage, single>>, Earned(row),
           row.quantity = batch[b].quantity, row.disposition = batch[b].disposition
    PROVE  IInv'
<1>1. /\ batch \in BatchMap /\ Committed(batch) \in Nat /\ Committed(batch) <= job.prepared
      /\ (batch[b].disposition # "NONE" => Started(FinalAt))
      /\ (job.status = "PRODUCTION_COMPLETE" /\ job.audit = "AUTOMATIC" => Settled)
  BY BatchesAre
<1>2. Share(row) = Share(batch[b]) /\ Share(row) \in Nat
  BY <1>1, CommittedChange DEF Share, Counts
<1>3. Committed(batch') = Committed(batch)
  <2>1. Committed([batch EXCEPT ![b] = row]) = Committed(batch) - Share(batch[b]) + Share(row)
    BY <1>1, CommittedChange
  <2> QED
    BY <1>1, <1>2, <2>1
<1>4. \A x \in Batch : batch'[x].disposition = batch[x].disposition
  BY <1>1 DEF BatchMap
<1>5. Settled => Settled'
  BY <1>3, <1>4 DEF Settled, Live
<1>6. Committed(batch') <= job.prepared
  BY <1>1, <1>3
<1>7. \A u \in Request : req[u].phase = "begun" => "qa-accounting" \notin Locks(req[u])
  BY FreeAccounting
<1>8. PICK A \in SUBSET Request : A = {}
  OBVIOUS
<1>9. (Counts(row) \/ row.disposition # "NONE") => Started(FinalAt)
  BY <1>1 DEF Counts
<1> QED
  BY <1>1, <1>5, <1>6, <1>7, <1>8, <1>9, BatchStep

LEMMA DraftsKeepIInv ==
    ASSUME IInv, NEW b \in Batch, SaveDraft(b) \/ StartFinalBatchReinspection(b) PROVE IInv'
<1>1. batch[b] \in BatchRow /\ Earned(batch[b]) /\ req \in [Request -> RequestRow]
  BY BatchesAre, Typed DEF IInv
<1>2. CASE SaveDraft(b)
  <2>1. PICK row : row = [batch[b] EXCEPT !.untouched = FALSE]
    OBVIOUS
  <2>2. /\ row \in BatchRow /\ row.quantity = batch[b].quantity
        /\ row.disposition = batch[b].disposition /\ row.attempt = "DRAFT" /\ batch[b].attempt = "DRAFT"
    BY <1>1, <1>2, <2>1 DEF BatchRow, SaveDraft
  <2>3. Earned(row)
    BY <1>1, <2>2 DEF Earned, BatchRow, Disposition
  <2>4. batch' = [batch EXCEPT ![b] = row] /\ UNCHANGED <<job, stage, single>>
        /\ Free("qa-accounting") /\ req' = AttemptWritten(req, b)
    BY <1>2, <2>1 DEF SaveDraft
  <2> QED
    BY <1>1, <2>2, <2>3, <2>4, AttemptWrittenIs, SameDispositionKeepsIInv
<1>3. CASE StartFinalBatchReinspection(b)
  <2>1. PICK row : row = [batch[b] EXCEPT !.attempt = "DRAFT", !.untouched = TRUE]
    OBVIOUS
  <2>2. /\ row \in BatchRow /\ row.quantity = batch[b].quantity
        /\ row.disposition = batch[b].disposition /\ row.attempt = "DRAFT"
        /\ batch[b].disposition = "AWAITING_REINSPECTION"
    BY <1>1, <1>3, <2>1 DEF BatchRow, StartFinalBatchReinspection, Attempt
  <2>3. Earned(row)
    BY <1>1, <2>2 DEF Earned, BatchRow, Disposition
  <2>4. batch' = [batch EXCEPT ![b] = row] /\ UNCHANGED <<job, stage, single, req>>
        /\ Free("qa-accounting")
    BY <1>3, <2>1 DEF StartFinalBatchReinspection
  <2>5. req' \in [Request -> RequestRow] /\ \A u \in Request : Same(req[u], req'[u])
    BY <1>1, <2>4 DEF Same
  <2> QED
    BY <2>2, <2>3, <2>4, <2>5, SameDispositionKeepsIInv
<1> QED
  BY <1>2, <1>3

\* What a decision makes of a batch: the same pieces, and the disposition it earned.
LEMMA DecidedIs ==
    ASSUME NEW q \in RequestRow, q.op \in Decision, q.of \in Batch, Formed(q), DecisionHolds(q),
           batch[q.of] \in BatchRow, Earned(batch[q.of])
    PROVE  /\ Decided(q) \in BatchRow /\ Earned(Decided(q))
           /\ Decided(q).quantity = batch[q.of].quantity
           /\ batch[q.of].disposition \in {"DRAFT", "AWAITING_REINSPECTION"}
<1>1. PICK old, row : old = batch[q.of] /\ row = Decided(q)
  OBVIOUS
<1>2. old \in BatchRow /\ Earned(old)
  BY <1>1
<1>3. CASE q.op = "judge"
  <2>1. /\ row = [old EXCEPT !.attempt = q.outcome,
                             !.disposition = IF q.outcome = "PASS" THEN "RELEASED"
                                             ELSE "AWAITING_REINSPECTION"]
        /\ q.outcome \in {"PASS", "FAIL"} /\ old.attempt = "DRAFT"
    BY <1>1, <1>3 DEF Decided, Formed, DecisionHolds, Outcome
  <2>2. old.disposition \in {"DRAFT", "AWAITING_REINSPECTION"}
    BY <1>2, <2>1 DEF Earned, BatchRow, Disposition
  <2>3. /\ row \in BatchRow /\ row.quantity = old.quantity /\ row.attempt = q.outcome
        /\ row.disposition = IF q.outcome = "PASS" THEN "RELEASED" ELSE "AWAITING_REINSPECTION"
    BY <1>2, <2>1 DEF BatchRow, Disposition, Attempt, Outcome
  <2>4. CASE q.outcome = "PASS"
    <3>1. row.attempt = "PASS" /\ row.disposition = "RELEASED"
      BY <2>3, <2>4
    <3>2. Earned(row)
      BY <3>1 DEF Earned
    <3> QED
      BY <1>1, <2>2, <2>3, <3>2
  <2>5. CASE q.outcome = "FAIL"
    <3>1. row.attempt = "FAIL" /\ row.disposition = "AWAITING_REINSPECTION"
      BY <2>3, <2>5
    <3>2. Earned(row)
      BY <3>1 DEF Earned
    <3> QED
      BY <1>1, <2>2, <2>3, <3>2
  <2> QED
    BY <2>1, <2>4, <2>5
<1>4. CASE q.op = "reject"
  <2>1. /\ row = [old EXCEPT !.disposition = "PERMANENTLY_REJECTED"]
        /\ old.disposition = "AWAITING_REINSPECTION" /\ old.attempt = "FAIL"
    BY <1>1, <1>4 DEF Decided, DecisionHolds
  <2>2. /\ row \in BatchRow /\ row.quantity = old.quantity /\ row.attempt = "FAIL"
        /\ row.disposition = "PERMANENTLY_REJECTED"
    BY <1>2, <2>1 DEF BatchRow, Disposition
  <2>3. Earned(row)
    BY <2>2 DEF Earned
  <2> QED
    BY <1>1, <2>1, <2>2, <2>3
<1>5. CASE q.op = "cancel"
  <2>1. /\ row = [old EXCEPT !.attempt = "CANCELLED", !.disposition = "CANCELLED"]
        /\ old.disposition = "DRAFT" /\ old.attempt = "DRAFT" /\ old.untouched
    BY <1>1, <1>5 DEF Decided, DecisionHolds
  <2>2. /\ row \in BatchRow /\ row.quantity = old.quantity /\ row.attempt = "CANCELLED"
        /\ row.disposition = "CANCELLED" /\ row.untouched
    BY <1>2, <2>1 DEF BatchRow, Disposition, Attempt
  <2>3. Earned(row)
    BY <2>2 DEF Earned
  <2> QED
    BY <1>1, <2>1, <2>2, <2>3
<1> QED
  BY <1>3, <1>4, <1>5 DEF Decision

LEMMA DecideKeepsIInv == ASSUME IInv, NEW r \in Request, DecideBatch(r) PROVE IInv'
<1>1. PICK q, row : q = req[r] /\ row = Decided(q)
  OBVIOUS
<1>2. /\ q.phase = "begun" /\ q.op \in Decision /\ q \in RequestRow /\ Formed(q)
      /\ DecisionHolds(q) /\ req \in [Request -> RequestRow] /\ stage \in StageMap
  BY <1>1, Typed DEF IInv, RequestHolds, DecideBatch, Decision
<1>3. PICK b : b = q.of
  OBVIOUS
<1>4. b \in Batch
  BY <1>2, <1>3 DEF Formed, Versioned, Decision
<1>5. /\ batch \in BatchMap /\ batch[b] \in BatchRow /\ Earned(batch[b]) /\ job \in JobRow
      /\ (batch[b].disposition # "NONE" => Started(FinalAt))
      /\ Committed(batch) \in Nat /\ Committed(batch) <= job.prepared /\ job.prepared <= Ordered
      /\ job.prepared \in Nat
      /\ (job.status = "PRODUCTION_COMPLETE" /\ job.audit = "AUTOMATIC" =>
            job.prepared = Ordered /\ Settled)
  BY <1>4, BatchesAre
<1>6. /\ row \in BatchRow /\ Earned(row) /\ row.quantity = batch[b].quantity
      /\ batch[b].disposition \in {"DRAFT", "AWAITING_REINSPECTION"}
  BY <1>1, <1>2, <1>3, <1>4, <1>5, DecidedIs
<1>7. Started(FinalAt) /\ b \in Live(batch) /\ ~Settled
  BY <1>4, <1>5, <1>6 DEF Live, Settled, Resolved
<1>8. PICK rs : rs = AttemptWritten([req EXCEPT ![r] = NoRequest], b)
  OBVIOUS
<1>9. /\ rs \in [Request -> RequestRow] /\ rs[r] = NoRequest
      /\ \A u \in Request \ {r} : Same(req[u], rs[u])
  <2>1. PICK es : es = [req EXCEPT ![r] = NoRequest]
    OBVIOUS
  <2>2. /\ es \in [Request -> RequestRow] /\ es[r] = NoRequest
        /\ \A u \in Request \ {r} : es[u] = req[u]
    BY <1>2, <2>1, EndedIs
  <2>3. AttemptWritten(es, b) \in [Request -> RequestRow]
        /\ \A u \in Request : Same(es[u], AttemptWritten(es, b)[u])
    BY <2>2, AttemptWrittenIs
  <2> QED
    BY <1>8, <2>1, <2>2, <2>3, NoRequestIsIdle
<1>10. Share(row) <= Share(batch[b]) /\ Share(row) \in Nat /\ Share(batch[b]) \in Nat
  <2>1. Share(batch[b]) = row.quantity
    BY <1>6 DEF Share, Counts
  <2>2. Share(row) \in Nat /\ Share(batch[b]) \in Nat
    BY <1>4, <1>5, <1>6, CommittedChange
  <2> QED
    BY <2>1, <2>2 DEF Share
<1>11. batch' = [batch EXCEPT ![b] = row]
  BY <1>1, <1>3 DEF DecideBatch
<1>12. Committed(batch') <= Committed(batch) /\ Committed(batch') \in Nat
  <2>1. /\ Committed([batch EXCEPT ![b] = row]) = Committed(batch) - Share(batch[b]) + Share(row)
        /\ Committed([batch EXCEPT ![b] = row]) \in Nat
    BY <1>4, <1>5, <1>6, CommittedChange
  <2> QED
    BY <1>5, <1>10, <1>11, <2>1
<1>13. \A u \in Request \ {r} : req[u].phase = "begun" => "qa-accounting" \notin Locks(req[u])
  <2>1. "qa-accounting" \in Locks(req[r])
    BY <1>1, <1>2, LocksAre DEF Decision, JobOps
  <2> QED
    BY <1>1, <1>2, <2>1, Alone
<1>14. PICK A \in SUBSET Request : A = {r}
  OBVIOUS
<1>15. CASE ~(q.promote /\ q.current)
  <2>1. req' = rs /\ UNCHANGED <<job, stage, single>>
    BY <1>1, <1>3, <1>8, <1>15 DEF DecideBatch
  <2>2. Committed(batch') <= job.prepared
    BY <1>5, <1>12
  <2> QED
    BY <1>4, <1>5, <1>6, <1>7, <1>9, <1>11, <1>13, <1>14, <2>1, <2>2, BatchStep
<1>16. CASE q.promote /\ q.current
  <2>1. /\ job' = Promoted(job) /\ stage' = AutoClosed(stage) /\ req' = JobWritten(rs)
        /\ UNCHANGED single
    BY <1>1, <1>3, <1>8, <1>16 DEF DecideBatch
  <2>2. job.status = "IN_PRODUCTION" /\ FullyResolved(job.prepared, batch')
    BY <1>1, <1>2, <1>3, <1>11, <1>16 DEF DecisionHolds, Promotable
  <2>3. Settled' /\ job.prepared = Ordered
    BY <2>2 DEF FullyResolved, Settled
  <2>4. /\ job' \in JobRow /\ job'.status = "PRODUCTION_COMPLETE" /\ job'.prepared = job.prepared
    BY <1>5, <2>1 DEF JobRow, JobStatus, Promoted
  <2>5. Flow(stage) /\ stage[1] # "NOT_STARTED"
    BY <2>2, ProductionIs DEF IInv, Started
  <2>6. /\ stage' \in StageMap /\ Flow(stage') /\ stage'[1] # "NOT_STARTED"
        /\ \A s \in 1 .. Stages : stage'[s] = stage[s] \/ (s = Stages /\ stage'[s] = "COMPLETED")
    BY <1>2, <2>1, <2>5, AutoClosedIs, AutoClosedFlow
  <2>7. /\ req' \in [Request -> RequestRow] /\ req'[r] = NoRequest
        /\ \A u \in Request \ {r} :
             /\ Same(req[u], req'[u])
             /\ (req[u].op \in JobOps \cup {"prepare"} \/ req[u].phase = "begun") => ~req'[u].current
    <3>1. /\ req' \in [Request -> RequestRow]
          /\ \A u \in Request :
               /\ Same(rs[u], req'[u])
               /\ (rs[u].op \in JobOps \cup {"prepare"} \/ rs[u].phase = "begun") => ~req'[u].current
      BY <1>9, <2>1, JobWrittenIs
    <3>2. \A u \in Request \ {r} : /\ req[u] \in RequestRow /\ rs[u] \in RequestRow
                                   /\ rs[u].op = req[u].op /\ rs[u].phase = req[u].phase
      <4> TAKE u \in Request \ {r}
      <4>1. req[u] \in RequestRow /\ Same(req[u], rs[u])
        BY <1>2, <1>9
      <4> QED
        BY <4>1, SameIs
    <3>3. \A u \in Request \ {r} : Same(req[u], req'[u])
      BY <1>9, <3>1, <3>2, SameTwice
    <3>4. req'[r] = NoRequest
      BY <1>9, <3>1, NoRequestIsIdle
    <3> QED
      BY <3>1, <3>2, <3>3, <3>4
  <2>8. TypeOK'
    <3>1. batch' \in BatchMap
      BY <1>4, <1>5, <1>6, <1>11, CommittedChange
    <3> QED
      BY <2>1, <2>4, <2>6, <2>7, <3>1, Typed, TypedNext DEF IInv
  <2>9. \A s \in 1 .. Stages : Started(s) => Started(s)'
    BY <2>6 DEF Started
  <2>10. Frame({r})
    BY <1>7, <1>13, <2>1, <2>6, <2>7, <2>9, PassedIs DEF Frame
  <2>11. Production'
    <3>1. \A x \in Batch : Started(FinalAt)'
      BY <1>7, <2>9, Consts
    <3> QED
      BY <2>1, <2>4, <2>6, <3>1 DEF Flow, Production, Started, GatesSatisfied
  <2>12. DispositionIsEarned'
    <3>1. batch'[b] = row /\ \A x \in Batch : x # b => batch'[x] = batch[x]
      BY <1>4, <1>5, <1>11 DEF BatchMap
    <3> QED
      BY <1>6, <3>1, EarnedIs DEF IInv
  <2>13. PreparedCoversBatches' /\ CompleteIsResolved'
    BY <1>5, <1>12, <2>3, <2>4, PropertiesAre
  <2>14. RequestHolds(r)' /\ req'[r].phase # "begun"
    BY <2>7, NoRequestIsIdle DEF RequestHolds
  <2>15. LocksExclusive'
    BY <2>8, <2>10, <2>14, FrameKeepsLocks
  <2> QED
    BY <2>8, <2>10, <2>11, <2>12, <2>13, <2>14, <2>15, FrameKeepsIInv DEF Safety
<1> QED
  BY <1>15, <1>16

-----------------------------------------------------------------------------
(* The theorems *)

LEMMA InitIInv == Init => IInv
<1> SUFFICES ASSUME Init PROVE IInv
  OBVIOUS
<1>1. TypeOK
  <2>1. /\ job \in JobRow /\ stage \in StageMap /\ single \in [Activity -> Attempt]
    BY Consts DEF Init, JobRow, JobStatus, StageMap, Attempt
  <2>2. batch \in BatchMap
    BY Consts DEF Init, BatchMap, BatchRow, Disposition, Attempt
  <2>3. req \in [Request -> RequestRow]
    BY NoRequestTyped DEF Init
  <2> QED
    BY <2>1, <2>2, <2>3, Typed
<1>2. \A r \in Request : req[r].phase = "idle"
  BY NoRequestIsIdle DEF Init
<1>3. LocksExclusive /\ \A r \in Request : RequestHolds(r)
  BY <1>2 DEF LocksExclusive, RequestHolds
<1>4. \A s \in 1 .. Stages : stage[s] = "NOT_STARTED"
  BY DEF Init
<1>5. Production
  BY <1>4, Consts DEF Init, Production, Started
<1>6. DispositionIsEarned /\ CompleteIsResolved
  BY DEF Init, DispositionIsEarned, CompleteIsResolved
<1>7. PreparedCoversBatches
  <2>1. Live(batch) = {}
    BY DEF Init, Live
  <2>2. Committed(batch) = 0
    BY <2>1, SumEmpty DEF Committed
  <2> QED
    BY <2>2, Consts, PropertiesAre DEF Init
<1> QED
  BY <1>1, <1>3, <1>5, <1>6, <1>7 DEF IInv

LEMMA StutterKeepsIInv == ASSUME IInv, UNCHANGED vars PROVE IInv'
<1>1. UNCHANGED <<job, stage, single, batch>> /\ req' = req
  BY DEF vars
<1>2. TypeOK'
  BY <1>1, Typed, TypedNext DEF IInv
<1>3. PICK A \in SUBSET Request : A = {}
  OBVIOUS
<1>4. Frame(A)
  BY <1>1, PassedIs DEF Frame, Same, Started
<1>5. Safety'
  BY <1>1, RowsUnchanged
<1>6. LocksExclusive'
  BY <1>2, <1>3, <1>4, FrameKeepsLocks
<1> QED
  BY <1>2, <1>3, <1>4, <1>5, <1>6, FrameKeepsIInv

LEMMA NextIInv == IInv /\ [Next]_vars => IInv'
<1> SUFFICES ASSUME IInv, [Next]_vars PROVE IInv'
  OBVIOUS
<1>1. CASE SendJobOrderToFactory \/ ConfirmJobOrder \/ CancelJobOrder
  BY <1>1, TransitionsKeepIInv
<1>2. ASSUME NEW r \in Request, NEW s \in 1 .. Stages, ReadStage(r, s) \/ ReadUndo(r, s)
      PROVE IInv'
  BY <1>2, ReadStageKeepsIInv, ReadUndoOrMarkKeepsIInv
<1>3. ASSUME NEW r \in Request, ReadMark(r) PROVE IInv'
  BY <1>3, ReadUndoOrMarkKeepsIInv
<1>4. ASSUME NEW r \in Request, NEW n \in 0 .. Ordered, ReadPrepare(r, n) PROVE IInv'
  BY <1>4, ReadPrepareOrBatchKeepsIInv
<1>5. ASSUME NEW r \in Request, NEW n \in 1 .. Ordered, ReadBatch(r, n) PROVE IInv'
  <2>1. n \in 0 .. Ordered /\ n # 0
    BY Consts
  <2> QED
    BY <1>5, <2>1, ReadPrepareOrBatchKeepsIInv
<1>6. ASSUME NEW r \in Request,
             \/ \E a \in Activity : ReadOpen(r, a)
             \/ \E x \in Activity \cup Batch, o \in Outcome : ReadJudge(r, x, o)
             \/ \E b \in Batch : ReadDecide(r, "reject", b) \/ ReadDecide(r, "cancel", b)
      PROVE  IInv'
  BY <1>6, ReadQualityKeepsIInv
<1>7. ASSUME NEW r \in Request, Begin(r) PROVE IInv'
  BY <1>7, BeginKeepsIInv
<1>8. ASSUME NEW r \in Request, StartProductionStage(r) \/ CompleteProductionStage(r)
                                \/ UndoCompletedProductionStage(r)
      PROVE  IInv'
  BY <1>8, StartKeepsIInv, CompleteKeepsIInv, UndoKeepsIInv
<1>9. ASSUME NEW r \in Request, MarkJobOrderProductionComplete(r) \/ UpdatePreparedQuantity(r)
      PROVE  IInv'
  BY <1>9, MarkKeepsIInv, PrepareKeepsIInv
<1>10. ASSUME NEW r \in Request, StartActivity(r) \/ FinalizeActivity(r) PROVE IInv'
  BY <1>10, ActivitiesKeepIInv
<1>11. ASSUME NEW r \in Request, StartFinalPhysicalBatch(r) PROVE IInv'
  BY <1>11, StartBatchKeepsIInv
<1>12. ASSUME NEW r \in Request, BeginDecision(r) PROVE IInv'
  BY <1>12, BeginDecisionKeepsIInv
<1>13. ASSUME NEW r \in Request, DecideBatch(r) PROVE IInv'
  BY <1>13, DecideKeepsIInv
<1>14. ASSUME NEW b \in Batch, SaveDraft(b) \/ StartFinalBatchReinspection(b) PROVE IInv'
  BY <1>14, DraftsKeepIInv
<1>15. CASE UNCHANGED vars
  BY <1>15, StutterKeepsIInv
<1> QED
  BY <1>1, <1>2, <1>3, <1>4, <1>5, <1>6, <1>7, <1>8, <1>9, <1>10, <1>11, <1>12, <1>13, <1>14,
     <1>15 DEF Next

\* The strengthened invariant holds of every state of a behavior.
THEOREM Invariance == Spec => []IInv
<1> QED
  BY InitIInv, NextIInv, PTL DEF Spec

\* Every variable has its type in every state, for any process flow, batches and
\* requests.
THEOREM TypeCorrect == Spec => []TypeOK
<1>1. IInv => TypeOK
  BY DEF IInv
<1> QED
  BY <1>1, Invariance, PTL

\* The pieces in final batches never exceed those prepared, nor these the ordered
\* ones, whatever startFinalPhysicalBatch, updatePreparedQuantity and the decisions
\* on batches run beside each other.
THEOREM PreparedCovers == Spec => []PreparedCoversBatches
<1>1. IInv => PreparedCoversBatches
  BY DEF IInv
<1> QED
  BY <1>1, Invariance, PTL

\* A batch is released, rejected or cancelled as its latest attempt says, although
\* the inspector's request is checked before the transaction that judges the batch.
THEOREM DispositionFollowsAttempt == Spec => []DispositionIsEarned
<1>1. IInv => DispositionIsEarned
  BY DEF IInv
<1> QED
  BY <1>1, Invariance, PTL

\* An order recalculateJobOrderStatus declared complete is and stays resolved in
\* every ordered piece, also when the prepared quantity is updated with the status
\* that was read.
THEOREM AutomaticIsResolved == Spec => []CompleteIsResolved
<1>1. IInv => CompleteIsResolved
  BY DEF IInv
<1> QED
  BY <1>1, Invariance, PTL

\* When final inspection is associated with the last stage, stages are started and
\* stay started in order, behind the gates and the inline inspection, and the order's
\* status agrees with its first stage.
THEOREM ProductionInOrder == FinalAt = Stages => (Spec => []StagesInOrder)
<1> SUFFICES ASSUME FinalAt = Stages PROVE Spec => []StagesInOrder
  OBVIOUS
<1>1. IInv => StagesInOrder
  BY DEF IInv, Production, StagesInOrder, Started
<1> QED
  BY <1>1, Invariance, PTL

\* Whatever stage final inspection is associated with, no stage is started past the
\* gate, nor before one that is not started (startProductionStage and the closing of
\* the last stage by recalculateJobOrderStatus).
THEOREM StagesNotSkipped == Spec => []NoStageSkipped
<1>1. IInv => NoStageSkipped
  BY DEF IInv, Production, NoStageSkipped
<1> QED
  BY <1>1, Invariance, PTL

\* undoCompletedProductionStage reopens the last stage only while no batch is in
\* final inspection: its recount under the accounting lock holds until it commits.
THEOREM ReopenedBeforeInspection == Spec => UndoneBeforeInspection
<1>1. IInv /\ [Next]_vars =>
        [stage[Stages] = "COMPLETED" /\ stage'[Stages] # "COMPLETED" => Live(batch) = {}]_vars
  <2> SUFFICES ASSUME IInv, Next, stage[Stages] = "COMPLETED", stage'[Stages] # "COMPLETED"
               PROVE  Live(batch) = {}
    BY DEF vars
  <2>1. stage \in StageMap
    BY Typed DEF IInv
  <2>2. ASSUME NEW st \in StageMap, AutoClosed(st)[Stages] # "COMPLETED"
        PROVE  st[Stages] # "COMPLETED"
    BY <2>2, AutoClosedIs, Consts
  <2>3. ASSUME NEW r \in Request, StartProductionStage(r) PROVE FALSE
    <3>1. PICK s : s = req[r].at
      OBVIOUS
    <3>2. stage' = stage \/ (stage[s] = "NOT_STARTED" /\ stage' = [stage EXCEPT ![s] = "IN_PROGRESS"])
      BY <2>3, <3>1 DEF StartProductionStage
    <3>3. CASE stage[s] = "NOT_STARTED" /\ stage' = [stage EXCEPT ![s] = "IN_PROGRESS"]
      <4>1. s # Stages /\ Stages \in 1 .. Stages
        BY <3>3, Consts
      <4>2. stage'[Stages] = stage[Stages]
        BY <2>1, <3>3, <4>1 DEF StageMap
      <4> QED
        BY <4>2
    <3> QED
      BY <3>2, <3>3
  <2>4. ASSUME NEW r \in Request, CompleteProductionStage(r) PROVE FALSE
    <3>1. PICK st : st = [stage EXCEPT ![req[r].at] = "COMPLETED"]
      OBVIOUS
    <3>2. st \in StageMap /\ st[Stages] = "COMPLETED"
      BY <2>1, <3>1, Consts DEF StageMap
    <3>3. stage' = stage \/ stage' = st \/ stage' = AutoClosed(st)
      BY <2>4, <3>1 DEF CompleteProductionStage, Recalculated
    <3> QED
      BY <2>2, <3>2, <3>3
  <2>5. ASSUME NEW r \in Request, UpdatePreparedQuantity(r) PROVE FALSE
    BY <2>1, <2>2, <2>5 DEF UpdatePreparedQuantity, Recalculated
  <2>6. ASSUME NEW r \in Request, DecideBatch(r) PROVE FALSE
    BY <2>1, <2>2, <2>6 DEF DecideBatch
  <2>7. ASSUME NEW r \in Request, UndoCompletedProductionStage(r) PROVE Live(batch) = {}
    <3>1. req[r].phase = "begun" /\ req[r].op = "undo"
      BY <2>7 DEF UndoCompletedProductionStage, Committing
    <3>2. req[r].at = Stages
      BY <2>1, <2>7, Consts DEF UndoCompletedProductionStage, StageMap
    <3> QED
      BY <3>1, <3>2 DEF IInv, RequestHolds, StageHolds
  <2>8. stage' = stage \/ \E r \in Request :
          \/ StartProductionStage(r) \/ CompleteProductionStage(r) \/ UndoCompletedProductionStage(r)
          \/ UpdatePreparedQuantity(r) \/ DecideBatch(r)
    BY DEF Next, SendJobOrderToFactory, ConfirmJobOrder, CancelJobOrder, Transition, ReadStage,
           ReadUndo, ReadMark, ReadPrepare, ReadBatch, ReadOpen, ReadJudge, ReadDecide, Receive,
           Begin, MarkJobOrderProductionComplete, StartActivity, FinalizeActivity,
           StartFinalPhysicalBatch, BeginDecision, SaveDraft, StartFinalBatchReinspection
  <2> QED
    BY <2>3, <2>4, <2>5, <2>6, <2>7, <2>8
<1> QED
  BY <1>1, Invariance, PTL DEF Spec, UndoneBeforeInspection
=============================================================================
