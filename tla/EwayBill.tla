------------------------------- MODULE EwayBill -------------------------------
(***************************************************************************)
(* E-way bills of one tax invoice: the movement of the goods, demo bills   *)
(* generated at a provider (prepare, claim, call, complete), attempts      *)
(* closed by hand, and bills linked by number.                             *)
(*                                                                         *)
(* Every transaction holds the lifecycle lock of the invoice and is one    *)
(* action; the call of the provider is outside any.  Servers stop between  *)
(* any two steps.  A server that goes on makes its call within Stall of    *)
(* the claim, and the call ends within Timeout.                            *)
(***************************************************************************)
EXTENDS Integers, Sequences, FiniteSets

CONSTANTS
    Request,        \* generation requests in flight
    Timeout,        \* providerTimeoutMs, in ticks of the clock
    Grace,          \* DISPATCHED_REVIEW_GRACE_MS, in ticks
    Stall,          \* the longest a server takes from a claim to its call
    MaxTime,        \* bound on the clock
    MaxAttempt,     \* bound on the attempts ever prepared
    MaxChange       \* bound on the changes of the movement and the settings

ASSUME BillAssumption ==
    /\ {Timeout, Grace, MaxTime, MaxAttempt, MaxChange} \subseteq Nat \ {0}
    /\ Stall \in Nat /\ Stall < Grace

VARIABLES
    now,            \* the clock
    invoice,        \* the status of the tax invoice
    movement,       \* the version of its movement
    settings,       \* the version of the GST settings; even ones allow generation
    attempts,       \* EwayBillRequestAttempt rows in the order of their creation
    bills,          \* the attempts that DEMO bills were recorded for
    linked,         \* whether a LIVE bill was linked by number
    req,            \* request -> where its handler is
    sent            \* attempts the provider may hold a bill of: it was asked for
                    \* one and has not refused for sure (kept by nobody)

billVars == <<now, invoice, movement, settings, attempts, bills, linked, req, sent>>

Attempt == DOMAIN attempts
Open    == {"PREPARED", "DISPATCHED", "UNCERTAIN"}
IsOpen(i) == attempts[i].outcome \in Open
NoRequest == [phase |-> "idle", on |-> 0, at |-> 0, reply |-> "none"]

\* a request knows its attempt, and an attempt that is over has no review time
BillTypeOK ==
    /\ now \in 0 .. MaxTime
    /\ invoice \in {"FINALIZED", "CANCELLED"}
    /\ movement \in 0 .. MaxChange /\ settings \in 0 .. MaxChange
    /\ attempts \in Seq([outcome : Open \cup {"SUCCEEDED", "REJECTED", "CLOSED"},
                         movement : Nat, settings : Nat, review : Int])
    /\ Len(attempts) <= MaxAttempt
    /\ \A i \in Attempt : attempts[i].review >= 0 <=> IsOpen(i)
    /\ bills \subseteq Attempt /\ linked \in BOOLEAN
    /\ req \in [Request -> [phase : {"idle", "prepared", "claimed", "calling", "answered", "failed"},
                            on : 0 .. Len(attempts), at : 0 .. MaxTime,
                            reply : {"none", "bill", "refused", "unknown"}]]
    /\ \A r \in Request : req[r].phase = "idle" <=> req[r].on = 0
    /\ sent \subseteq Attempt

BillInit ==
    /\ now = 0 /\ invoice = "FINALIZED" /\ movement = 0 /\ settings = 0
    /\ attempts = << >> /\ bills = {} /\ linked = FALSE
    /\ req = [r \in Request |-> NoRequest] /\ sent = {}

-----------------------------------------------------------------------------
(* The surroundings *)

\* a claimed request is sent within Stall, a call answered or given up in time
Late(r) == \/ req[r].phase = "claimed" /\ req[r].at + Stall <= now
           \/ req[r].phase = "calling" /\ req[r].at + Timeout <= now

Tick ==
    /\ now < MaxTime /\ \A r \in Request : ~Late(r)
    /\ now' = now + 1
    /\ UNCHANGED <<invoice, movement, settings, attempts, bills, linked, req, sent>>

CancelItsInvoice ==
    /\ invoice = "FINALIZED" /\ invoice' = "CANCELLED"
    /\ UNCHANGED <<now, movement, settings, attempts, bills, linked, req, sent>>

ChangeSettings ==
    /\ settings < MaxChange /\ settings' = settings + 1
    /\ UNCHANGED <<now, invoice, movement, attempts, bills, linked, req, sent>>

\* fault: the movement of an attempt with an unknown outcome may change
MovementFree_unless_in_flight ==
    \A i \in Attempt : attempts[i].outcome \notin {"PREPARED", "DISPATCHED"}

MovementFree == \A i \in Attempt : ~IsOpen(i)

SaveMovement ==
    /\ invoice # "CANCELLED" /\ MovementFree
    /\ movement < MaxChange /\ movement' = movement + 1
    /\ UNCHANGED <<now, invoice, settings, attempts, bills, linked, req, sent>>

LinkExisting ==
    /\ invoice = "FINALIZED" /\ ~linked /\ linked' = TRUE
    /\ UNCHANGED <<now, invoice, movement, settings, attempts, bills, req, sent>>

-----------------------------------------------------------------------------
(* Generating a demo bill *)

\* evaluateGeneration: the settings allow it, the request can be built, there is
\* no demo bill and no open attempt but one's own
Permitted(own) ==
    /\ invoice = "FINALIZED" /\ movement > 0 /\ settings % 2 = 0 /\ bills = {}
    /\ \A i \in Attempt \ {own} : ~IsOpen(i)

Prepare(r) ==
    /\ req[r] = NoRequest /\ Permitted(0) /\ Len(attempts) < MaxAttempt
    /\ attempts' = Append(attempts, [outcome |-> "PREPARED", movement |-> movement,
                                     settings |-> settings, review |-> now + Grace])
    /\ req' = [req EXCEPT ![r] = [phase |-> "prepared", on |-> Len(attempts) + 1,
                                  at |-> 0, reply |-> "none"]]
    /\ UNCHANGED <<now, invoice, movement, settings, bills, linked, sent>>

\* an attempt changes only if it is still what the handler takes it to be
Transition(i, from, to, review) ==
    attempts' = IF attempts[i].outcome \in from
                THEN [attempts EXCEPT ![i].outcome = to, ![i].review = review]
                ELSE attempts

Unchanged(i) == attempts[i].settings = settings /\ attempts[i].movement = movement

ReviewAfter == now + Timeout + Grace

Claim(r) ==
    LET i == req[r].on IN
    /\ req[r].phase = "prepared"
    /\ IF Permitted(i) /\ Unchanged(i)
       THEN /\ Transition(i, {"PREPARED"}, "DISPATCHED", ReviewAfter)
            /\ req' = [req EXCEPT ![r] = IF attempts[i].outcome = "PREPARED"
                         THEN [@ EXCEPT !.phase = "claimed", !.at = now] ELSE NoRequest]
       ELSE /\ Transition(i, {"PREPARED"}, "REJECTED", -1)
            /\ req' = [req EXCEPT ![r] = NoRequest]
    /\ UNCHANGED <<now, invoice, movement, settings, bills, linked, sent>>

Call(r) ==
    /\ req[r].phase = "claimed"
    /\ req' = [req EXCEPT ![r].phase = "calling", ![r].at = now]
    /\ sent' = sent \cup {req[r].on}
    /\ UNCHANGED <<now, invoice, movement, settings, attempts, bills, linked>>

\* the provider made a bill, refused for sure, or there is no knowing
Answered(r) ==
    /\ req[r].phase = "calling"
    /\ \E reply \in {"bill", "refused", "unknown"} :
         /\ req' = [req EXCEPT ![r].phase = "answered", ![r].at = 0, ![r].reply = reply]
         /\ sent' = IF reply = "refused" THEN sent \ {req[r].on} ELSE sent
    /\ UNCHANGED <<now, invoice, movement, settings, attempts, bills, linked>>

\* fault: the bill is recorded whatever became of the attempt
Complete_anyway(r) ==
    LET i == req[r].on IN
    /\ req[r].phase = "answered" /\ req[r].reply = "bill"
    /\ Transition(i, {"DISPATCHED"}, "SUCCEEDED", -1)
    /\ bills' = bills \cup {i} /\ req' = [req EXCEPT ![r] = NoRequest]
    /\ UNCHANGED <<now, invoice, movement, settings, linked, sent>>

\* The bill and the end of the attempt are recorded together, or neither is: the
\* attempt was closed meanwhile or the transaction fails.
Complete(r) ==
    LET i == req[r].on IN
    /\ req[r].phase = "answered" /\ req[r].reply = "bill"
    /\ \/ /\ attempts[i].outcome = "DISPATCHED" /\ bills = {}
          /\ Transition(i, {"DISPATCHED"}, "SUCCEEDED", -1)
          /\ bills' = bills \cup {i} /\ req' = [req EXCEPT ![r] = NoRequest]
       \/ /\ req' = [req EXCEPT ![r].phase = "failed", ![r].reply = "unknown"]
          /\ UNCHANGED <<attempts, bills>>
    /\ UNCHANGED <<now, invoice, movement, settings, linked, sent>>

\* fault: a call that timed out counts as refused
RecordFailure_as_refused(r) ==
    /\ req[r].phase \in {"answered", "failed"} /\ req[r].reply # "bill"
    /\ Transition(req[r].on, {"DISPATCHED"}, "REJECTED", -1)
    /\ req' = [req EXCEPT ![r] = NoRequest]
    /\ UNCHANGED <<now, invoice, movement, settings, bills, linked, sent>>

\* what is not a bill on record: refused for sure, or to be reviewed by a person
RecordFailure(r) ==
    LET i == req[r].on IN
    /\ req[r].phase \in {"answered", "failed"} /\ req[r].reply # "bill"
    /\ IF req[r].reply = "refused" THEN Transition(i, {"DISPATCHED"}, "REJECTED", -1)
       ELSE Transition(i, {"DISPATCHED"}, "UNCERTAIN", attempts[i].review)
    /\ req' = [req EXCEPT ![r] = NoRequest]
    /\ UNCHANGED <<now, invoice, movement, settings, bills, linked, sent>>

Crash(r) ==
    /\ req[r] # NoRequest /\ req' = [req EXCEPT ![r] = NoRequest]
    /\ UNCHANGED <<now, invoice, movement, settings, attempts, bills, linked, sent>>

Closable(i) ==
    IsOpen(i) /\ (attempts[i].outcome = "UNCERTAIN" \/ attempts[i].review <= now)

CloseDemoAttempt(i) ==
    /\ Closable(i)
    /\ Transition(i, Open, "CLOSED", -1)
    /\ UNCHANGED <<now, invoice, movement, settings, bills, linked, req, sent>>

-----------------------------------------------------------------------------
BillNext ==
    \/ Tick \/ CancelItsInvoice \/ ChangeSettings \/ SaveMovement \/ LinkExisting
    \/ \E r \in Request : \/ Prepare(r) \/ Claim(r) \/ Call(r) \/ Answered(r)
                          \/ Complete(r) \/ RecordFailure(r) \/ Crash(r)
    \/ \E i \in Attempt : CloseDemoAttempt(i)

BillSpec == BillInit /\ [][BillNext]_billVars

-----------------------------------------------------------------------------
(* Properties *)

\* At most one attempt of the invoice is open, and while one is, the movement it
\* was prepared from is still the movement of the invoice.
OpenAttemptIsExplained ==
    \A i \in Attempt : IsOpen(i) =>
        /\ attempts[i].movement = movement
        /\ \A j \in Attempt \ {i} : ~IsOpen(j)

\* From the claim to the answer the attempt is on record as dispatched, and until
\* the answer is recorded too, unless a person has closed it after its review time.
CallIsOnRecord ==
    \A r \in Request :
        /\ req[r].phase \in {"claimed", "calling"} => attempts[req[r].on].outcome = "DISPATCHED"
        /\ req[r].phase \in {"answered", "failed"} =>
             attempts[req[r].on].outcome \in {"DISPATCHED", "CLOSED"}

\* What was sent is never forgotten, whatever stops or comes late: an attempt the
\* provider may have made a bill of never counts as unsent or refused, and another
\* request is sent only after a person has closed each such attempt.
SentIsOnRecord ==
    /\ CallIsOnRecord
    /\ \A i \in sent : attempts[i].outcome \in {"DISPATCHED", "UNCERTAIN", "SUCCEEDED", "CLOSED"}
    /\ \A i, j \in sent : i < j => attempts[i].outcome = "CLOSED"

\* A demo bill is on record exactly for the attempt that succeeded, and there is
\* at most one, whatever came back late.
BillIsOfItsAttempt ==
    /\ \A i \in Attempt : attempts[i].outcome = "SUCCEEDED" <=> i \in bills
    /\ Cardinality(bills) <= 1
=============================================================================
