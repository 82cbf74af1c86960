--------------------------- MODULE GstinVerification ---------------------------
(***************************************************************************)
(* Paid lookups of one GSTIN at a provider: a user prepares an intent and  *)
(* confirms it; executing it claims the key of the lookup, reads what is   *)
(* known, checks the settings again, calls the provider and saves what it  *)
(* answered.  Each of these is a transaction or a query of its own; the    *)
(* same intent may be executed twice at once, servers stop between any two *)
(* steps, and operators release claims that stayed behind.                 *)
(***************************************************************************)
EXTENDS Integers, Sequences, FiniteSets

CONSTANTS
    Intent,         \* GstVerificationOperation rows
    Request,        \* execute requests in flight
    Choices,        \* the settings an accountant may choose, <<mode, level>>
    Life,           \* how long a confirmation may wait, in ticks of the clock
    Fresh,          \* ttlSeconds of each level, in ticks
    Limit,          \* lookups that may be claimed in one tick
    MaxTime,        \* bound on the clock
    MaxSettings     \* bound on the version of the settings

ASSUME BoundsAssumption ==
    /\ {Life, Limit, MaxTime} \subseteq Nat \ {0} /\ MaxSettings \in Nat
    /\ Fresh \in [{"BASIC", "COMPLETE"} -> Nat \ {0}]
    /\ Choices \subseteq {"DEMO", "LIVE"} \X {"BASIC", "COMPLETE"}
    /\ <<"DEMO", "BASIC">> \in Choices

VARIABLES
    now,            \* the clock
    settings,       \* integration mode and level, with their version
    intents,        \* intent -> its row
    claims,         \* GstVerificationClaim rows: keys with the intent that holds them
    evidence,       \* GstVerificationEvidence rows in the order of their saving
    released,       \* the intents whose claim an operator has released
    req             \* request -> where its handler is

vars == <<now, settings, intents, claims, evidence, released, req>>

Never == -1
Held  == {"DISPATCHED", "UNCERTAIN"}
\* DEFAULT_GST_COMPLIANCE_VALUES
Default  == <<"DEMO", "BASIC">>
NoIntent == [outcome |-> "NONE", what |-> Default, version |-> 0, refresh |-> FALSE,
             seen |-> 0, created |-> 0, dispatched |-> Never]
NoRequest == [phase |-> "idle", on |-> {}, at |-> 0]

Key(i) == intents[i].what
Holds(i) == \E c \in claims : c.by = i
\* the intent a request executes
On(r) == CHOOSE i \in req[r].on : TRUE

Phases == {"idle", "claiming", "consulting", "checking", "covered", "calling",
           "answered", "refused", "unknown", "cancelled"}

IntentRow   == [outcome: Held \cup {"NONE", "PREPARED", "SUCCEEDED", "CACHE_HIT", "FAILED"},
                what: Choices, version: 0 .. MaxSettings, refresh: BOOLEAN,
                seen: Nat, created: Nat, dispatched: Int]
ClaimRow    == [key: Choices, by: Intent]
EvidenceRow == [by: Intent, at: Nat]
RequestRow  == [phase: Phases, on: SUBSET Intent, at: Nat]

\* a key has one claim, which is the one of its intent; a request that has come
\* past its claim knows its intent
TypeOK ==
    /\ now \in 0 .. MaxTime
    /\ settings \in [what : Choices, version : 0 .. MaxSettings]
    /\ intents \in [Intent -> IntentRow]
    /\ \A i \in Intent : /\ intents[i].created <= now /\ intents[i].dispatched \in -1 .. now
                         /\ intents[i].seen <= Len(evidence)
    /\ evidence \in Seq(EvidenceRow) /\ \A e \in DOMAIN evidence : evidence[e].at <= now
    /\ claims \subseteq ClaimRow
    /\ \A c, d \in claims : c.key = Key(c.by) /\ (c.key = d.key => c = d)
    /\ released \subseteq Intent
    /\ req \in [Request -> RequestRow]
    /\ \A r \in Request : /\ req[r].phase # "idle" => \E i \in Intent : req[r].on = {i}
                          /\ req[r].at <= now

Init ==
    /\ now = 0
    /\ settings = [what |-> Default, version |-> 0]
    /\ intents = [i \in Intent |-> NoIntent]
    /\ claims = {} /\ evidence = << >> /\ released = {}
    /\ req = [r \in Request |-> NoRequest]

-----------------------------------------------------------------------------
(* What is known *)

\* The latest evidence of a mode and level, if any.  A key is looked up by one
\* request at a time, so its evidence is saved in the order of its retrieval.
Latest(what) == {e \in DOMAIN evidence :
                   /\ Key(evidence[e].by) = what
                   /\ \A d \in DOMAIN evidence : Key(evidence[d].by) = what => d <= e}

Rows(what) == Latest(<<what[1], "BASIC">>) \cup Latest(<<what[1], "COMPLETE">>)
\* complete evidence answers for both levels
Sufficient(what) == Latest(what) \cup Latest(<<what[1], "COMPLETE">>)

IsFresh(e) == now < evidence[e].at + Fresh[Key(evidence[e].by)[2]]

\* the rows are tried latest first, the basic one first of two of an instant
First(S) == {e \in S : \A d \in S \ {e} :
               \/ evidence[d].at < evidence[e].at
               \/ evidence[d].at = evidence[e].at /\ Key(evidence[e].by)[2] = "BASIC"}

\* the fresh evidence that answers for the level, if any
Covering(what) == First({e \in Sufficient(what) : IsFresh(e)})

\* The evidence a view shows: coverage, or else what is fresh, what would have been
\* coverage, or whatever there is; 0 for none.
Shown(what) ==
    LET fresh == {e \in Rows(what) : IsFresh(e)}
        best  == IF Covering(what) # {} THEN Covering(what)
                 ELSE IF fresh # {} THEN fresh
                 ELSE IF Sufficient(what) # {} THEN Sufficient(what) ELSE Rows(what)
    IN  IF best = {} THEN {0} ELSE First(best)

-----------------------------------------------------------------------------
(* The surroundings *)

Tick ==
    /\ now < MaxTime /\ now' = now + 1
    /\ UNCHANGED <<settings, intents, claims, evidence, released, req>>

UpdateSettings ==
    /\ settings.version < MaxSettings
    /\ \E what \in Choices \ {settings.what} :
         settings' = [what |-> what, version |-> settings.version + 1]
    /\ UNCHANGED <<now, intents, claims, evidence, released, req>>

\* A worker that is at the provider, or has its answer, is at work.
AtWork(i) == \E r \in Request : req[r].on = {i} /\ req[r].phase # "idle" /\ req[r].phase # "claiming"

\* NOT_CHARGED: a held claim, with the attestation that nobody is at work on it
Releasable(i) ==
    /\ Holds(i) /\ intents[i].outcome \in Held /\ \A e \in DOMAIN evidence : evidence[e].by # i
    /\ i \notin released
    /\ intents[i].outcome = "DISPATCHED" => intents[i].dispatched < now /\ ~AtWork(i)

ReconcileClaim(i) ==
    /\ Releasable(i)
    /\ claims' = {c \in claims : c.by # i} /\ released' = released \cup {i}
    /\ UNCHANGED <<now, settings, intents, evidence, req>>

-----------------------------------------------------------------------------
(* Preparing *)

Prepare(i) ==
    /\ intents[i].outcome = "NONE"
    /\ \E refresh \in BOOLEAN :
         /\ refresh \/ Covering(settings.what) = {}
         /\ \E seen \in Shown(settings.what) :
              intents' = [intents EXCEPT ![i] =
                 [outcome |-> "PREPARED", what |-> settings.what, version |-> settings.version,
                  refresh |-> refresh, seen |-> seen, created |-> now, dispatched |-> Never]]
    /\ UNCHANGED <<now, settings, claims, evidence, released, req>>

-----------------------------------------------------------------------------
(* Executing *)

\* the settings are still those that were confirmed
Confirmed(i) == intents[i].version = settings.version /\ intents[i].what = settings.what

Execute(r, i) ==
    /\ req[r] = NoRequest
    /\ intents[i].outcome # "NONE" /\ Confirmed(i)
    /\ intents[i].outcome \notin {"SUCCEEDED", "CACHE_HIT"}
    /\ now < intents[i].created + Life
    /\ req' = [req EXCEPT ![r] = [phase |-> "claiming", on |-> {i}, at |-> 0]]
    /\ UNCHANGED <<now, settings, intents, claims, evidence, released>>

Recent == {i \in Intent : intents[i].dispatched = now}

\* fault: an intent may be executed as long as it has no result
Claimable_if_unresolved(i) ==
    /\ intents[i].outcome \notin {"SUCCEEDED", "CACHE_HIT"} /\ now < intents[i].created + Life
    /\ Cardinality(Recent) < Limit

Claimable(i) ==
    /\ intents[i].outcome = "PREPARED" /\ now < intents[i].created + Life
    /\ \A c \in claims : c.key # Key(i)
    /\ Cardinality(Recent) < Limit

Claim(r) ==
    LET i == On(r) IN
    /\ req[r].phase = "claiming"
    /\ IF Claimable(i)
       THEN /\ claims' = claims \cup {[key |-> Key(i), by |-> i]}
            /\ intents' = [intents EXCEPT ![i].outcome = "DISPATCHED", ![i].dispatched = now]
            /\ req' = [req EXCEPT ![r].phase = "consulting"]
       ELSE req' = [req EXCEPT ![r] = NoRequest] /\ UNCHANGED <<claims, intents>>
    /\ UNCHANGED <<now, settings, evidence, released>>

\* a refresh is answered only by what was retrieved since it was confirmed
Answers(i, e) ==
    intents[i].refresh => e # intents[i].seen /\ evidence[e].at >= intents[i].created

\* fault: what was confirmed to be refreshed is looked up whatever came in since
Consult_unless_refreshing(r) ==
    /\ req[r].phase = "consulting"
    /\ req' = [req EXCEPT ![r].phase =
                 IF Covering(settings.what) = {} \/ intents[On(r)].refresh THEN "checking" ELSE "covered"]
    /\ UNCHANGED <<now, settings, intents, claims, evidence, released>>

\* The view is read under the settings of the moment.
Consult(r) ==
    /\ req[r].phase = "consulting"
    /\ \/ /\ Covering(settings.what) = {}
          /\ req' = [req EXCEPT ![r].phase = "checking"]
       \/ \E e \in Covering(settings.what) :
            req' = [req EXCEPT ![r].phase = IF Answers(On(r), e) THEN "covered" ELSE "checking"]
    /\ UNCHANGED <<now, settings, intents, claims, evidence, released>>

Recheck(r) ==
    /\ req[r].phase = "checking"
    /\ req' = [req EXCEPT ![r].phase = IF Confirmed(On(r)) THEN "calling" ELSE "cancelled"]
    /\ UNCHANGED <<now, settings, intents, claims, evidence, released>>

\* the provider answered, refused for sure, or there is no knowing
Lookup(r) ==
    /\ req[r].phase = "calling"
    /\ \E phase \in {"answered", "refused", "unknown"} :
         req' = [req EXCEPT ![r].phase = phase, ![r].at = IF phase = "answered" THEN now ELSE 0]
    /\ UNCHANGED <<now, settings, intents, claims, evidence, released>>

\* The end of an intent: its outcome, and its claim given up or kept.
End(r, outcome, keep) ==
    LET i == On(r) IN
    /\ intents' = [intents EXCEPT ![i].outcome = outcome]
    /\ claims' = IF keep THEN claims ELSE {c \in claims : c.by # i}
    /\ req' = [req EXCEPT ![r] = NoRequest]
    /\ UNCHANGED <<now, settings, released>>

CacheHit(r) == req[r].phase = "covered" /\ End(r, "CACHE_HIT", FALSE) /\ UNCHANGED evidence

\* The evidence is saved and the claim given up, with or without the worker being
\* told so; or the transaction fails and the outcome is unknown to the service
\* though the provider has answered.
Complete(r) ==
    LET i == On(r) IN
    /\ req[r].phase = "answered"
    /\ \/ /\ intents' = [intents EXCEPT ![i].outcome = "SUCCEEDED"]
          /\ claims' = {c \in claims : c.by # i}
          /\ evidence' = Append(evidence, [by |-> i, at |-> req[r].at])
          /\ \E told \in BOOLEAN :
               req' = [req EXCEPT ![r] = IF told THEN NoRequest
                                         ELSE [@ EXCEPT !.phase = "unknown", !.at = 0]]
          /\ UNCHANGED <<now, settings, released>>
       \/ /\ req' = [req EXCEPT ![r].phase = "unknown", ![r].at = 0]
          /\ UNCHANGED <<now, settings, intents, claims, evidence, released>>

\* fault: every failure gives the claim up
Fail_for_good(r) ==
    /\ req[r].phase \in {"refused", "cancelled", "unknown"}
    /\ End(r, IF req[r].phase = "unknown" THEN "UNCERTAIN" ELSE "FAILED", FALSE)
    /\ UNCHANGED evidence

\* what was refused for sure or never sent is over; what is uncertain keeps its claim
Fail(r) ==
    /\ req[r].phase \in {"refused", "cancelled", "unknown"}
    /\ IF req[r].phase = "unknown" THEN End(r, "UNCERTAIN", TRUE) ELSE End(r, "FAILED", FALSE)
    /\ UNCHANGED evidence

Crash(r) ==
    /\ req[r] # NoRequest /\ req' = [req EXCEPT ![r] = NoRequest]
    /\ UNCHANGED <<now, settings, intents, claims, evidence, released>>

-----------------------------------------------------------------------------
Next ==
    \/ Tick \/ UpdateSettings
    \/ \E i \in Intent : ReconcileClaim(i) \/ Prepare(i)
    \/ \E r \in Request :
         \/ \E i \in Intent : Execute(r, i)
         \/ Claim(r) \/ Consult(r) \/ Recheck(r) \/ Lookup(r) \/ CacheHit(r)
         \/ Complete(r) \/ Fail(r) \/ Crash(r)

Spec == Init /\ [][Next]_vars

-----------------------------------------------------------------------------
(* Properties *)

\* between the claim and the end of the work it stands for
Beyond == {"consulting", "checking", "covered", "calling", "answered", "refused", "cancelled"}

\* However often an intent is executed and whoever else wants its key, one request
\* at most is between its claim and its end, and it holds the claim of its key.
OneWorkerPerKey ==
    \A r \in Request : req[r].phase \in Beyond =>
        /\ [key |-> Key(On(r)), by |-> On(r)] \in claims
        /\ \A q \in Request \ {r} : req[q].phase \in Beyond => Key(On(q)) # Key(On(r))

\* What may have been paid for and has no result on record blocks its key until an
\* operator has released it: a crash, a lost answer or a failed save is never
\* followed by a second lookup on its own.
UncertainKeepsItsKey ==
    \A i \in Intent :
        intents[i].outcome \in Held =>
            Holds(i) \/ i \in released \/ \E e \in DOMAIN evidence : evidence[e].by = i

\* The provider is not paid for what is already known: when a lookup is sent, no
\* fresh evidence of its key has come in since its intent was confirmed, and
\* unless the intent is a refresh of what was known there is none at all.
KnownIsNotPaidForAgain ==
    [][\A r \in Request :
         req[r].phase = "checking" /\ req'[r].phase = "calling" =>
           \A e \in Latest(Key(On(r))) :
              IsFresh(e) => intents[On(r)].refresh /\ ~Answers(On(r), e)]_vars
=============================================================================
