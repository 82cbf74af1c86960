------------------------ MODULE GstinVerificationProofs ------------------------
(***************************************************************************)
(* The safety of GstinVerification for any number of intents, requests and *)
(* settings, any limit and any length of time.                             *)
(***************************************************************************)
EXTENDS GstinVerification, TLAPS

-----------------------------------------------------------------------------
(* The inductive invariant *)

\* past the claim, with or without an end that was told
AtIt == Beyond \cup {"unknown"}

Recorded(i)  == \E e \in DOMAIN evidence : evidence[e].by = i
Accounted(i) == Holds(i) \/ i \in released \/ Recorded(i)

\* Requests and claims are of intents that were prepared.
IntentsArePrepared ==
    /\ \A r \in Request, i \in Intent :
         req[r].phase # "idle" /\ req[r].on = {i} => intents[i].outcome # "NONE"
    /\ \A c \in claims : intents[c.by].outcome # "NONE"

\* Whoever is past the claim of an intent is so alone; until the end he holds the
\* claim, and the intent is on record as dispatched.
WorkersAreAlone ==
    \A r \in Request, i \in Intent : req[r].on = {i} /\ req[r].phase \in AtIt =>
        /\ intents[i].outcome \notin {"NONE", "PREPARED"} /\ Accounted(i)
        /\ req[r].phase \in Beyond =>
             intents[i].outcome = "DISPATCHED" /\ [key |-> Key(i), by |-> i] \in claims
        /\ \A q \in Request \ {r} : req[q].phase \in AtIt => req[q].on # {i}

IInv == TypeOK /\ IntentsArePrepared /\ WorkersAreAlone /\ UncertainKeepsItsKey

-----------------------------------------------------------------------------
(* Requests *)

\* A request past "idle" executes the one intent it names.
LEMMA OnIs == ASSUME NEW r \in Request, NEW i \in Intent, req[r].on = {i} PROVE On(r) = i
  BY DEF On

LEMMA Executes ==
    ASSUME IInv, NEW r \in Request, req[r].phase # "idle"
    PROVE  On(r) \in Intent /\ req[r].on = {On(r)} /\ intents[On(r)].outcome # "NONE"
<1>1. PICK i \in Intent : req[r].on = {i}
  BY DEF IInv, TypeOK
<1> QED
  BY <1>1, OnIs DEF IInv, IntentsArePrepared

-----------------------------------------------------------------------------
(* Every step preserves the invariant *)

LEMMA InitIInv == Init => IInv
<1> SUFFICES ASSUME Init PROVE IInv
  OBVIOUS
<1>1. /\ evidence = << >> /\ Len(evidence) = 0 /\ DOMAIN evidence = {} /\ evidence \in Seq(EvidenceRow)
      /\ claims = {} /\ released = {} /\ now = 0
  BY DEF Init
<1>2. /\ NoIntent \in IntentRow /\ NoIntent.created = 0 /\ NoIntent.dispatched = -1
      /\ NoIntent.seen = 0 /\ NoIntent.outcome = "NONE"
  BY BoundsAssumption DEF NoIntent, IntentRow, Default, Never
<1>3. NoRequest \in RequestRow /\ NoRequest.phase = "idle" /\ NoRequest.at = 0
  BY DEF NoRequest, RequestRow, Phases
<1>4. /\ \A i \in Intent : intents[i] = NoIntent
      /\ \A r \in Request : req[r] = NoRequest
  BY DEF Init
<1>5. TypeOK
  <2>1. settings \in [what : Choices, version : 0 .. MaxSettings] /\ 0 \in 0 .. MaxTime
    BY BoundsAssumption DEF Init, Default
  <2>2. intents \in [Intent -> IntentRow] /\ req \in [Request -> RequestRow]
    BY <1>2, <1>3 DEF Init
  <2> QED
    BY <1>1, <1>2, <1>3, <1>4, <2>1, <2>2 DEF TypeOK
<1>6. IntentsArePrepared /\ WorkersAreAlone
  BY <1>1, <1>3, <1>4 DEF IntentsArePrepared, WorkersAreAlone, AtIt, Beyond
<1>7. UncertainKeepsItsKey
  BY <1>2, <1>4 DEF UncertainKeepsItsKey, Held
<1> QED
  BY <1>5, <1>6, <1>7 DEF IInv

\* A step of a request that changes nothing but its place: it does not pass the
\* claim, and may be given up.
LEMMA MovingKeepsIInv ==
    ASSUME IInv, NEW r \in Request, NEW row \in RequestRow,
           req' = [req EXCEPT ![r] = row], row.at <= now,
           UNCHANGED <<now, settings, intents, claims, evidence, released>>,
           row.phase # "idle" =>
             \E i \in Intent : row.on = {i} /\ intents[i].outcome # "NONE",
           row.phase \in AtIt => row.on = req[r].on /\ req[r].phase \in AtIt,
           row.phase \in Beyond => req[r].phase \in Beyond
    PROVE  IInv'
<1> USE DEF IInv
<1>1. req'[r] = row /\ \A q \in Request : q # r => req'[q] = req[q]
  BY DEF TypeOK
<1>2. TypeOK'
  <2>1. req' \in [Request -> RequestRow]
    BY DEF TypeOK
  <2>2. \A q \in Request : /\ req'[q].phase # "idle" => \E i \in Intent : req'[q].on = {i}
                           /\ req'[q].at <= now
    BY <1>1 DEF TypeOK
  <2> QED
    BY <2>1, <2>2 DEF TypeOK, Key
<1>3. IntentsArePrepared'
  BY <1>1 DEF IntentsArePrepared
<1>4. \A i : Accounted(i)' <=> Accounted(i)
  BY DEF Accounted, Holds, Recorded
<1>5. \A q \in Request : /\ req'[q].phase \in AtIt => req'[q].on = req[q].on /\ req[q].phase \in AtIt
                         /\ req'[q].phase \in Beyond => req[q].phase \in Beyond
  BY <1>1
<1>6. WorkersAreAlone'
  <2> SUFFICES ASSUME NEW q \in Request, NEW i \in Intent, req'[q].on = {i}, req'[q].phase \in AtIt
               PROVE  /\ intents[i].outcome \notin {"NONE", "PREPARED"} /\ Accounted(i)'
                      /\ req'[q].phase \in Beyond =>
                           intents[i].outcome = "DISPATCHED" /\ [key |-> Key(i)', by |-> i] \in claims
                      /\ \A p \in Request \ {q} : req'[p].phase \in AtIt => req'[p].on # {i}
    BY DEF WorkersAreAlone
  <2>1. req[q].on = {i} /\ req[q].phase \in AtIt
    BY <1>5
  <2>2. Key(i)' = Key(i)
    BY DEF Key
  <2>3. /\ intents[i].outcome \notin {"NONE", "PREPARED"} /\ Accounted(i)
        /\ req[q].phase \in Beyond =>
             intents[i].outcome = "DISPATCHED" /\ [key |-> Key(i), by |-> i] \in claims
        /\ \A p \in Request \ {q} : req[p].phase \in AtIt => req[p].on # {i}
    BY <2>1 DEF WorkersAreAlone
  <2> HIDE DEF IInv
  <2> QED
    BY <1>4, <1>5, <2>2, <2>3
<1>7. UncertainKeepsItsKey'
  BY <1>4 DEF UncertainKeepsItsKey, Accounted, Recorded
<1> QED
  BY <1>2, <1>3, <1>6, <1>7

\* Time, new settings, and an operator's release of a claim nobody works under.
LEMMA SurroundingsKeepIInv ==
    IInv /\ (Tick \/ UpdateSettings \/ UNCHANGED vars) => IInv'
<1> SUFFICES ASSUME IInv, Tick \/ UpdateSettings \/ UNCHANGED vars PROVE IInv'
  OBVIOUS
<1> USE DEF IInv
<1>1. UNCHANGED <<intents, claims, evidence, released, req>>
  BY DEF Tick, UpdateSettings, vars
<1>2. now' \in 0 .. MaxTime /\ now <= now'
  <2>1. now \in 0 .. MaxTime /\ MaxTime \in Nat
    BY BoundsAssumption DEF TypeOK
  <2> QED
    BY <2>1 DEF Tick, UpdateSettings, vars
<1>3. settings' \in [what : Choices, version : 0 .. MaxSettings]
  <2>1. settings \in [what : Choices, version : 0 .. MaxSettings] /\ MaxSettings \in Nat
    BY BoundsAssumption DEF TypeOK
  <2>2. CASE UpdateSettings
    <3>1. PICK what \in Choices : settings' = [what |-> what, version |-> settings.version + 1]
      BY <2>2 DEF UpdateSettings
    <3> QED
      BY <2>1, <2>2, <3>1 DEF UpdateSettings
  <2> QED
    BY <2>1, <2>2 DEF Tick, vars
<1>4. TypeOK'
  <2>1. \A i \in Intent : /\ intents[i].created <= now' /\ intents[i].dispatched \in -1 .. now'
                          /\ intents[i].seen <= Len(evidence)
    <3>1. \A i \in Intent : intents[i] \in IntentRow /\ intents[i].seen <= Len(evidence)
            /\ intents[i].created <= now /\ intents[i].dispatched \in -1 .. now
      BY DEF TypeOK
    <3>2. now \in Nat /\ now' \in Nat
      BY <1>2, BoundsAssumption DEF TypeOK
    <3> HIDE DEF IInv
    <3> QED
      BY <1>2, <3>1, <3>2 DEF IntentRow
  <2>2. \A e \in DOMAIN evidence : evidence[e].at <= now'
    <3>1. \A e \in DOMAIN evidence : evidence[e] \in EvidenceRow /\ evidence[e].at <= now
      BY DEF TypeOK
    <3>2. now \in Nat /\ now' \in Nat
      BY <1>2, BoundsAssumption DEF TypeOK
    <3> HIDE DEF IInv
    <3> QED
      BY <1>2, <3>1, <3>2 DEF EvidenceRow
  <2>3. \A r \in Request : req[r].at <= now'
    <3>1. \A r \in Request : req[r] \in RequestRow /\ req[r].at <= now
      BY DEF TypeOK
    <3>2. now \in Nat /\ now' \in Nat
      BY <1>2, BoundsAssumption DEF TypeOK
    <3> HIDE DEF IInv
    <3> QED
      BY <1>2, <3>1, <3>2 DEF RequestRow
  <2> QED
    BY <1>1, <1>2, <1>3, <2>1, <2>2, <2>3 DEF TypeOK, Key
<1>5. \A i : Accounted(i)' <=> Accounted(i)
  BY <1>1 DEF Accounted, Holds, Recorded
<1>6. WorkersAreAlone'
  <2>1. WorkersAreAlone
    OBVIOUS
  <2> HIDE DEF IInv
  <2> QED
    BY <1>1, <1>5, <2>1 DEF WorkersAreAlone, Key
<1>7. IntentsArePrepared' /\ UncertainKeepsItsKey'
  BY <1>1, <1>5 DEF IntentsArePrepared, UncertainKeepsItsKey, Accounted, Recorded
<1> QED
  BY <1>4, <1>6, <1>7

\* Nobody is at work under a claim that is released.
LEMMA ReconcileClaimKeepsIInv == \A i \in Intent : IInv /\ ReconcileClaim(i) => IInv'
<1> SUFFICES ASSUME NEW i \in Intent, IInv, ReconcileClaim(i) PROVE IInv'
  OBVIOUS
<1> USE DEF IInv
<1>1. /\ Releasable(i) /\ claims' = {c \in claims : c.by # i} /\ released' = released \cup {i}
      /\ UNCHANGED <<now, settings, intents, evidence, req>>
  BY DEF ReconcileClaim
<1>2. \A r \in Request : req[r].phase \in Beyond => req[r].on # {i}
  <2> SUFFICES ASSUME NEW r \in Request, req[r].phase \in Beyond, req[r].on = {i} PROVE FALSE
    OBVIOUS
  <2>1. intents[i].outcome = "DISPATCHED"
    BY DEF WorkersAreAlone, AtIt
  <2>2. AtWork(i)
    BY DEF AtWork, Beyond
  <2> QED
    BY <1>1, <2>1, <2>2 DEF Releasable
<1>3. \A j \in Intent : Accounted(j) => Accounted(j)'
  BY <1>1 DEF Accounted, Holds, Recorded
<1>4. TypeOK'
  BY <1>1 DEF TypeOK, Key
<1>5. IntentsArePrepared'
  BY <1>1 DEF IntentsArePrepared
<1>6. WorkersAreAlone'
  <2> SUFFICES ASSUME NEW q \in Request, NEW j \in Intent, req[q].on = {j}, req[q].phase \in AtIt
               PROVE  /\ intents[j].outcome \notin {"NONE", "PREPARED"} /\ Accounted(j)'
                      /\ req[q].phase \in Beyond =>
                           intents[j].outcome = "DISPATCHED" /\ [key |-> Key(j)', by |-> j] \in claims'
                      /\ \A p \in Request \ {q} : req[p].phase \in AtIt => req[p].on # {j}
    BY <1>1 DEF WorkersAreAlone
  <2>1. Key(j)' = Key(j)
    BY <1>1 DEF Key
  <2>2. /\ intents[j].outcome \notin {"NONE", "PREPARED"} /\ Accounted(j)
        /\ req[q].phase \in Beyond =>
             intents[j].outcome = "DISPATCHED" /\ [key |-> Key(j), by |-> j] \in claims
        /\ \A p \in Request \ {q} : req[p].phase \in AtIt => req[p].on # {j}
    BY DEF WorkersAreAlone
  <2> HIDE DEF IInv
  <2> QED
    BY <1>1, <1>2, <1>3, <2>1, <2>2
<1>7. UncertainKeepsItsKey'
  BY <1>1, <1>3 DEF UncertainKeepsItsKey, Accounted, Recorded
<1> QED
  BY <1>4, <1>5, <1>6, <1>7

\* An intent is prepared before anybody can execute or claim it.
LEMMA PrepareKeepsIInv == \A i \in Intent : IInv /\ Prepare(i) => IInv'
<1> SUFFICES ASSUME NEW i \in Intent, IInv, Prepare(i) PROVE IInv'
  OBVIOUS
<1> USE DEF IInv
<1>1. intents[i].outcome = "NONE" /\ UNCHANGED <<now, settings, claims, evidence, released, req>>
  BY DEF Prepare
<1>2. PICK refresh \in BOOLEAN, seen \in Shown(settings.what) :
        intents' = [intents EXCEPT ![i] =
                      [outcome |-> "PREPARED", what |-> settings.what, version |-> settings.version,
                       refresh |-> refresh, seen |-> seen, created |-> now, dispatched |-> -1]]
  BY DEF Prepare, Never
<1>3. PICK row : row = [outcome |-> "PREPARED", what |-> settings.what, version |-> settings.version,
                        refresh |-> refresh, seen |-> seen, created |-> now, dispatched |-> -1]
  OBVIOUS
<1>4. intents' = [intents EXCEPT ![i] = row]
  BY <1>2, <1>3
<1>5. seen \in Nat /\ seen <= Len(evidence)
  <2>1. evidence \in Seq(EvidenceRow)
    BY DEF TypeOK
  <2>2. Shown(settings.what) \subseteq DOMAIN evidence \cup {0}
    BY DEF Shown, Covering, First, Rows, Sufficient, Latest
  <2> HIDE DEF IInv
  <2>3. DOMAIN evidence = 1 .. Len(evidence) /\ Len(evidence) \in Nat
    BY <2>1
  <2> QED
    BY <2>2, <2>3
<1>6. row \in IntentRow /\ row.outcome = "PREPARED" /\ row.created = now /\ row.dispatched = -1
      /\ row.seen = seen
  <2>1. settings \in [what : Choices, version : 0 .. MaxSettings] /\ now \in Nat
    BY BoundsAssumption DEF TypeOK
  <2> QED
    BY <1>3, <1>5, <2>1 DEF IntentRow
<1>7. /\ intents'[i] = row /\ \A j \in Intent : j # i => intents'[j] = intents[j]
      /\ intents' \in [Intent -> IntentRow]
  BY <1>4, <1>6 DEF TypeOK
<1>8. \A c \in claims : c.by # i /\ c.by \in Intent
  BY <1>1 DEF IntentsArePrepared, TypeOK, ClaimRow
<1>9. \A r \in Request : req[r].phase # "idle" => req[r].on # {i}
  BY <1>1 DEF IntentsArePrepared
<1>10. TypeOK'
  <2>1. \A j \in Intent : /\ intents'[j].created <= now /\ intents'[j].dispatched \in -1 .. now
                          /\ intents'[j].seen <= Len(evidence)
    <3>1. now \in Nat
      BY BoundsAssumption DEF TypeOK
    <3>2. \A j \in Intent \ {i} : /\ intents[j].created <= now /\ intents[j].dispatched \in -1 .. now
                                  /\ intents[j].seen <= Len(evidence)
      BY DEF TypeOK
    <3> HIDE DEF IInv
    <3> QED
      BY <1>5, <1>6, <1>7, <3>1, <3>2
  <2>2. \A c \in claims : Key(c.by)' = Key(c.by)
    BY <1>7, <1>8 DEF Key
  <2>3. \A c, d \in claims : c.key = Key(c.by)' /\ (c.key = d.key => c = d)
    BY <2>2 DEF TypeOK
  <2> QED
    BY <1>1, <1>7, <2>1, <2>3 DEF TypeOK
<1>11. IntentsArePrepared'
  BY <1>1, <1>6, <1>7, <1>8 DEF IntentsArePrepared
<1>12. \A j : Accounted(j)' <=> Accounted(j)
  BY <1>1 DEF Accounted, Holds, Recorded
<1>13. WorkersAreAlone'
  <2> SUFFICES ASSUME NEW q \in Request, NEW j \in Intent, req[q].on = {j}, req[q].phase \in AtIt
               PROVE  /\ intents'[j].outcome \notin {"NONE", "PREPARED"} /\ Accounted(j)'
                      /\ req[q].phase \in Beyond =>
                           intents'[j].outcome = "DISPATCHED" /\ [key |-> Key(j)', by |-> j] \in claims
                      /\ \A p \in Request \ {q} : req[p].phase \in AtIt => req[p].on # {j}
    BY <1>1 DEF WorkersAreAlone
  <2>1. j # i
    BY <1>9 DEF AtIt, Beyond
  <2>2. intents'[j] = intents[j] /\ Key(j)' = Key(j)
    BY <1>7, <2>1 DEF Key
  <2>3. /\ intents[j].outcome \notin {"NONE", "PREPARED"} /\ Accounted(j)
        /\ req[q].phase \in Beyond =>
             intents[j].outcome = "DISPATCHED" /\ [key |-> Key(j), by |-> j] \in claims
        /\ \A p \in Request \ {q} : req[p].phase \in AtIt => req[p].on # {j}
    BY DEF WorkersAreAlone
  <2> HIDE DEF IInv
  <2> QED
    BY <1>12, <2>2, <2>3
<1>14. UncertainKeepsItsKey'
  <2>1. \A j \in Intent : intents'[j].outcome \in Held => intents[j].outcome \in Held
    BY <1>6, <1>7 DEF Held
  <2> QED
    BY <1>12, <2>1 DEF UncertainKeepsItsKey, Accounted, Recorded
<1> QED
  BY <1>10, <1>11, <1>13, <1>14

\* A claim is made of a key that has none, for an intent nobody has claimed before.
LEMMA ClaimingKeepsIInv ==
    ASSUME IInv, NEW r \in Request, Claim(r), Claimable(On(r))
    PROVE  IInv'
<1> USE DEF IInv
<1>0. PICK i \in Intent : i = On(r) /\ req[r].on = {i}
  BY Executes DEF Claim
<1>1. /\ claims' = claims \cup {[key |-> Key(i), by |-> i]}
      /\ intents' = [intents EXCEPT ![i] = [@ EXCEPT !.outcome = "DISPATCHED", !.dispatched = now]]
      /\ req' = [req EXCEPT ![r] = [@ EXCEPT !.phase = "consulting"]]
      /\ UNCHANGED <<now, settings, evidence, released>>
      /\ intents[i].outcome = "PREPARED" /\ \A c \in claims : c.key # Key(i)
  BY <1>0 DEF Claim, Claimable
<1>2. /\ intents'[i] = [intents[i] EXCEPT !.outcome = "DISPATCHED", !.dispatched = now]
      /\ \A j \in Intent : j # i => intents'[j] = intents[j]
      /\ intents[i] \in IntentRow /\ now \in 0 .. MaxTime
  BY <1>1 DEF TypeOK
<1>3. /\ intents'[i].outcome = "DISPATCHED" /\ intents'[i].dispatched = now
      /\ intents'[i].what = intents[i].what /\ intents'[i].created = intents[i].created
      /\ intents'[i].seen = intents[i].seen /\ intents'[i] \in IntentRow
  <2>1. PICK row \in IntentRow : row = intents[i]
    BY <1>2
  <2>2. now \in Int /\ "DISPATCHED" \in Held
    BY <1>2, BoundsAssumption DEF Held
  <2>3. intents'[i] = [row EXCEPT !.outcome = "DISPATCHED", !.dispatched = now]
    BY <1>2, <2>1
  <2> HIDE DEF IInv
  <2> QED
    BY <2>1, <2>2, <2>3 DEF IntentRow
<1>4. /\ req'[r].phase = "consulting" /\ req'[r].on = {i} /\ req'[r].at = req[r].at
      /\ req'[r] \in RequestRow /\ \A q \in Request : q # r => req'[q] = req[q]
  <2>1. req[r] \in RequestRow /\ req'[r] = [req[r] EXCEPT !.phase = "consulting"]
    BY <1>1 DEF TypeOK
  <2> QED
    BY <1>0, <1>1, <2>1 DEF RequestRow, Phases, TypeOK
<1>5. \A j \in Intent : Key(j)' = Key(j)
  BY <1>2, <1>3 DEF Key
<1>6. TypeOK'
  <2>1. intents' \in [Intent -> IntentRow] /\ req' \in [Request -> RequestRow]
    BY <1>1, <1>2, <1>3, <1>4 DEF TypeOK
  <2>2. \A j \in Intent : /\ intents'[j].created <= now /\ intents'[j].dispatched \in -1 .. now
                          /\ intents'[j].seen <= Len(evidence)
    <3>1. now \in -1 .. now
      BY <1>2, BoundsAssumption
    <3>2. \A j \in Intent : /\ intents[j].created <= now /\ intents[j].dispatched \in -1 .. now
                            /\ intents[j].seen <= Len(evidence)
      BY DEF TypeOK
    <3> HIDE DEF IInv
    <3> QED
      BY <1>2, <1>3, <3>1, <3>2
  <2>3. claims' \subseteq ClaimRow
    BY <1>1, <1>2 DEF TypeOK, ClaimRow, Key, IntentRow
  <2>4. \A c, d \in claims' : c.key = Key(c.by)' /\ (c.key = d.key => c = d)
    <3>1. \A c \in claims' : c.by \in Intent
      BY <2>3 DEF ClaimRow
    <3>2. \A c \in claims' : c.key = Key(c.by)
      BY <1>1 DEF TypeOK
    <3>3. \A c, d \in claims' : c.key = d.key => c = d
      BY <1>1 DEF TypeOK
    <3> QED
      BY <1>5, <3>1, <3>2, <3>3
  <2>5. \A q \in Request : /\ req'[q].phase # "idle" => \E j \in Intent : req'[q].on = {j}
                           /\ req'[q].at <= now
    BY <1>4 DEF TypeOK
  <2> QED
    BY <1>1, <2>1, <2>2, <2>3, <2>4, <2>5 DEF TypeOK
<1>7. IntentsArePrepared'
  <2>1. \A j \in Intent : intents[j].outcome # "NONE" => intents'[j].outcome # "NONE"
    BY <1>2, <1>3
  <2>2. \A c \in claims : c.by \in Intent
    BY DEF TypeOK, ClaimRow
  <2>3. \A c \in claims' : c \in claims \/ c.by = i
    BY <1>1
  <2> QED
    BY <1>3, <1>4, <2>1, <2>2, <2>3 DEF IntentsArePrepared
<1>8. \A j \in Intent : Accounted(j) => Accounted(j)'
  BY <1>1 DEF Accounted, Holds, Recorded
<1>9. Holds(i)' /\ Accounted(i)' /\ [key |-> Key(i)', by |-> i] \in claims'
  <2>1. [key |-> Key(i), by |-> i] \in claims'
    BY <1>1
  <2>2. Holds(i)'
    BY <2>1 DEF Holds
  <2> QED
    BY <1>5, <2>1, <2>2 DEF Accounted
<1>10. \A q \in Request : req[q].phase \in AtIt => req[q].on # {i}
  BY <1>1 DEF WorkersAreAlone
<1>11. WorkersAreAlone'
  <2> SUFFICES ASSUME NEW q \in Request, NEW j \in Intent, req'[q].on = {j}, req'[q].phase \in AtIt
               PROVE  /\ intents'[j].outcome \notin {"NONE", "PREPARED"} /\ Accounted(j)'
                      /\ req'[q].phase \in Beyond =>
                           intents'[j].outcome = "DISPATCHED" /\ [key |-> Key(j)', by |-> j] \in claims'
                      /\ \A p \in Request \ {q} : req'[p].phase \in AtIt => req'[p].on # {j}
    BY DEF WorkersAreAlone
  <2>1. CASE q = r
    <3>1. j = i
      BY <1>4, <2>1
    <3> HIDE DEF IInv
    <3> QED
      BY <1>3, <1>4, <1>9, <1>10, <2>1, <3>1
  <2>2. CASE q # r
    <3>1. req'[q] = req[q] /\ j # i
      BY <1>4, <1>10, <2>2
    <3>2. /\ intents[j].outcome \notin {"NONE", "PREPARED"} /\ Accounted(j)
          /\ req[q].phase \in Beyond =>
               intents[j].outcome = "DISPATCHED" /\ [key |-> Key(j), by |-> j] \in claims
          /\ \A p \in Request \ {q} : req[p].phase \in AtIt => req[p].on # {j}
      BY <3>1 DEF WorkersAreAlone
    <3> HIDE DEF IInv
    <3> QED
      BY <1>1, <1>2, <1>4, <1>5, <1>8, <3>1, <3>2
  <2> QED
    BY <2>1, <2>2
<1>12. UncertainKeepsItsKey'
  <2>1. \A j \in Intent : intents'[j].outcome \in Held => Accounted(j)'
    BY <1>2, <1>8, <1>9 DEF UncertainKeepsItsKey, Accounted, Recorded
  <2> QED
    BY <2>1 DEF UncertainKeepsItsKey, Accounted, Recorded
<1> QED
  BY <1>6, <1>7, <1>11, <1>12

\* The end of an intent by the one request at work on it: its evidence may be
\* saved, its claim given up, and the request goes or is left not knowing.
LEMMA EndingKeepsIInv ==
    ASSUME IInv, NEW r \in Request, req[r].phase \in AtIt, NEW i \in Intent, req[r].on = {i},
           NEW outcome \in Held \cup {"SUCCEEDED", "CACHE_HIT", "FAILED"},
           intents' = [intents EXCEPT ![i].outcome = outcome],
           claims' = claims \/ claims' = {c \in claims : c.by # i},
           \/ evidence' = evidence
           \/ \E at \in Nat : at <= now /\ evidence' = Append(evidence, [by |-> i, at |-> at]),
           NEW row \in RequestRow, req' = [req EXCEPT ![r] = row], row.at <= now,
           \/ row.phase = "idle"
           \/ row.phase = "unknown" /\ row.on = {i} /\ evidence' # evidence,
           outcome \in Held => claims' = claims,
           UNCHANGED <<now, settings, released>>
    PROVE  IInv'
<1> USE DEF IInv
<1>1. /\ intents'[i] = [intents[i] EXCEPT !.outcome = outcome] /\ intents[i] \in IntentRow
      /\ \A j \in Intent : j # i => intents'[j] = intents[j]
  BY DEF TypeOK
<1>2. /\ intents'[i].outcome = outcome /\ intents'[i] \in IntentRow
      /\ intents'[i].what = intents[i].what /\ intents'[i].created = intents[i].created
      /\ intents'[i].seen = intents[i].seen /\ intents'[i].dispatched = intents[i].dispatched
  BY <1>1 DEF IntentRow
<1>3. req'[r] = row /\ \A q \in Request : q # r => req'[q] = req[q]
  BY DEF TypeOK
<1>4. \A j \in Intent : Key(j)' = Key(j)
  BY <1>1, <1>2 DEF Key
<1>5. /\ evidence' \in Seq(EvidenceRow) /\ Len(evidence) <= Len(evidence') /\ Len(evidence') \in Nat
      /\ Len(evidence) \in Nat
      /\ \A e \in DOMAIN evidence : e \in DOMAIN evidence' /\ evidence'[e] = evidence[e]
      /\ \A e \in DOMAIN evidence' : evidence'[e].at <= now
      /\ evidence' # evidence => \E e \in DOMAIN evidence' : evidence'[e].by = i
  <2>1. evidence \in Seq(EvidenceRow) /\ \A e \in DOMAIN evidence : evidence[e].at <= now
    BY DEF TypeOK
  <2> HIDE DEF IInv
  <2>2. CASE evidence' = evidence
    BY <2>1, <2>2
  <2>3. CASE \E at \in Nat : at <= now /\ evidence' = Append(evidence, [by |-> i, at |-> at])
    <3>1. PICK at \in Nat : at <= now /\ evidence' = Append(evidence, [by |-> i, at |-> at])
      BY <2>3
    <3>2. PICK new \in EvidenceRow : new = [by |-> i, at |-> at] /\ new.by = i /\ new.at <= now
      BY <3>1 DEF EvidenceRow
    <3>3. evidence' = Append(evidence, new)
      BY <3>1, <3>2
    <3>4. /\ evidence' \in Seq(EvidenceRow) /\ Len(evidence') = Len(evidence) + 1
          /\ evidence'[Len(evidence) + 1] = new /\ DOMAIN evidence' = 1 .. Len(evidence) + 1
          /\ \A e \in 1 .. Len(evidence) : evidence'[e] = evidence[e]
          /\ DOMAIN evidence = 1 .. Len(evidence) /\ Len(evidence) \in Nat
      BY <2>1, <3>3
    <3>5. Len(evidence) + 1 \in DOMAIN evidence'
      BY <3>4
    <3>6. \A e \in DOMAIN evidence' : e \in DOMAIN evidence \/ e = Len(evidence) + 1
      BY <3>4
    <3> QED
      BY <2>1, <3>2, <3>4, <3>5, <3>6
  <2> QED
    BY <2>2, <2>3
<1>6. TypeOK'
  <2>1. intents' \in [Intent -> IntentRow] /\ req' \in [Request -> RequestRow]
    BY <1>1, <1>2 DEF TypeOK
  <2>2. \A j \in Intent : /\ intents'[j].created <= now /\ intents'[j].dispatched \in -1 .. now
                          /\ intents'[j].seen <= Len(evidence')
    <3>1. \A j \in Intent : /\ intents[j].created <= now /\ intents[j].dispatched \in -1 .. now
                            /\ intents[j].seen <= Len(evidence) /\ intents[j].seen \in Nat
      BY DEF TypeOK, IntentRow
    <3>2. \A j \in Intent : /\ intents'[j].created = intents[j].created
                            /\ intents'[j].dispatched = intents[j].dispatched
                            /\ intents'[j].seen = intents[j].seen
      BY <1>1, <1>2
    <3> HIDE DEF IInv
    <3> QED
      BY <1>5, <3>1, <3>2
  <2>3. claims' \subseteq claims /\ claims' \subseteq ClaimRow
    BY DEF TypeOK
  <2>4. \A c, d \in claims' : c.key = Key(c.by)' /\ (c.key = d.key => c = d)
    BY <1>4, <2>3 DEF TypeOK, ClaimRow
  <2>5. \A q \in Request : /\ req'[q].phase # "idle" => \E j \in Intent : req'[q].on = {j}
                           /\ req'[q].at <= now
    BY <1>3 DEF TypeOK
  <2> QED
    BY <1>5, <2>1, <2>2, <2>3, <2>4, <2>5 DEF TypeOK
<1>7. IntentsArePrepared'
  <2>1. \A j \in Intent : intents[j].outcome # "NONE" => intents'[j].outcome # "NONE"
    BY <1>1, <1>2 DEF Held
  <2>2. \A c \in claims' : c \in claims /\ c.by \in Intent
    BY DEF TypeOK, ClaimRow
  <2>3. intents'[i].outcome # "NONE"
    BY <1>2 DEF Held
  <2>4. \A q \in Request, j \in Intent : req'[q].phase # "idle" /\ req'[q].on = {j} =>
          \/ j = i
          \/ req[q].phase # "idle" /\ req[q].on = {j}
    BY <1>3
  <2> QED
    BY <2>1, <2>2, <2>3, <2>4 DEF IntentsArePrepared
<1>8. \A j \in Intent \ {i} : Accounted(j) => Accounted(j)'
  BY <1>5 DEF Accounted, Holds, Recorded
<1>9. /\ evidence' # evidence => Accounted(i)'
      /\ claims' = claims => Accounted(i)'
  <2>1. Accounted(i)
    BY DEF WorkersAreAlone
  <2> HIDE DEF IInv
  <2> QED
    BY <1>5, <2>1 DEF Accounted, Holds, Recorded
<1>10. \A q \in Request \ {r} : req'[q].phase \in AtIt => req[q].on # {i}
  BY <1>3 DEF WorkersAreAlone
<1>11. WorkersAreAlone'
  <2> SUFFICES ASSUME NEW q \in Request, NEW j \in Intent, req'[q].on = {j}, req'[q].phase \in AtIt
               PROVE  /\ intents'[j].outcome \notin {"NONE", "PREPARED"} /\ Accounted(j)'
                      /\ req'[q].phase \in Beyond =>
                           intents'[j].outcome = "DISPATCHED" /\ [key |-> Key(j)', by |-> j] \in claims'
                      /\ \A p \in Request \ {q} : req'[p].phase \in AtIt => req'[p].on # {j}
    BY DEF WorkersAreAlone
  <2>1. CASE q = r
    <3>1. row.phase = "unknown" /\ row.on = {i} /\ evidence' # evidence /\ j = i
      BY <1>3, <2>1 DEF AtIt, Beyond
    <3>2. row.phase \notin Beyond
      BY <3>1 DEF Beyond
    <3>3. outcome \notin {"NONE", "PREPARED"}
      BY DEF Held
    <3> HIDE DEF IInv
    <3> QED
      BY <1>2, <1>3, <1>9, <1>10, <2>1, <3>1, <3>2, <3>3
  <2>2. CASE q # r
    <3>1. req'[q] = req[q] /\ j # i /\ intents'[j] = intents[j]
      BY <1>1, <1>3, <1>10, <2>2
    <3>2. /\ intents[j].outcome \notin {"NONE", "PREPARED"} /\ Accounted(j)
          /\ req[q].phase \in Beyond =>
               intents[j].outcome = "DISPATCHED" /\ [key |-> Key(j), by |-> j] \in claims
          /\ \A p \in Request \ {q} : req[p].phase \in AtIt => req[p].on # {j}
      BY <3>1 DEF WorkersAreAlone
    <3>3. [key |-> Key(j), by |-> j] \in claims => [key |-> Key(j), by |-> j] \in claims'
      BY <3>1
    <3>4. req'[r].phase \in AtIt => req'[r].on # {j}
      BY <1>3, <3>1 DEF AtIt, Beyond
    <3> HIDE DEF IInv
    <3> QED
      BY <1>3, <1>4, <1>8, <3>1, <3>2, <3>3, <3>4
  <2> QED
    BY <2>1, <2>2
<1>12. UncertainKeepsItsKey'
  <2>1. \A j \in Intent \ {i} : intents'[j].outcome \in Held => Accounted(j)'
    BY <1>1, <1>8 DEF UncertainKeepsItsKey, Accounted, Recorded
  <2>2. intents'[i].outcome \in Held => Accounted(i)'
    BY <1>2, <1>9
  <2> QED
    BY <2>1, <2>2 DEF UncertainKeepsItsKey, Accounted, Recorded
<1> QED
  BY <1>6, <1>7, <1>11, <1>12

-----------------------------------------------------------------------------
(* The theorems *)

\* Steps of a request that leave the intents and claims alone.
LEMMA RequestStepKeepsIInv ==
    ASSUME IInv, NEW r \in Request,
           \/ \E i \in Intent : Execute(r, i)
           \/ Consult(r) \/ Recheck(r) \/ Lookup(r) \/ Crash(r)
    PROVE  IInv'
<1>1. 0 <= now /\ 0 \in Nat /\ now \in Nat /\ req[r] \in RequestRow
  BY BoundsAssumption DEF IInv, TypeOK
<1>2. CASE \E i \in Intent : Execute(r, i)
  <2>1. PICK i \in Intent : Execute(r, i)
    BY <1>2
  <2>2. PICK row : row = [phase |-> "claiming", on |-> {i}, at |-> 0]
    OBVIOUS
  <2>3. row \in RequestRow /\ row.phase = "claiming" /\ row.on = {i} /\ row.at = 0
    BY <2>2 DEF RequestRow, Phases
  <2>4. /\ req' = [req EXCEPT ![r] = row] /\ intents[i].outcome # "NONE"
        /\ UNCHANGED <<now, settings, intents, claims, evidence, released>>
    BY <2>1, <2>2 DEF Execute
  <2>5. row.phase \notin AtIt /\ row.phase \notin Beyond
    BY <2>3 DEF AtIt, Beyond
  <2> QED
    BY <1>1, <2>3, <2>4, <2>5, MovingKeepsIInv
<1>3. CASE Crash(r)
  <2>1. PICK row : row = NoRequest
    OBVIOUS
  <2>2. row \in RequestRow /\ row.phase = "idle" /\ row.at = 0
    BY <2>1 DEF NoRequest, RequestRow, Phases
  <2>3. /\ req' = [req EXCEPT ![r] = row]
        /\ UNCHANGED <<now, settings, intents, claims, evidence, released>>
    BY <1>3, <2>1 DEF Crash
  <2>4. row.phase \notin AtIt /\ row.phase \notin Beyond
    BY <2>2 DEF AtIt, Beyond
  <2> QED
    BY <1>1, <2>2, <2>3, <2>4, MovingKeepsIInv
<1>4. CASE Consult(r) \/ Recheck(r) \/ Lookup(r)
  <2>1. PICK phase \in Phases, at \in {now, 0, req[r].at} :
          /\ phase \in AtIt \ {"consulting"} /\ req[r].phase \in {"consulting", "checking", "calling"}
          /\ req' = [req EXCEPT ![r] = [@ EXCEPT !.phase = phase, !.at = at]]
          /\ UNCHANGED <<now, settings, intents, claims, evidence, released>>
    <3>1. req[r] = [req[r] EXCEPT !.at = req[r].at]
      BY <1>1 DEF RequestRow
    <3>2. CASE Consult(r)
      <4>1. PICK phase \in {"checking", "covered"} : req' = [req EXCEPT ![r] = [@ EXCEPT !.phase = phase]]
        BY <3>2 DEF Consult
      <4>2. [req[r] EXCEPT !.phase = phase] = [req[r] EXCEPT !.phase = phase, !.at = req[r].at]
        BY <1>1 DEF RequestRow
      <4> QED
        BY <3>2, <4>1, <4>2 DEF Consult, AtIt, Beyond, Phases
    <3>3. CASE Recheck(r)
      <4>1. PICK phase \in {"calling", "cancelled"} : req' = [req EXCEPT ![r] = [@ EXCEPT !.phase = phase]]
        BY <3>3 DEF Recheck
      <4>2. [req[r] EXCEPT !.phase = phase] = [req[r] EXCEPT !.phase = phase, !.at = req[r].at]
        BY <1>1 DEF RequestRow
      <4> QED
        BY <3>3, <4>1, <4>2 DEF Recheck, AtIt, Beyond, Phases
    <3>4. CASE Lookup(r)
      <4>1. PICK phase \in {"answered", "refused", "unknown"}, at \in {now, 0} :
              req' = [req EXCEPT ![r] = [@ EXCEPT !.phase = phase, !.at = at]]
        BY <3>4 DEF Lookup
      <4> QED
        BY <3>4, <4>1 DEF Lookup, AtIt, Beyond, Phases
    <3> QED
      BY <1>4, <3>2, <3>3, <3>4
  <2>2. PICK row : row = [req[r] EXCEPT !.phase = phase, !.at = at]
    OBVIOUS
  <2>3. at \in Nat /\ at <= now
    BY <1>1 DEF IInv, TypeOK, RequestRow
  <2>4. row \in RequestRow /\ row.phase = phase /\ row.on = req[r].on /\ row.at = at
    BY <1>1, <2>2, <2>3 DEF RequestRow
  <2>5. \E i \in Intent : req[r].on = {i} /\ intents[i].outcome # "NONE"
    BY <2>1, Executes
  <2>6. req[r].phase \in AtIt /\ req[r].phase \in Beyond
    BY <2>1 DEF AtIt, Beyond
  <2> QED
    BY <1>1, <2>1, <2>2, <2>3, <2>4, <2>5, <2>6, MovingKeepsIInv
<1> QED
  BY <1>2, <1>3, <1>4

\* A claim that is refused ends its request.
LEMMA RefusedKeepsIInv ==
    ASSUME IInv, NEW r \in Request, req' = [req EXCEPT ![r] = NoRequest],
           UNCHANGED <<now, settings, intents, claims, evidence, released>>
    PROVE  IInv'
<1>1. PICK row : row = NoRequest
  OBVIOUS
<1>2. row \in RequestRow /\ row.phase = "idle" /\ row.at <= now
  BY <1>1, BoundsAssumption DEF NoRequest, RequestRow, Phases, IInv, TypeOK
<1>3. row.phase \notin AtIt /\ row.phase \notin Beyond
  BY <1>2 DEF AtIt, Beyond
<1> QED
  BY <1>1, <1>2, <1>3, MovingKeepsIInv

\* The three ways an intent is ended.
LEMMA EndsKeepIInv ==
    ASSUME IInv, NEW r \in Request, CacheHit(r) \/ Complete(r) \/ Fail(r)
    PROVE  IInv'
<1>1. req[r].phase \in {"covered", "answered", "refused", "cancelled", "unknown"}
  BY DEF CacheHit, Complete, Fail
<1>2. PICK i \in Intent : i = On(r) /\ req[r].on = {i} /\ intents[i].outcome # "NONE"
  BY <1>1, Executes
<1>3. req[r].phase \in AtIt /\ req[r] \in RequestRow /\ req[r].at <= now /\ now \in Nat /\ req[r].at \in Nat
  BY <1>1, BoundsAssumption DEF AtIt, Beyond, IInv, TypeOK, RequestRow
<1>4. PICK gone : gone = NoRequest
  OBVIOUS
<1>5. gone \in RequestRow /\ gone.phase = "idle" /\ gone.at = 0 /\ 0 <= now
  BY <1>3, <1>4 DEF NoRequest, RequestRow, Phases
<1>6. PICK left : left = [req[r] EXCEPT !.phase = "unknown", !.at = 0]
  OBVIOUS
<1>7. left \in RequestRow /\ left.phase = "unknown" /\ left.at = 0 /\ left.on = {i}
  BY <1>2, <1>3, <1>6 DEF RequestRow, Phases
<1>8. CASE CacheHit(r) \/ Fail(r)
  <2>1. PICK outcome \in Held \cup {"CACHE_HIT", "FAILED"} :
          /\ intents' = [intents EXCEPT ![i].outcome = outcome]
          /\ claims' = claims \/ claims' = {c \in claims : c.by # i}
          /\ outcome \in Held => claims' = claims
          /\ req' = [req EXCEPT ![r] = gone] /\ UNCHANGED <<now, settings, released, evidence>>
    <3>1. "UNCERTAIN" \in Held /\ "CACHE_HIT" \notin Held /\ "FAILED" \notin Held
      BY DEF Held
    <3> QED
      BY <1>2, <1>4, <1>8, <3>1 DEF CacheHit, Fail, End
  <2> QED
    BY <1>2, <1>3, <1>5, <2>1, EndingKeepsIInv
<1>9. CASE Complete(r)
  <2>1. CASE evidence' = Append(evidence, [by |-> i, at |-> req[r].at]) /\ claims' = {c \in claims : c.by # i}
             /\ intents' = [intents EXCEPT ![i].outcome = "SUCCEEDED"]
             /\ UNCHANGED <<now, settings, released>>
             /\ (req' = [req EXCEPT ![r] = gone] \/ req' = [req EXCEPT ![r] = left])
    <3>1. evidence' # evidence
      <4>1. evidence \in Seq(EvidenceRow) /\ [by |-> i, at |-> req[r].at] \in EvidenceRow
        BY <1>3 DEF IInv, TypeOK, EvidenceRow
      <4>2. Len(evidence') = Len(evidence) + 1 /\ Len(evidence) \in Nat
        BY <2>1, <4>1
      <4> QED
        BY <4>2
    <3>2. "SUCCEEDED" \notin Held
      BY DEF Held
    <3>3. PICK row \in {gone, left} : req' = [req EXCEPT ![r] = row]
      BY <2>1
    <3>4. /\ row \in RequestRow /\ row.at <= now
          /\ \/ row.phase = "idle"
             \/ row.phase = "unknown" /\ row.on = {i} /\ evidence' # evidence
      BY <1>5, <1>7, <3>1, <3>3
    <3>5. \E at \in Nat : at <= now /\ evidence' = Append(evidence, [by |-> i, at |-> at])
      BY <1>3, <2>1
    <3> QED
      BY <1>2, <1>3, <2>1, <3>2, <3>3, <3>4, <3>5, EndingKeepsIInv
  <2>2. CASE req' = [req EXCEPT ![r] = left]
             /\ UNCHANGED <<now, settings, intents, claims, evidence, released>>
    <3>1. left.phase \in AtIt /\ left.phase \notin Beyond
      BY <1>7 DEF AtIt, Beyond
    <3> QED
      BY <1>2, <1>3, <1>5, <1>7, <2>2, <3>1, MovingKeepsIInv
  <2>3. ASSUME NEW told \in BOOLEAN,
               req' = [req EXCEPT ![r] = IF told THEN NoRequest ELSE [@ EXCEPT !.phase = "unknown", !.at = 0]]
        PROVE  req' = [req EXCEPT ![r] = gone] \/ req' = [req EXCEPT ![r] = left]
    BY <1>4, <1>6, <2>3
  <2> QED
    BY <1>2, <1>6, <1>9, <2>1, <2>2, <2>3 DEF Complete
<1> QED
  BY <1>8, <1>9

LEMMA NextIInv == IInv /\ [Next]_vars => IInv'
<1> SUFFICES ASSUME IInv, [Next]_vars PROVE IInv'
  OBVIOUS
<1>1. CASE Tick \/ UpdateSettings \/ UNCHANGED vars
  BY <1>1, SurroundingsKeepIInv
<1>2. ASSUME NEW i \in Intent, ReconcileClaim(i) \/ Prepare(i) PROVE IInv'
  BY <1>2, ReconcileClaimKeepsIInv, PrepareKeepsIInv
<1>3. ASSUME NEW r \in Request, Claim(r) PROVE IInv'
  <2>1. CASE Claimable(On(r))
    BY <1>3, <2>1, ClaimingKeepsIInv
  <2>2. CASE ~Claimable(On(r))
    BY <1>3, <2>2, RefusedKeepsIInv DEF Claim
  <2> QED
    BY <2>1, <2>2
<1>4. ASSUME NEW r \in Request, CacheHit(r) \/ Complete(r) \/ Fail(r) PROVE IInv'
  BY <1>4, EndsKeepIInv
<1>5. ASSUME NEW r \in Request,
             \/ \E i \in Intent : Execute(r, i)
             \/ Consult(r) \/ Recheck(r) \/ Lookup(r) \/ Crash(r)
      PROVE  IInv'
  BY <1>5, RequestStepKeepsIInv
<1> QED
  BY <1>1, <1>2, <1>3, <1>4, <1>5 DEF Next

\* The inductive invariant: types, one claim per key, requests on prepared intents,
\* one request past the claim of an intent, and a trace of every paid lookup.
THEOREM Invariance == Spec => []IInv
  BY InitIInv, NextIInv, PTL DEF Spec

\* Types, for any number of intents and requests; a key has one claim, which is of
\* the key its intent was confirmed with (the unique scopeKey of the claim table).
THEOREM TypeCorrect == Spec => []TypeOK
  BY Invariance, PTL DEF IInv

LEMMA OneWorker == IInv => OneWorkerPerKey
<1> SUFFICES ASSUME IInv, NEW r \in Request, req[r].phase \in Beyond
             PROVE  /\ [key |-> Key(On(r)), by |-> On(r)] \in claims
                    /\ \A q \in Request \ {r} : req[q].phase \in Beyond => Key(On(q)) # Key(On(r))
  BY DEF OneWorkerPerKey
<1>1. \A q \in Request : req[q].phase \in Beyond =>
        /\ req[q].phase \in AtIt /\ On(q) \in Intent /\ req[q].on = {On(q)}
        /\ [key |-> Key(On(q)), by |-> On(q)] \in claims
  BY Executes DEF IInv, WorkersAreAlone, AtIt, Beyond
<1>2. ASSUME NEW q \in Request \ {r}, req[q].phase \in Beyond, Key(On(q)) = Key(On(r)) PROVE FALSE
  <2>1. On(q) # On(r)
    BY <1>1, <1>2 DEF IInv, WorkersAreAlone
  <2>2. [key |-> Key(On(q)), by |-> On(q)] = [key |-> Key(On(r)), by |-> On(r)]
    BY <1>1, <1>2 DEF IInv, TypeOK
  <2> QED
    BY <2>1, <2>2
<1> QED
  BY <1>1, <1>2

\* One request at most is at work on a key (claimOperation's compare-and-set and
\* the claim's unique key), whoever else executes the intent or wants the key.
THEOREM OneWorkerAtAKey == Spec => []OneWorkerPerKey
  BY OneWorker, Invariance, PTL

\* A lookup that may have been paid for keeps its key blocked until an operator
\* releases it, or has its evidence on record (completeFailure keeps the claim).
THEOREM UncertaintyKeepsItsKey == Spec => []UncertainKeepsItsKey
  BY Invariance, PTL DEF IInv

-----------------------------------------------------------------------------
(* What is known when a lookup is sent *)

\* Nothing fresh of the key of intent i that answers it.
Unknown(i) == \A e \in Latest(Key(i)) : IsFresh(e) => intents[i].refresh /\ ~Answers(i, e)

\* An intent was confirmed under settings that had been, evidence is of intents that
\* were confirmed, what an intent has seen is older than it, and who has consulted
\* found nothing unless the settings have changed since the intent was confirmed.
Knowledge ==
    /\ \A i \in Intent : intents[i].version <= settings.version
    /\ \A e \in DOMAIN evidence : intents[evidence[e].by].outcome # "NONE"
    /\ \A i \in Intent : intents[i].seen # 0 => evidence[intents[i].seen].at <= intents[i].created
    /\ \A r \in Request, i \in Intent :
         req[r].on = {i} /\ req[r].phase = "checking" /\ Confirmed(i) => Unknown(i)

\* what is confirmed of an intent
SameTerms(i) ==
    /\ intents'[i].what = intents[i].what /\ intents'[i].version = intents[i].version
    /\ intents'[i].refresh = intents[i].refresh /\ intents'[i].seen = intents[i].seen
    /\ intents'[i].created = intents[i].created

\* A step that changes no terms but those of an intent it prepares, and records no
\* evidence of a key for which somebody has consulted.
LEMMA KnowledgeKept ==
    ASSUME IInv, IInv', Knowledge, now <= now',
           settings' = settings \/ settings'.version > settings.version,
           DOMAIN evidence \subseteq DOMAIN evidence',
           \A e \in DOMAIN evidence : evidence'[e] = evidence[e],
           \A e \in DOMAIN evidence' \ DOMAIN evidence :
             /\ intents[evidence'[e].by].outcome # "NONE"
             /\ \A r \in Request, i \in Intent :
                  req'[r].on = {i} /\ req'[r].phase = "checking" => Key(evidence'[e].by) # Key(i),
           \A i \in Intent : intents[i].outcome # "NONE" => SameTerms(i) /\ intents'[i].outcome # "NONE",
           \A i \in Intent : \/ SameTerms(i)
                             \/ /\ intents'[i].version = settings'.version
                                /\ intents'[i].seen # 0 =>
                                     evidence'[intents'[i].seen].at <= intents'[i].created,
           \A r \in Request, i \in Intent :
             req'[r].on = {i} /\ req'[r].phase = "checking" =>
               \/ req[r].on = {i} /\ req[r].phase = "checking"
               \/ settings' = settings /\ intents[i].outcome # "NONE" /\ (Confirmed(i) => Unknown(i))
    PROVE  Knowledge'
<1>1. /\ DOMAIN evidence = 1 .. Len(evidence) /\ Len(evidence) \in Nat
      /\ \A e \in DOMAIN evidence : evidence[e].by \in Intent /\ evidence[e].at \in Nat
  <2>1. evidence \in Seq(EvidenceRow)
    BY DEF IInv, TypeOK
  <2>2. DOMAIN evidence = 1 .. Len(evidence) /\ Len(evidence) \in Nat
    BY ONLY <2>1
  <2>3. \A e \in DOMAIN evidence : evidence[e] \in EvidenceRow
    BY ONLY <2>1
  <2> QED
    BY <2>2, <2>3 DEF EvidenceRow
<1>2. \A e \in DOMAIN evidence' : evidence'[e].by \in Intent
  <2>1. evidence' \in Seq(EvidenceRow)
    BY DEF IInv, TypeOK, EvidenceRow
  <2>2. \A e \in DOMAIN evidence' : evidence'[e] \in EvidenceRow
    BY ONLY <2>1
  <2> QED
    BY <2>2 DEF EvidenceRow
<1>3. \A i \in Intent : /\ intents[i].version \in Nat /\ intents[i].seen \in Nat
                        /\ intents[i].seen <= Len(evidence) /\ Key(i) \in Choices
  <2>1. \A i \in Intent : intents[i] \in IntentRow /\ intents[i].seen <= Len(evidence)
    BY DEF IInv, TypeOK
  <2> QED
    BY ONLY <2>1, BoundsAssumption DEF IntentRow, Key
<1>4. settings.version \in Nat /\ settings'.version \in Nat /\ now \in Nat /\ now' \in Nat
  BY BoundsAssumption DEF IInv, TypeOK
<1>5. \A i \in Intent : intents'[i].version <= settings'.version
  <2> SUFFICES ASSUME NEW i \in Intent PROVE intents'[i].version <= settings'.version
    OBVIOUS
  <2>1. intents[i].version <= settings.version
    BY DEF Knowledge
  <2>2. CASE SameTerms(i)
    BY <1>3, <1>4, <2>1, <2>2 DEF SameTerms
  <2>3. CASE intents'[i].version = settings'.version
    BY <1>4, <2>3
  <2> QED
    BY <2>2, <2>3
<1>6. \A e \in DOMAIN evidence' : intents'[evidence'[e].by].outcome # "NONE"
  <2> SUFFICES ASSUME NEW e \in DOMAIN evidence' PROVE intents'[evidence'[e].by].outcome # "NONE"
    OBVIOUS
  <2>1. evidence'[e].by \in Intent /\ intents[evidence'[e].by].outcome # "NONE"
    BY <1>2 DEF Knowledge
  <2> QED
    BY <2>1
<1>7. \A i \in Intent : intents'[i].seen # 0 => evidence'[intents'[i].seen].at <= intents'[i].created
  <2> SUFFICES ASSUME NEW i \in Intent, intents'[i].seen # 0, SameTerms(i)
               PROVE  evidence'[intents'[i].seen].at <= intents'[i].created
    OBVIOUS
  <2>1. intents[i].seen \in DOMAIN evidence
    BY <1>1, <1>3 DEF SameTerms
  <2>2. evidence[intents[i].seen].at <= intents[i].created
    BY DEF Knowledge, SameTerms
  <2> QED
    BY <2>1, <2>2 DEF SameTerms
<1>8. \A r \in Request, i \in Intent :
        req'[r].on = {i} /\ req'[r].phase = "checking" /\ Confirmed(i)' => Unknown(i)'
  <2> SUFFICES ASSUME NEW r \in Request, NEW i \in Intent,
                      req'[r].on = {i}, req'[r].phase = "checking", Confirmed(i)'
               PROVE  Unknown(i)'
    OBVIOUS
  <2>1. intents[i].outcome # "NONE" /\ SameTerms(i)
    BY DEF IInv, IntentsArePrepared
  <2>2. settings' = settings
    <3>1. intents[i].version = settings'.version /\ intents[i].version <= settings.version
      BY <2>1 DEF SameTerms, Confirmed, Knowledge
    <3> QED
      BY <1>3, <1>4, <3>1
  <2>3. Confirmed(i)
    BY <2>1, <2>2 DEF Confirmed, SameTerms
  <2>4. Unknown(i)
    BY <2>3 DEF Knowledge
  <2>5. Key(i)' = Key(i) /\ \A e \in DOMAIN evidence : Key(evidence[e].by)' = Key(evidence[e].by)
    BY <1>1, <2>1 DEF Key, SameTerms, Knowledge
  <2>6. Latest(Key(i))' = Latest(Key(i))
    <3>1. PICK key : key = Key(i)
      OBVIOUS
    <3>2. \A e \in DOMAIN evidence' \ DOMAIN evidence : Key(evidence[e].by)' # key
      <4> SUFFICES ASSUME NEW e \in DOMAIN evidence' \ DOMAIN evidence PROVE Key(evidence[e].by)' # key
        OBVIOUS
      <4>1. Key(evidence'[e].by) # key /\ SameTerms(evidence'[e].by)
        BY <1>2, <3>1
      <4> QED
        BY <4>1 DEF Key, SameTerms
    <3>3. \A e \in DOMAIN evidence' : Key(evidence[e].by)' = key <=>
            e \in DOMAIN evidence /\ Key(evidence[e].by) = key
      BY <2>5, <3>2
    <3>4. Latest(key)' = {e \in DOMAIN evidence' : Key(evidence[e].by)' = key
                            /\ \A d \in DOMAIN evidence' : Key(evidence[d].by)' = key => d <= e}
      BY DEF Latest
    <3>5. Latest(key) = {e \in DOMAIN evidence : Key(evidence[e].by) = key
                            /\ \A d \in DOMAIN evidence : Key(evidence[d].by) = key => d <= e}
      BY DEF Latest
    <3>6. Latest(key)' = Latest(key)
      BY <3>3, <3>4, <3>5
    <3>7. Latest(Key(i))' = Latest(key)'
      BY <2>5, <3>1 DEF Latest
    <3> QED
      BY <3>1, <3>6, <3>7
  <2>7. ASSUME NEW e \in Latest(Key(i)), IsFresh(e)' PROVE IsFresh(e)
    <3>1. e \in DOMAIN evidence /\ evidence'[e] = evidence[e] /\ Key(evidence[e].by)' = Key(evidence[e].by)
      BY <2>5, <2>7 DEF Latest
    <3>2. Key(evidence[e].by) \in Choices
      BY <1>1, <1>3, <3>1
    <3>3. Fresh[Key(evidence[e].by)[2]] \in Nat
      BY ONLY <3>2, BoundsAssumption
    <3>4. now' < evidence[e].at + Fresh[Key(evidence[e].by)[2]]
      BY <2>7, <3>1 DEF IsFresh
    <3>5. evidence[e].at \in Nat
      BY <1>1, <3>1
    <3>6. \A m, n, k \in Nat : m <= n /\ n < k => m < k
      OBVIOUS
    <3>7. now < evidence[e].at + Fresh[Key(evidence[e].by)[2]]
      BY ONLY <1>4, <3>3, <3>4, <3>5, <3>6, now <= now'
    <3> QED
      BY <3>7 DEF IsFresh
  <2>8. \A e \in Latest(Key(i)) : Answers(i, e)' <=> Answers(i, e)
    BY <2>1 DEF Answers, SameTerms, Latest
  <2> QED
    BY <2>1, <2>4, <2>6, <2>7, <2>8 DEF Unknown, SameTerms
<1> QED
  BY <1>5, <1>6, <1>7, <1>8 DEF Knowledge

\* A step that records nothing and sends nobody to the check keeps what is known.
LEMMA QuietKeepsKnowledge ==
    ASSUME IInv, IInv', Knowledge, UNCHANGED <<settings, evidence>>, now' = now,
           \A i \in Intent : SameTerms(i) /\ (intents[i].outcome # "NONE" => intents'[i].outcome # "NONE"),
           \A q \in Request : req'[q].phase = "checking" => req'[q] = req[q]
    PROVE  Knowledge'
<1>1. now <= now'
  BY BoundsAssumption DEF IInv, TypeOK
<1> QED
  BY <1>1, KnowledgeKept

\* There is at most one latest evidence of a key.
LEMMA LatestIsOne ==
    ASSUME IInv, NEW what, NEW d \in Latest(what), NEW e \in Latest(what)
    PROVE  d = e
<1>1. evidence \in Seq(EvidenceRow)
  BY DEF IInv, TypeOK
<1>2. DOMAIN evidence \subseteq Int
  BY ONLY <1>1
<1>3. d \in Int /\ e \in Int /\ d <= e /\ e <= d
  BY <1>2 DEF Latest
<1> QED
  BY ONLY <1>3

\* Who finds nothing that covers the key, or only what does not answer the refresh,
\* has been told of everything there is of the key.
LEMMA ConsultedIsUnknown ==
    ASSUME IInv, Knowledge, NEW i \in Intent,
           \/ Covering(Key(i)) = {}
           \/ \E e \in Covering(Key(i)) : ~Answers(i, e)
    PROVE  Unknown(i)
<1> SUFFICES ASSUME NEW f \in Latest(Key(i)), IsFresh(f)
             PROVE  intents[i].refresh /\ ~Answers(i, f)
  BY DEF Unknown
<1> DEFINE C == <<Key(i)[1], "COMPLETE">>
           S == {e \in Sufficient(Key(i)) : IsFresh(e)}
<1>1. evidence \in Seq(EvidenceRow)
  BY DEF IInv, TypeOK
<1>2. \A e \in DOMAIN evidence : e # 0 /\ evidence[e].at \in Int
  <2>1. DOMAIN evidence = 1 .. Len(evidence) /\ Len(evidence) \in Nat
    BY ONLY <1>1
  <2>2. \A e \in DOMAIN evidence : evidence[e] \in EvidenceRow
    BY ONLY <1>1
  <2> QED
    BY ONLY <2>1, <2>2 DEF EvidenceRow
<1>3. f \in S /\ S \subseteq DOMAIN evidence
  BY DEF Sufficient, Latest
<1>4. \A e \in S : e = f \/ e \in Latest(C)
  BY LatestIsOne DEF Sufficient
<1>5. \A e \in S : Key(evidence[e].by)[2] = "BASIC" => e = f
  <2> SUFFICES ASSUME NEW e \in S, e # f PROVE Key(evidence[e].by)[2] # "BASIC"
    OBVIOUS
  <2>1. Key(evidence[e].by) = C
    BY <1>4 DEF Latest
  <2> QED
    BY <2>1
<1>6. Key(evidence[f].by)[2] = "BASIC" \/ S = {f}
  <2>1. Key(evidence[f].by) = Key(i) /\ Key(i) \in Choices
    BY BoundsAssumption DEF Latest, IInv, TypeOK, IntentRow, Key
  <2>2. CASE Key(i)[2] = "COMPLETE"
    <3>1. Key(i) = C
      BY <2>1, <2>2, BoundsAssumption
    <3> QED
      BY <1>3, <1>4, <3>1, LatestIsOne
  <2> QED
    BY <2>1, <2>2, BoundsAssumption
<1>7. Covering(Key(i)) = First(S)
  BY DEF Covering
<1>8. First(S) # {}
  <2>1. CASE S = {f}
    <3>1. f \in First(S)
      BY <2>1 DEF First
    <3> QED
      BY <3>1
  <2>2. CASE Key(evidence[f].by)[2] = "BASIC" /\ S # {f}
    <3>1. PICK g \in S : g # f
      BY <1>3, <2>2
    <3>2. \A e \in S : e = f \/ e = g
      BY <1>4, <3>1, LatestIsOne
    <3>3. evidence[f].at \in Int /\ evidence[g].at \in Int
      BY <1>2, <1>3, <3>1
    <3>4. CASE evidence[f].at < evidence[g].at
      <4>1. g \in First(S)
        BY <3>1, <3>2, <3>4 DEF First
      <4> QED
        BY <4>1
    <3>5. CASE ~(evidence[f].at < evidence[g].at)
      <4>1. evidence[g].at < evidence[f].at \/ evidence[g].at = evidence[f].at
        BY ONLY <3>3, <3>5
      <4>2. f \in First(S)
        BY <1>3, <2>2, <3>2, <4>1 DEF First
      <4> QED
        BY <4>2
    <3> QED
      BY <3>4, <3>5
  <2> QED
    BY <1>6, <2>1, <2>2
<1>9. PICK e \in First(S) : ~Answers(i, e)
  BY <1>7, <1>8
<1>10. e \in S /\ intents[i].refresh /\ (e = intents[i].seen \/ ~(evidence[e].at >= intents[i].created))
  BY <1>9 DEF First, Answers
<1>11. CASE e = f
  BY <1>9, <1>10, <1>11
<1>12. CASE e # f
  <2>1. evidence[f].at < evidence[e].at
    BY <1>3, <1>5, <1>9, <1>10, <1>12 DEF First
  <2>2. e = intents[i].seen => evidence[e].at <= intents[i].created
    BY <1>2, <1>3, <1>10 DEF Knowledge
  <2>3. intents[i].created \in Int
    <3>1. intents[i] \in IntentRow
      BY DEF IInv, TypeOK
    <3> QED
      BY ONLY <3>1 DEF IntentRow
  <2>4. evidence[f].at \in Int /\ evidence[e].at \in Int
    BY <1>2, <1>3, <1>10
  <2>5. ~(evidence[f].at >= intents[i].created)
    BY ONLY <1>10, <2>1, <2>2, <2>3, <2>4
  <2> QED
    BY <1>10, <2>5 DEF Answers
<1> QED
  BY <1>11, <1>12

LEMMA InitKnowledge == Init => Knowledge
<1> SUFFICES ASSUME Init PROVE Knowledge
  OBVIOUS
<1>1. settings.version = 0 /\ DOMAIN evidence = {}
  BY DEF Init
<1>2. \A i \in Intent : intents[i] = NoIntent
  BY DEF Init
<1>3. \A r \in Request : req[r] = NoRequest
  BY DEF Init
<1>4. NoIntent.version = 0 /\ NoIntent.seen = 0 /\ NoRequest.phase = "idle"
  BY DEF NoIntent, NoRequest
<1> QED
  BY <1>1, <1>2, <1>3, <1>4 DEF Knowledge

LEMMA NextKnowledge == IInv /\ IInv' /\ Knowledge /\ [Next]_vars => Knowledge'
<1> SUFFICES ASSUME IInv, IInv', Knowledge, [Next]_vars PROVE Knowledge'
  OBVIOUS
<1>1. CASE Tick \/ UpdateSettings \/ (\E i \in Intent : ReconcileClaim(i)) \/ UNCHANGED vars
  <2>1. UNCHANGED <<intents, evidence, req>>
    BY <1>1 DEF Tick, UpdateSettings, ReconcileClaim, vars
  <2>2. now <= now'
    <3>1. now \in Nat
      BY BoundsAssumption DEF IInv, TypeOK
    <3>2. now' = now \/ now' = now + 1
      BY <1>1 DEF Tick, UpdateSettings, ReconcileClaim, vars
    <3> QED
      BY ONLY <3>1, <3>2
  <2>3. settings' = settings \/ settings'.version > settings.version
    <3>1. settings.version \in Nat
      BY BoundsAssumption DEF IInv, TypeOK
    <3>2. settings' = settings \/ settings'.version = settings.version + 1
      BY <1>1 DEF Tick, UpdateSettings, ReconcileClaim, vars
    <3> QED
      BY ONLY <3>1, <3>2
  <2>4. \A i \in Intent : SameTerms(i)
    BY <2>1 DEF SameTerms
  <2> QED
    BY <2>1, <2>2, <2>3, <2>4, KnowledgeKept
<1>2. ASSUME NEW i \in Intent, Prepare(i) PROVE Knowledge'
  <2>1. /\ intents[i].outcome = "NONE" /\ UNCHANGED <<now, settings, claims, evidence, released, req>>
    BY <1>2 DEF Prepare
  <2>2. PICK refresh \in BOOLEAN, seen \in Shown(settings.what) :
          intents' = [intents EXCEPT ![i] =
                        [outcome |-> "PREPARED", what |-> settings.what, version |-> settings.version,
                         refresh |-> refresh, seen |-> seen, created |-> now, dispatched |-> Never]]
    BY <1>2 DEF Prepare
  <2>3. /\ intents'[i].version = settings.version /\ intents'[i].seen = seen /\ intents'[i].created = now
        /\ \A j \in Intent : j # i => intents'[j] = intents[j]
    BY <2>2 DEF IInv, TypeOK
  <2>4. seen # 0 => evidence[seen].at <= now
    <3>1. seen \in DOMAIN evidence \cup {0}
      BY DEF Shown, Covering, First, Rows, Sufficient, Latest
    <3> QED
      BY <3>1 DEF IInv, TypeOK
  <2>5. \A j \in Intent : j # i => SameTerms(j)
    BY <2>3 DEF SameTerms
  <2>6. now <= now'
    BY <2>1, BoundsAssumption DEF IInv, TypeOK
  <2>7. \A j \in Intent : intents[j].outcome # "NONE" => SameTerms(j) /\ intents'[j].outcome # "NONE"
    BY <2>1, <2>3, <2>5
  <2>8. \A j \in Intent : \/ SameTerms(j)
                          \/ /\ intents'[j].version = settings'.version
                             /\ intents'[j].seen # 0 =>
                                  evidence'[intents'[j].seen].at <= intents'[j].created
    BY <2>1, <2>3, <2>4, <2>5
  <2> QED
    BY <2>1, <2>6, <2>7, <2>8, KnowledgeKept
<1>3. ASSUME NEW r \in Request,
             \/ \E i \in Intent : Execute(r, i)
             \/ Claim(r) \/ Recheck(r) \/ Lookup(r) \/ CacheHit(r) \/ Fail(r) \/ Crash(r)
      PROVE  Knowledge'
  <2>1. UNCHANGED <<now, settings, evidence>>
    BY <1>3 DEF Execute, Claim, Recheck, Lookup, CacheHit, Fail, Crash, End
  <2>2. \A i \in Intent : /\ SameTerms(i)
                          /\ intents[i].outcome # "NONE" => intents'[i].outcome # "NONE"
    <3>1. intents \in [Intent -> IntentRow]
      BY DEF IInv, TypeOK
    <3>2. CASE intents' = intents
      BY <3>2 DEF SameTerms
    <3>3. CASE intents' = [intents EXCEPT ![On(r)].outcome = "DISPATCHED", ![On(r)].dispatched = now]
      BY <3>1, <3>3 DEF SameTerms, IntentRow
    <3>4. ASSUME NEW outcome \in {"CACHE_HIT", "UNCERTAIN", "FAILED"},
                 intents' = [intents EXCEPT ![On(r)].outcome = outcome]
          PROVE  \A i \in Intent : /\ SameTerms(i)
                                   /\ intents[i].outcome # "NONE" => intents'[i].outcome # "NONE"
      BY <3>1, <3>4 DEF SameTerms, IntentRow
    <3> QED
      BY <1>3, <3>2, <3>3, <3>4 DEF Execute, Claim, Recheck, Lookup, CacheHit, Fail, Crash, End
  <2>3. \A q \in Request : req'[q].phase = "checking" => req'[q] = req[q]
    <3>1. req \in [Request -> RequestRow] /\ NoRequest.phase # "checking"
      BY DEF IInv, TypeOK, NoRequest
    <3>2. req' = [req EXCEPT ![r] = NoRequest] => \A q \in Request : req'[q].phase = "checking" => req'[q] = req[q]
      BY <3>1
    <3>3. CASE \E i \in Intent : Execute(r, i)
      BY <3>1, <3>3 DEF Execute
    <3>4. CASE Claim(r) \/ Recheck(r) \/ Lookup(r)
      BY <3>1, <3>2, <3>4 DEF Claim, Recheck, Lookup, RequestRow
    <3>5. CASE CacheHit(r) \/ Fail(r) \/ Crash(r)
      BY <3>2, <3>5 DEF CacheHit, Fail, Crash, End
    <3> QED
      BY <1>3, <3>3, <3>4, <3>5
  <2> QED
    BY <2>1, <2>2, <2>3, QuietKeepsKnowledge
<1>4. ASSUME NEW r \in Request, Consult(r) PROVE Knowledge'
  <2>1. /\ req[r].phase = "consulting" /\ UNCHANGED <<now, settings, intents, claims, evidence, released>>
        /\ req \in [Request -> RequestRow]
    BY <1>4 DEF Consult, IInv, TypeOK
  <2>2. PICK i \in Intent : i = On(r) /\ req[r].on = {i} /\ intents[i].outcome # "NONE"
    BY <2>1, Executes
  <2>3. \A j \in Intent : SameTerms(j)
    BY <2>1 DEF SameTerms
  <2>4. PICK phase \in {"checking", "covered"} :
          /\ req' = [req EXCEPT ![r].phase = phase]
          /\ phase = "checking" => \/ Covering(settings.what) = {}
                                   \/ \E e \in Covering(settings.what) : ~Answers(i, e)
    BY <1>4, <2>2 DEF Consult
  <2>5. phase = "checking" /\ Confirmed(i) => Unknown(i)
    <3>1. Confirmed(i) => Key(i) = settings.what
      BY DEF Confirmed, Key
    <3> QED
      BY <2>4, <3>1, ConsultedIsUnknown
  <2>6. \A q \in Request, j \in Intent :
          req'[q].on = {j} /\ req'[q].phase = "checking" =>
            \/ req[q].on = {j} /\ req[q].phase = "checking"
            \/ settings' = settings /\ intents[j].outcome # "NONE" /\ (Confirmed(j) => Unknown(j))
    <3> SUFFICES ASSUME NEW q \in Request, NEW j \in Intent, req'[q].on = {j}, req'[q].phase = "checking"
                 PROVE  \/ req[q].on = {j} /\ req[q].phase = "checking"
                        \/ settings' = settings /\ intents[j].outcome # "NONE" /\ (Confirmed(j) => Unknown(j))
      OBVIOUS
    <3>1. CASE q # r
      BY <2>1, <2>4, <3>1
    <3>2. CASE q = r
      <4>1. req'[r].on = req[r].on /\ req'[r].phase = phase
        BY <2>1, <2>4 DEF RequestRow
      <4>2. j = i /\ phase = "checking"
        BY <2>2, <3>2, <4>1
      <4> QED
        BY <2>1, <2>2, <2>5, <4>2
    <3> QED
      BY <3>1, <3>2
  <2>7. now <= now'
    BY <2>1, BoundsAssumption DEF IInv, TypeOK
  <2> QED
    BY <2>1, <2>3, <2>6, <2>7, KnowledgeKept
<1>5. ASSUME NEW r \in Request, Complete(r) PROVE Knowledge'
  <2>1. /\ req[r].phase = "answered" /\ req[r].phase \in Beyond /\ now' = now /\ settings' = settings
        /\ req \in [Request -> RequestRow] /\ intents \in [Intent -> IntentRow]
    BY <1>5 DEF Complete, IInv, TypeOK, Beyond
  <2>2. PICK i \in Intent : i = On(r) /\ req[r].on = {i} /\ intents[i].outcome # "NONE"
    BY <2>1, Executes
  <2>3. \A j \in Intent : SameTerms(j) /\ (intents[j].outcome # "NONE" => intents'[j].outcome # "NONE")
    <3>1. intents' = intents \/ intents' = [intents EXCEPT ![i].outcome = "SUCCEEDED"]
      BY <1>5, <2>2 DEF Complete
    <3> QED
      BY <2>1, <3>1 DEF SameTerms, IntentRow
  <2>4. \A q \in Request : req'[q].phase = "checking" => q # r /\ req'[q] = req[q]
    <3>1. req' = [req EXCEPT ![r] = NoRequest] \/ req' = [req EXCEPT ![r].phase = "unknown", ![r].at = 0]
      BY <1>5 DEF Complete
    <3> QED
      BY <2>1, <3>1 DEF RequestRow, NoRequest
  <2>5. CASE evidence' = evidence
    BY <2>1, <2>3, <2>4, <2>5, QuietKeepsKnowledge
  <2>6. CASE evidence' = Append(evidence, [by |-> i, at |-> req[r].at])
    <3>1. PICK row : row = [by |-> i, at |-> req[r].at]
      OBVIOUS
    <3>2. row.by = i
      BY <3>1
    <3>3. evidence \in Seq(EvidenceRow) /\ row \in EvidenceRow
      BY <2>1, <3>1 DEF IInv, TypeOK, EvidenceRow, RequestRow
    <3>4. /\ DOMAIN evidence \subseteq DOMAIN evidence'
          /\ \A e \in DOMAIN evidence : evidence'[e] = evidence[e]
          /\ \A e \in DOMAIN evidence' \ DOMAIN evidence : evidence'[e] = row
      <4>1. evidence' = Append(evidence, row)
        BY <2>6, <3>1
      <4> QED
        BY ONLY <3>3, <4>1
    <3>5. \A q \in Request, j \in Intent :
            req'[q].on = {j} /\ req'[q].phase = "checking" => Key(i) # Key(j)
      <4> SUFFICES ASSUME NEW q \in Request, NEW j \in Intent, req'[q].on = {j}, req'[q].phase = "checking"
                   PROVE  Key(i) # Key(j)
        OBVIOUS
      <4>1. q # r /\ req[q].on = {j} /\ req[q].phase \in Beyond
        BY <2>4 DEF Beyond
      <4>2. On(q) = j
        BY <4>1, OnIs
      <4> QED
        BY <2>1, <2>2, <4>1, <4>2, OneWorker DEF OneWorkerPerKey
    <3>6. \A e \in DOMAIN evidence' \ DOMAIN evidence :
             /\ intents[evidence'[e].by].outcome # "NONE"
             /\ \A q \in Request, j \in Intent :
                  req'[q].on = {j} /\ req'[q].phase = "checking" => Key(evidence'[e].by) # Key(j)
      BY <2>2, <3>2, <3>4, <3>5
    <3>7. now <= now'
      BY <2>1, BoundsAssumption DEF IInv, TypeOK
    <3> QED
      BY <2>1, <2>3, <2>4, <3>4, <3>6, <3>7, KnowledgeKept
  <2> QED
    BY <1>5, <2>2, <2>5, <2>6 DEF Complete
<1> QED
  BY <1>1, <1>2, <1>3, <1>4, <1>5 DEF Next

\* The provider is not paid for what is known: when the settings are checked for the
\* last time and a lookup is sent (gstin-verification.service.ts:285-293), no fresh
\* evidence of the same key has come in since its intent was confirmed, and
\* unless it is a refresh of what was known there is none at all.
THEOREM KnownIsNotPaidFor == Spec => KnownIsNotPaidForAgain
<1> DEFINE Sent ==
      \A r \in Request : req[r].phase = "checking" /\ req'[r].phase = "calling" =>
        \A e \in Latest(Key(On(r))) : IsFresh(e) => intents[On(r)].refresh /\ ~Answers(On(r), e)
<1>1. IInv /\ Knowledge /\ [Next]_vars => Sent
  <2> SUFFICES ASSUME IInv, Knowledge, [Next]_vars, NEW r \in Request,
                      req[r].phase = "checking", req'[r].phase = "calling"
               PROVE  Unknown(On(r))
    BY DEF Unknown
  <2>1. req \in [Request -> RequestRow] /\ NoRequest.phase = "idle"
    BY DEF IInv, TypeOK, NoRequest
  <2>2. On(r) \in Intent /\ req[r].on = {On(r)}
    BY Executes
  <2>3. CASE Recheck(r)
    <3>1. Confirmed(On(r))
      BY <2>1, <2>3 DEF Recheck, RequestRow
    <3> QED
      BY <2>2, <3>1 DEF Knowledge
  <2>4. CASE ~Recheck(r)
    <3>1. req' # req
      OBVIOUS
    <3>2. \A q \in Request : req'[r] # req[r] /\ (\E row : req' = [req EXCEPT ![q] = row]) => q = r
      BY <2>1
    <3>3. PICK q \in Request :
            \/ \E i \in Intent : Execute(q, i)
            \/ Claim(q) \/ Consult(q) \/ Recheck(q) \/ Lookup(q) \/ CacheHit(q)
            \/ Complete(q) \/ Fail(q) \/ Crash(q)
      BY <3>1 DEF Next, Tick, UpdateSettings, ReconcileClaim, Prepare, vars
    <3>4. \E row : req' = [req EXCEPT ![q] = row]
      BY <3>3 DEF Execute, Claim, Consult, Recheck, Lookup, CacheHit, Complete, Fail, Crash, End
    <3>5. q = r
      BY <3>2, <3>4
    <3>6. Crash(r)
      BY <2>1, <2>4, <3>3, <3>5 DEF Execute, Claim, Consult, Lookup, CacheHit, Complete, Fail
    <3> QED
      BY <2>1, <3>6 DEF Crash
  <2> QED
    BY <2>3, <2>4
<1> QED
  BY <1>1, InitIInv, NextIInv, InitKnowledge, NextKnowledge, PTL DEF Spec, KnownIsNotPaidForAgain
=============================================================================
