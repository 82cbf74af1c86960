---------------------------- MODULE CartonDelivery ----------------------------
(***************************************************************************)
(* The delivery label of one carton: a credential is issued when the label *)
(* is printed, revoked, extended or replaced at the desk, and used by      *)
(* whoever delivers the carton to record that it arrived.                  *)
(*                                                                         *)
(* Every request looks the carton up, waits for the locks that carton      *)
(* edits, inspections and retirements also take, reads everything again    *)
(* (one step) and commits (a second one).  The dispatch of the carton's    *)
(* packing list and the clock take none of these locks.                    *)
(***************************************************************************)
EXTENDS Integers, Sequences, FiniteSets, FiniteSetsExt

CONSTANTS
    Desk,           \* requests of the desk in flight
    Person,         \* people delivering, each with one idempotency key
    ValidFor,       \* validityDays, in ticks of the clock
    MaxTime,        \* bound on the clock
    MaxVersion,     \* bound on the version of the carton
    MaxToken        \* bound on the credentials ever issued

ASSUME DeliveryAssumption ==
    /\ {ValidFor, MaxTime, MaxVersion, MaxToken} \subseteq Nat \ {0}
    /\ IsFiniteSet(Desk) /\ IsFiniteSet(Person) /\ Desk \cap Person = {}
    /\ "none" \notin Desk \cup Person

VARIABLES
    now,            \* the clock of the server
    carton,         \* the carton with its last inspection and its dispatch
    tokens,         \* CartonDeliveryToken rows in the order of their issue
    evidence,       \* the CartonDeliveryConfirmation, NoEvidence before
    holder,         \* the request that holds the carton's locks, if any
    req             \* actor -> the request it has in flight and its answer

deliveryVars == <<now, carton, tokens, evidence, holder, req>>

Actor      == Desk \cup Person
NoOne      == "none"
NoEvidence == [token |-> 0, by |-> NoOne]
Idle       == [phase |-> "idle", op |-> "none", token |-> 0, version |-> 0, until |-> 0,
               seen |-> << >>]

CartonRow   == [version: 1 .. MaxVersion, audited: 0 .. MaxVersion, retired: BOOLEAN,
                ready: BOOLEAN, dispatched: -1 .. MaxTime]
TokenRow    == [by: {"print", "reissue"}, revoked: Int, until: Nat]
EvidenceRow == [token: 0 .. MaxToken, by: Person \cup {NoOne}]
RequestRow  == [phase: {"idle", "sent", "locked", "confirmed", "refused"},
                op: {"none", "confirm", "print", "revoke", "extend", "reissue"},
                token: Nat, version: Nat, until: Nat,
                seen: {<< >>} \cup [carton: CartonRow, tokens: Seq(TokenRow), evidence: EvidenceRow]]

\* an extension is recorded only for a carton that is dispatched
DeliveryTypeOK ==
    /\ now \in 0 .. MaxTime /\ carton \in CartonRow
    /\ tokens \in Seq(TokenRow) /\ Len(tokens) <= MaxToken
    /\ \A i \in DOMAIN tokens : tokens[i].until # 0 => carton.dispatched >= 0
    /\ evidence \in EvidenceRow
    /\ holder \in Actor \cup {NoOne}
    /\ req \in [Actor -> RequestRow]

DeliveryInit ==
    /\ now = 0
    /\ carton = [version |-> 1, audited |-> 0, retired |-> FALSE, ready |-> FALSE,
                 dispatched |-> -1]
    /\ tokens = << >>
    /\ evidence = NoEvidence
    /\ holder = NoOne
    /\ req = [a \in Actor |-> Idle]

-----------------------------------------------------------------------------
(* The carton *)

Inspected(c) == ~c.retired /\ c.audited = c.version

\* edits, inspections and retirements, while the factory dispatch is a draft
ChangeCarton(row) ==
    /\ holder = NoOne /\ ~carton.ready /\ ~carton.retired
    /\ carton' = row
    /\ UNCHANGED <<now, tokens, evidence, holder, req>>

EditCarton    == carton.version < MaxVersion /\ ChangeCarton([carton EXCEPT !.version = @ + 1])
InspectCarton == ChangeCarton([carton EXCEPT !.audited = carton.version])
RetireIt  == ChangeCarton([carton EXCEPT !.retired = TRUE])
FinalizeItsDispatch == Inspected(carton) /\ ChangeCarton([carton EXCEPT !.ready = TRUE])

\* recordErveDispatch of the carton's packing list
RecordItsDispatch ==
    /\ carton.ready /\ carton.dispatched < 0
    /\ carton' = [carton EXCEPT !.dispatched = now]
    /\ UNCHANGED <<now, tokens, evidence, holder, req>>

Tick == now < MaxTime /\ now' = now + 1 /\ UNCHANGED <<carton, tokens, evidence, holder, req>>

-----------------------------------------------------------------------------
(* Credentials *)

\* a credential does not expire before the carton is dispatched
Expired(t, c) == c.dispatched >= 0 /\ Max({c.dispatched + ValidFor, t.until}) <= now

\* currentToken: an unrevoked one, else the one revoked last; 0 if there is none
CurrentToken(ts) ==
    IF ts = << >> THEN 0
    ELSE CHOOSE i \in DOMAIN ts : \A j \in DOMAIN ts \ {i} :
           LET a == ts[i].revoked
               b == ts[j].revoked
           IN  IF a = b THEN j < i ELSE a < 0 \/ (b >= 0 /\ b < a)

\* issue: only a reissue past the expiry of the shipment starts extended
Issue(ts, c, by) ==
    Append(ts, [by |-> by, revoked |-> -1,
                until |-> IF by = "reissue" /\ c.dispatched >= 0 /\ c.dispatched + ValidFor <= now
                          THEN now + ValidFor ELSE 0])

Revoke(ts, i) ==
    IF i > 0 /\ ts[i].revoked < 0 THEN [ts EXCEPT ![i].revoked = now] ELSE ts

-----------------------------------------------------------------------------
(* Requests *)

Ops(a) == IF a \in Person THEN {"confirm"} ELSE {"print", "revoke", "extend", "reissue"}

\* A desk sends what its page shows; a label carries any credential ever issued.
\* 'refused' tells a person that another delivery is on record, he stops then.
Send(a) ==
    /\ req[a].phase = "idle"
    /\ \E op \in Ops(a), t \in 0 .. Len(tokens), u \in {0, MaxTime, MaxTime + 1} :
         /\ a \in Person => t > 0
         /\ a \in Desk => t = CurrentToken(tokens)
         /\ op = "extend" <=> u > 0
         /\ req' = [req EXCEPT ![a] = [phase |-> "sent", op |-> op, token |-> t,
                version |-> carton.version, until |-> u, seen |-> << >>]]
    /\ UNCHANGED <<now, carton, tokens, evidence, holder>>

\* fault: the locks are not waited for
LockFree_always == TRUE

LockFree == holder = NoOne

\* withCarton: the locks are taken and everything is read under them
Lock(a) ==
    /\ req[a].phase = "sent" /\ LockFree
    /\ holder' = a
    /\ req' = [req EXCEPT ![a].phase = "locked",
                          ![a].seen = [carton |-> carton, tokens |-> tokens, evidence |-> evidence]]
    /\ UNCHANGED <<now, carton, tokens, evidence>>

Release(a, answer) ==
    /\ holder' = NoOne /\ req' = [req EXCEPT ![a] = answer]
    /\ UNCHANGED <<now, carton>>

\* prepareLabel: the first print issues the credential, later ones repeat it
PrepareLabel(a) ==
    LET s == req[a].seen
        t == CurrentToken(s.tokens)
    IN  /\ req[a].op = "print"
        /\ tokens' = IF /\ Inspected(s.carton) /\ s.carton.version = req[a].version
                        /\ t = 0 /\ Len(s.tokens) < MaxToken
                     THEN Issue(s.tokens, s.carton, "print") ELSE tokens
        /\ Release(a, Idle) /\ UNCHANGED evidence

Extendable(s, t, until) ==
    /\ s.tokens[t].revoked < 0 /\ Inspected(s.carton) /\ s.carton.dispatched >= 0
    /\ until > Max({now, s.carton.dispatched + ValidFor, s.tokens[t].until})

\* fault: a replaced credential is left as it is
Managed_without_revoking(s, t, op, until) ==
    IF op = "reissue" /\ Inspected(s.carton) /\ Len(s.tokens) < MaxToken
    THEN Issue(s.tokens, s.carton, op) ELSE s.tokens

\* what manage makes of the rows it has read
Managed(s, t, op, until) ==
    CASE op = "extend" -> IF t > 0 /\ Extendable(s, t, until)
                          THEN [s.tokens EXCEPT ![t].until = until] ELSE s.tokens
      [] op = "revoke" -> Revoke(s.tokens, t)
      [] op = "reissue" -> IF Inspected(s.carton) /\ Len(s.tokens) < MaxToken
                           THEN Issue(Revoke(s.tokens, t), s.carton, "reissue") ELSE s.tokens

ManageCredential(a) ==
    LET s == req[a].seen
        t == CurrentToken(s.tokens)
    IN  /\ req[a].op \in {"extend", "revoke", "reissue"}
        /\ tokens' = IF t = req[a].token /\ (t = 0 => req[a].op = "reissue")
                     THEN Managed(s, t, req[a].op, req[a].until) ELSE tokens
        /\ Release(a, Idle) /\ UNCHANGED evidence

\* withCredential and recordedDispatch
Opens(s, t) ==
    s.tokens[t].revoked < 0 /\ Inspected(s.carton) /\ ~Expired(s.tokens[t], s.carton)

\* fault: any accepted confirmation is taken for one's own
Answer_of_any(a, s) == IF s.evidence = NoEvidence THEN "new" ELSE "confirmed"

Answer(a, s) ==
    IF s.evidence = NoEvidence THEN "new"
    ELSE IF s.evidence = [token |-> req[a].token, by |-> a] THEN "confirmed" ELSE "refused"

\* confirm; a person who is not answered sends the request again
Confirm(a) ==
    LET s == req[a].seen
        r == [req[a] EXCEPT !.seen = << >>]
        open == Opens(s, req[a].token) /\ s.carton.dispatched >= 0
        how == Answer(a, s)
    IN  /\ req[a].op = "confirm"
        /\ evidence' = IF open /\ how = "new" THEN [token |-> req[a].token, by |-> a]
                       ELSE evidence
        /\ \E p \in {"sent", IF ~open THEN "idle" ELSE IF how = "new" THEN "confirmed" ELSE how} :
             Release(a, IF p = "idle" THEN Idle ELSE [r EXCEPT !.phase = p])
        /\ UNCHANGED tokens

Commit(a) ==
    /\ req[a].phase = "locked"
    /\ PrepareLabel(a) \/ ManageCredential(a) \/ Confirm(a)

-----------------------------------------------------------------------------
DeliveryNext ==
    \/ EditCarton \/ InspectCarton \/ RetireIt \/ FinalizeItsDispatch
    \/ RecordItsDispatch \/ Tick
    \/ \E a \in Actor : Send(a) \/ Lock(a) \/ Commit(a)

DeliverySpec == DeliveryInit /\ [][DeliveryNext]_deliveryVars

-----------------------------------------------------------------------------
(* Properties *)

\* At most one credential of the carton is unrevoked, the one issued last:
\* printing and replacing at two desks never leaves two labels that both work.
OneLiveCredential ==
    \A i \in DOMAIN tokens : tokens[i].revoked < 0 => i = Len(tokens)

\* A delivery is recorded only while its label is good: when the evidence is
\* written the credential is unrevoked and unexpired, and the carton inspected
\* and dispatched, whatever happened since the label was scanned.
DeliveredByAGoodLabel ==
    [][evidence' # evidence =>
         /\ evidence = NoEvidence
         /\ tokens[evidence'.token].revoked < 0 /\ ~Expired(tokens[evidence'.token], carton)
         /\ Inspected(carton) /\ carton.dispatched >= 0]_deliveryVars

\* A person told 'confirmed' has his delivery on record, and one who is refused
\* has not by that label, whatever answers were lost and requests repeated.
AnswersAreTrue ==
    \A a \in Person : /\ req[a].phase = "confirmed" =>
                            evidence = [token |-> req[a].token, by |-> a]
                      /\ req[a].phase = "refused" =>
                            evidence \notin {NoEvidence, [token |-> req[a].token, by |-> a]}
=============================================================================
