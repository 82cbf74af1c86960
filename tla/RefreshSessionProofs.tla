------------------------- MODULE RefreshSessionProofs -------------------------
(***************************************************************************)
(* The safety of RefreshSession for any number of requests, any timeouts   *)
(* and grace period, and any bounds.                                       *)
(***************************************************************************)
EXTENDS RefreshSession, TLAPS

\* The requests that refresh and have not been told to revoke.
Refreshing == {"finding", "rotating", "rereading"}

-----------------------------------------------------------------------------
(* The inductive invariant *)

\* Nobody has a token before the login is done, so nobody asks with one.
LoginFirst ==
    IF login.step = "done" THEN session.exists
    ELSE /\ session = NoSession /\ issued = {}
         /\ \A r \in Request : pc[r] \in Finished

\* A request carries a token the session has reached, and one that is not the
\* last of the bounded chain if it may rotate it; its instant has passed.
CallsStand ==
    \A r \in Request :
        /\ call[r].now <= clock
        /\ pc[r] \in Waiting => call[r].token <= session.hash
        /\ pc[r] \in Refreshing => call[r].token < MaxToken

\* Whoever carries the current token got it after it was made: the instant his
\* rotation would write is no earlier than the ones it replaces.
InstantsStand ==
    /\ session.lastUsed <= clock /\ session.updatedAt <= clock
    /\ \A r \in Request :
          pc[r] \in {"finding", "rotating"} /\ IsCurrent(session, call[r].token)
            => session.lastUsed <= call[r].now /\ session.updatedAt <= call[r].now

\* What a lookup accepted stays acceptable for as long as nobody revokes it.
LookupsStand ==
    \A r \in Request :
        pc[r] \in {"rotating", "rereading"} /\ ~ session.revoked
            => Accepted(session, user) /\ call[r].now < session.deadline

IInv ==
    /\ TypeOK /\ TokensFormAChain
    /\ LoginFirst /\ CallsStand /\ InstantsStand /\ LookupsStand

-----------------------------------------------------------------------------
(* Each conjunct, step by step *)

\* What a step of a request leaves in its call and its place.
LEMMA ProceedType ==
    ASSUME TypeOK, NEW r \in Request, NEW step \in Waiting \cup Finished, Proceed(r, step)
    PROVE  /\ pc' \in [Request -> Waiting \cup Finished]
           /\ call' \in [Request -> [token: Generation, activity: BOOLEAN, now: Time]]
<1>1. NoCall \in [token: Generation, activity: BOOLEAN, now: Time]
  BY BoundsAssumption DEF NoCall, Generation, Time
<1> QED
  BY <1>1 DEF TypeOK, Proceed

\* The tokens of the clients stay within the bounded chain.
LEMMA AnswerType ==
    ASSUME TypeOK, CallsStand, NEW r \in Request, pc[r] \in Refreshing,
           Answer(r) \/ UNCHANGED issued
    PROVE  issued' \subseteq Generation
<1>1. call[r].token \in Generation /\ call[r].token < MaxToken
  BY DEF TypeOK, CallsStand
<1>2. call[r].token + 1 \in Generation
  BY <1>1, BoundsAssumption DEF Generation
<1> QED
  BY <1>2 DEF TypeOK, Answer

\* The types: a token that is rotated is not the last of the bounded chain.
LEMMA TypeStep ==
    ASSUME TypeOK, CallsStand, [Next]_vars
    PROVE  TypeOK'
<1> USE BoundsAssumption DEF TypeOK, User, Session, Time, Generation, Version
<1>1. CASE ReadAccount
  BY <1>1 DEF ReadAccount
<1>2. CASE CreateRefreshSession
  BY <1>2 DEF CreateRefreshSession
<1>3. ASSUME NEW r \in Request, NEW t \in issued, Logout(r, t)
      PROVE  TypeOK'
  BY <1>3 DEF Logout, Receive, Waiting
<1>4. ASSUME NEW r \in Request, NEW t \in issued, NEW a \in BOOLEAN, Refresh(r, t, a)
      PROVE  TypeOK'
  BY <1>4 DEF Refresh, Receive, Waiting
<1>5. ASSUME NEW r \in Request, FindSession(r)
      PROVE  TypeOK'
  <2>1. Verdict(session, user, call[r]) \in Waiting \cup Finished
    BY DEF Verdict, Waiting, Finished
  <2>2. pc[r] \in Refreshing /\ Proceed(r, Verdict(session, user, call[r]))
    BY <1>5 DEF FindSession, Refreshing
  <2>3. Answer(r) \/ UNCHANGED issued
    BY <1>5 DEF FindSession
  <2>4. UNCHANGED <<clock, user, session, login>>
    BY <1>5 DEF FindSession
  <2> QED
    BY <2>1, <2>2, <2>3, <2>4, ProceedType, AnswerType
<1>6. ASSUME NEW r \in Request, Rotate(r)
      PROVE  TypeOK'
  <2>1. call[r].token + 1 \in Generation /\ call[r].now \in Time
    BY <1>6 DEF Rotate, CallsStand, Refreshing
  <2>2. session' \in Session
    BY <1>6, <2>1 DEF Rotate
  <2>3. pc[r] \in Refreshing /\ Answer(r)
    BY <1>6 DEF Rotate, Refreshing
  <2>4. Proceed(r, "answered") /\ UNCHANGED <<clock, user, login>>
    BY <1>6 DEF Rotate
  <2> QED
    BY <2>2, <2>3, <2>4, ProceedType, AnswerType DEF Finished
<1>7. ASSUME NEW r \in Request, RereadSession(r)
      PROVE  TypeOK'
  <2>1. pc[r] \in Refreshing /\ (Answer(r) \/ UNCHANGED issued)
    BY <1>7 DEF RereadSession, Refreshing
  <2>2. \E step \in {"answered", "rejected"} : Proceed(r, step)
    BY <1>7 DEF RereadSession
  <2>3. UNCHANGED <<clock, user, session, login>>
    BY <1>7 DEF RereadSession
  <2> QED
    BY <2>1, <2>2, <2>3, ProceedType, AnswerType DEF Finished
<1>8. ASSUME NEW r \in Request, RevokeSession(r) \/ SignOut(r)
      PROVE  TypeOK'
  <2>1. session' \in Session /\ UNCHANGED <<clock, user, login, issued>>
    BY <1>8 DEF RevokeSession, SignOut, Revoke
  <2>2. \E step \in {"rejected", "signedOut"} : Proceed(r, step)
    BY <1>8 DEF RevokeSession, SignOut
  <2> QED
    BY <2>1, <2>2, ProceedType DEF Finished
<1>9. ASSUME NEW r \in Request, LoseRotation(r) \/ LookUpSession(r) \/ Drop(r)
      PROVE  TypeOK'
  <2>1. UNCHANGED <<clock, user, session, login, issued>>
    BY <1>9 DEF LoseRotation, LookUpSession, Drop
  <2>2. \E step \in {"rereading", "signingOut", "signedOut", "dropped"} : Proceed(r, step)
    BY <1>9 DEF LoseRotation, LookUpSession, Drop
  <2> QED
    BY <2>1, <2>2, ProceedType DEF Waiting, Finished
<1>10. CASE Administer
  <2>1. session' \in Session
    BY <1>10 DEF Administer, ResetPassword, Deactivate, Reactivate, RevokeAll
  <2>2. user' \in User
    <3>1. CASE ResetPassword
      <4>1. user.version + 1 \in 0 .. MaxVersion
        BY <3>1 DEF ResetPassword
      <4> QED
        BY <3>1, <4>1 DEF ResetPassword
    <3>2. CASE Deactivate
      BY <3>2 DEF Deactivate
    <3>3. CASE Reactivate
      BY <3>3 DEF Reactivate
    <3> QED
      BY <1>10, <3>1, <3>2, <3>3 DEF Administer
  <2>3. UNCHANGED <<clock, login, issued, pc, call>>
    BY <1>10 DEF Administer, ResetPassword, Deactivate, Reactivate
  <2> QED
    BY <2>1, <2>2, <2>3
<1>11. CASE Tick
  BY <1>11 DEF Tick
<1>12. CASE UNCHANGED vars
  BY <1>12 DEF vars
<1> QED
  BY <1>1, <1>2, <1>3, <1>4, <1>5, <1>6, <1>7, <1>8, <1>9, <1>10, <1>11, <1>12
  DEF Next, Handle

\* A step of a request touches the request alone, and its call only to drop it.
LEMMA ProceedEffect ==
    ASSUME TypeOK, NEW r \in Request, NEW step, Proceed(r, step)
    PROVE  /\ pc'[r] = step
           /\ call'[r] = call[r] \/ (step \in Finished /\ call'[r] = NoCall)
           /\ \A q \in Request \ {r} : pc'[q] = pc[q] /\ call'[q] = call[q]
  BY DEF TypeOK, Proceed

\* A step of a request begins where the request waits and ends somewhere known.
LEMMA HandleEffect ==
    ASSUME NEW r \in Request, Handle(r) \/ Drop(r)
    PROVE  /\ pc[r] \in Waiting /\ UNCHANGED <<clock, user, login>>
           /\ \E step \in (Waiting \ {"finding"}) \cup Finished : Proceed(r, step)
<1> USE DEF Waiting, Finished
<1>1. CASE FindSession(r)
  <2>1. Verdict(session, user, call[r]) \in {"revoking", "rotating", "answered"}
    BY DEF Verdict
  <2> QED
    BY <1>1, <2>1 DEF FindSession
<1>2. CASE Rotate(r) \/ LoseRotation(r)
  BY <1>2 DEF Rotate, LoseRotation
<1>3. CASE RereadSession(r) \/ RevokeSession(r)
  BY <1>3 DEF RereadSession, RevokeSession
<1>4. CASE LookUpSession(r) \/ SignOut(r) \/ Drop(r)
  BY <1>4 DEF LookUpSession, SignOut, Drop
<1> QED
  BY <1>1, <1>2, <1>3, <1>4 DEF Handle

\* The row: a step of a request rotates it, revokes it or leaves it.
LEMMA RowEffect ==
    ASSUME NEW r \in Request, Handle(r) \/ Drop(r)
    PROVE  \/ Rotate(r)
           \/ session' = [session EXCEPT !.revoked = TRUE]
           \/ session' = session
  BY DEF Handle, FindSession, LoseRotation, RereadSession, RevokeSession, LookUpSession,
         SignOut, Drop, Revoke

\* Login: a request needs a token, and a token a finished login.
LEMMA LoginStep ==
    ASSUME IInv, [Next]_vars
    PROVE  LoginFirst'
<1> USE DEF IInv, TypeOK, LoginFirst
<1>1. CASE ReadAccount
  BY <1>1 DEF ReadAccount
<1>2. CASE CreateRefreshSession
  BY <1>2 DEF CreateRefreshSession
<1>3. ASSUME NEW r \in Request, NEW t \in issued, NEW a \in BOOLEAN,
             Logout(r, t) \/ Refresh(r, t, a)
      PROVE  LoginFirst'
  BY <1>3 DEF Logout, Refresh, Receive
<1>4. ASSUME NEW r \in Request, Handle(r) \/ Drop(r)
      PROVE  LoginFirst'
  <2>1. login.step = "done" /\ login' = login
    BY <1>4, HandleEffect DEF Waiting, Finished
  <2>2. session.exists /\ session \in Session
    BY <2>1
  <2>3. session'.exists
    BY <1>4, <2>2, RowEffect DEF Rotate, Session
  <2> QED
    BY <2>1, <2>3
<1>5. CASE Administer
  <2>1. ASSUME session = NoSession, RevokeAll
        PROVE  session' = NoSession
    BY <2>1 DEF RevokeAll, NoSession
  <2>2. session.exists => session'.exists
    BY <1>5 DEF Administer, ResetPassword, Deactivate, Reactivate, RevokeAll, Session
  <2>3. UNCHANGED <<login, issued, pc>> /\ (RevokeAll \/ UNCHANGED session)
    BY <1>5 DEF Administer, ResetPassword, Deactivate, Reactivate
  <2> QED
    BY <2>1, <2>2, <2>3
<1>6. CASE Tick \/ UNCHANGED vars
  BY <1>6 DEF Tick, vars
<1> QED
  BY <1>1, <1>2, <1>3, <1>4, <1>5, <1>6 DEF Next

\* Handing out a token the row has reached.
LEMMA ChainGrows ==
    ASSUME IInv, NEW r \in Request, session'.hash \in Int, session.hash <= session'.hash,
           \/ UNCHANGED issued
           \/ Answer(r) /\ session'.hash = call[r].token + 1
    PROVE  TokensFormAChain'
<1> SUFFICES ASSUME NEW t \in issued'
             PROVE  t <= session'.hash
  BY DEF TokensFormAChain
<1>1. t \in issued \/ t = session'.hash
  BY DEF Answer
<1>2. t \in issued => t <= session.hash /\ t \in Int /\ session.hash \in Int
  BY DEF IInv, TypeOK, TokensFormAChain, Generation, Session
<1> QED
  BY <1>1, <1>2

\* The tokens: the row is never behind a token that was handed out.
LEMMA ChainStep ==
    ASSUME IInv, [Next]_vars
    PROVE  TokensFormAChain'
<1> USE DEF IInv, TypeOK, TokensFormAChain, Session, Generation
<1>1. ASSUME NEW r \in Request, FindSession(r)
      PROVE  TokensFormAChain'
  <2>1. Verdict(session, user, call[r]) = "answered" => session.hash = call[r].token + 1
    BY DEF Verdict, IsSuccessor
  <2>2. UNCHANGED issued \/ (Answer(r) /\ session.hash = call[r].token + 1)
    BY <1>1, <2>1 DEF FindSession
  <2>3. session' = session
    BY <1>1 DEF FindSession
  <2> QED
    BY <2>2, <2>3, ChainGrows
<1>2. ASSUME NEW r \in Request, RereadSession(r)
      PROVE  TokensFormAChain'
  <2>1. UNCHANGED issued \/ (Answer(r) /\ session.hash = call[r].token + 1)
    BY <1>2 DEF RereadSession, IsSuccessor
  <2>2. session' = session
    BY <1>2 DEF RereadSession
  <2> QED
    BY <2>1, <2>2, ChainGrows
<1>3. ASSUME NEW r \in Request, Rotate(r)
      PROVE  TokensFormAChain'
  <2>1. session.hash = call[r].token /\ session'.hash = call[r].token + 1
    BY <1>3 DEF Rotate, Rotatable, IsCurrent
  <2>2. Answer(r)
    BY <1>3 DEF Rotate
  <2> QED
    BY <2>1, <2>2, ChainGrows
<1>4. CASE CreateRefreshSession
  BY <1>4 DEF CreateRefreshSession
<1>5. ASSUME UNCHANGED issued, session'.hash = session.hash
      PROVE  TokensFormAChain'
  BY <1>5
<1>6. ASSUME NEW r \in Request,
             \/ LoseRotation(r) \/ RevokeSession(r) \/ LookUpSession(r)
             \/ SignOut(r) \/ Drop(r)
      PROVE  TokensFormAChain'
  BY <1>5, <1>6 DEF LoseRotation, RevokeSession, LookUpSession, SignOut, Drop, Revoke
<1>7. CASE Administer
  BY <1>5, <1>7 DEF Administer, ResetPassword, Deactivate, Reactivate, RevokeAll
<1>8. CASE ReadAccount \/ Tick \/ UNCHANGED vars
  BY <1>5, <1>8 DEF ReadAccount, Tick, vars
<1>9. ASSUME NEW r \in Request, NEW t \in issued, NEW a \in BOOLEAN,
             Logout(r, t) \/ Refresh(r, t, a)
      PROVE  TokensFormAChain'
  BY <1>5, <1>9 DEF Logout, Refresh, Receive
<1> QED
  BY <1>1, <1>2, <1>3, <1>4, <1>6, <1>7, <1>8, <1>9 DEF Next, Handle

\* The calls: a request is received with a token of the chain and with now.
LEMMA CallsStep ==
    ASSUME IInv, [Next]_vars
    PROVE  CallsStand'
<1> USE DEF IInv, TypeOK, CallsStand, Session, Generation, Time
<1>1. CASE ReadAccount \/ Administer
  BY <1>1 DEF ReadAccount, Administer, ResetPassword, Deactivate, Reactivate, RevokeAll
<1>2. CASE CreateRefreshSession
  BY <1>2 DEF CreateRefreshSession, LoginFirst, Finished, Waiting, Refreshing
<1>3. ASSUME NEW r \in Request, NEW t \in issued, NEW a \in BOOLEAN,
             Logout(r, t) \/ Refresh(r, t, a)
      PROVE  CallsStand'
  <2>1. t <= session.hash
    BY DEF TokensFormAChain
  <2>2. UNCHANGED <<clock, session>>
    BY <1>3 DEF Logout, Refresh, Receive
  <2>3. call'[r].token = t /\ call'[r].now = clock
    BY <1>3 DEF Logout, Refresh, Receive
  <2>4. pc'[r] \in Refreshing => t < MaxToken
    BY <1>3 DEF Logout, Refresh, Receive, Refreshing
  <2>5. \A q \in Request \ {r} : pc'[q] = pc[q] /\ call'[q] = call[q]
    BY <1>3 DEF Logout, Refresh, Receive
  <2> QED
    BY <2>1, <2>2, <2>3, <2>4, <2>5
<1>4. ASSUME NEW r \in Request, Handle(r) \/ Drop(r)
      PROVE  CallsStand'
  <2>1. clock' = clock /\ pc[r] \in Waiting
    BY <1>4, HandleEffect
  <2>2. session'.hash \in Int /\ session.hash <= session'.hash
    <3>1. CASE Rotate(r)
      BY <3>1 DEF Rotate, Rotatable, IsCurrent
    <3>2. CASE ~ Rotate(r)
      BY <1>4, <3>2, RowEffect
    <3> QED
      BY <3>1, <3>2
  <2>3. \A q \in Request \ {r} : pc'[q] = pc[q] /\ call'[q] = call[q]
    BY <1>4, HandleEffect, ProceedEffect
  <2>4. pc'[r] \in Finished \/ call'[r] = call[r]
    BY <1>4, HandleEffect, ProceedEffect
  <2>5. call'[r] = call[r] \/ call'[r].now = 0
    BY <1>4, HandleEffect, ProceedEffect DEF NoCall
  <2>6. pc'[r] \in Refreshing => pc[r] \in Refreshing
    BY <1>4 DEF Handle, FindSession, Rotate, LoseRotation, RereadSession, RevokeSession,
                LookUpSession, SignOut, Drop, Proceed, Refreshing
  <2>7. Finished \cap (Waiting \cup Refreshing) = {}
    BY DEF Finished, Waiting, Refreshing
  <2>8. clock >= 0
    OBVIOUS
  <2>9. call'[r].now <= clock'
    BY <2>1, <2>5, <2>8
  <2>10. pc'[r] \in Waiting => call'[r].token <= session'.hash
    BY <2>1, <2>2, <2>4, <2>7
  <2>11. pc'[r] \in Refreshing => call'[r].token < MaxToken
    BY <2>4, <2>6, <2>7
  <2>12. \A q \in Request \ {r} : /\ call'[q].now <= clock'
                                  /\ pc'[q] \in Waiting => call'[q].token <= session'.hash
                                  /\ pc'[q] \in Refreshing => call'[q].token < MaxToken
    BY <2>1, <2>2, <2>3
  <2> QED
    BY <2>9, <2>10, <2>11, <2>12
<1>5. CASE Tick
  BY <1>5 DEF Tick
<1>6. CASE UNCHANGED vars
  BY <1>6 DEF vars
<1> QED
  BY <1>1, <1>2, <1>3, <1>4, <1>5, <1>6 DEF Next

\* The instants: when a token becomes current nobody carries it yet.
LEMMA InstantsStep ==
    ASSUME IInv, [Next]_vars
    PROVE  InstantsStand'
<1> USE DEF IInv, TypeOK, InstantsStand, IsCurrent, Session, Generation, Time
<1>1. CASE ReadAccount \/ Administer
  BY <1>1 DEF ReadAccount, Administer, ResetPassword, Deactivate, Reactivate, RevokeAll
<1>2. CASE CreateRefreshSession
  BY <1>2 DEF CreateRefreshSession, LoginFirst, Finished
<1>3. ASSUME NEW r \in Request, NEW t \in issued, NEW a \in BOOLEAN,
             Logout(r, t) \/ Refresh(r, t, a)
      PROVE  InstantsStand'
  <2>1. UNCHANGED <<clock, session>> /\ call'[r].now = clock
    BY <1>3 DEF Logout, Refresh, Receive
  <2>2. \A q \in Request \ {r} : pc'[q] = pc[q] /\ call'[q] = call[q]
    BY <1>3 DEF Logout, Refresh, Receive
  <2> QED
    BY <2>1, <2>2
<1>4. ASSUME NEW r \in Request, Rotate(r)
      PROVE  InstantsStand'
  <2>1. session'.hash = session.hash + 1 /\ clock' = clock
    BY <1>4 DEF Rotate, Rotatable
  <2>2. session'.updatedAt <= clock' /\ session'.lastUsed <= clock'
    BY <1>4 DEF Rotate, CallsStand
  <2>3. pc'[r] = "answered"
    BY <1>4, ProceedEffect DEF Rotate
  <2>4. \A q \in Request \ {r} : pc'[q] = pc[q] /\ call'[q] = call[q]
    BY <1>4, ProceedEffect DEF Rotate
  <2>5. \A q \in Request : pc[q] \in {"finding", "rotating"} => call[q].token <= session.hash
    BY DEF CallsStand, Waiting
  <2> QED
    BY <2>1, <2>2, <2>3, <2>4, <2>5
<1>5. ASSUME NEW r \in Request, Handle(r) \/ Drop(r), ~ Rotate(r)
      PROVE  InstantsStand'
  <2>1. session'.hash = session.hash /\ session'.lastUsed = session.lastUsed
        /\ session'.updatedAt = session.updatedAt
    BY <1>5, RowEffect
  <2>2. clock' = clock
    BY <1>5, HandleEffect
  <2>3. \A q \in Request \ {r} : pc'[q] = pc[q] /\ call'[q] = call[q]
    BY <1>5, HandleEffect, ProceedEffect
  <2>4. pc'[r] \in {"finding", "rotating"} => pc[r] = "finding" /\ call'[r] = call[r]
    BY <1>5 DEF Handle, FindSession, LoseRotation, RereadSession, RevokeSession,
                LookUpSession, SignOut, Drop, Proceed, Finished
  <2> QED
    BY <2>1, <2>2, <2>3, <2>4
<1>6. CASE Tick
  BY <1>6 DEF Tick
<1>7. CASE UNCHANGED vars
  BY <1>7 DEF vars
<1> QED
  BY <1>1, <1>2, <1>3, <1>4, <1>5, <1>6, <1>7 DEF Next, Handle

\* The lookups: whoever changes the account revokes, and nothing else moves what
\* a lookup compared.
LEMMA LookupsStep ==
    ASSUME IInv, [Next]_vars
    PROVE  LookupsStand'
<1> USE DEF IInv, TypeOK, LookupsStand, Accepted, Session, User
<1>1. CASE ReadAccount
  BY <1>1 DEF ReadAccount
<1>2. CASE CreateRefreshSession
  BY <1>2 DEF CreateRefreshSession, LoginFirst, Finished
<1>3. ASSUME NEW r \in Request, NEW t \in issued, NEW a \in BOOLEAN,
             Logout(r, t) \/ Refresh(r, t, a)
      PROVE  LookupsStand'
  <2>1. UNCHANGED <<user, session>> /\ pc'[r] \in {"finding", "lookingUp"}
    BY <1>3 DEF Logout, Refresh, Receive
  <2>2. \A q \in Request \ {r} : pc'[q] = pc[q] /\ call'[q] = call[q]
    BY <1>3 DEF Logout, Refresh, Receive
  <2> QED
    BY <2>1, <2>2
<1>4. ASSUME NEW r \in Request, Handle(r) \/ Drop(r)
      PROVE  LookupsStand'
  <2>1. /\ session'.version = session.version /\ session'.deadline = session.deadline
        /\ session.revoked => session'.revoked
    BY <1>4, RowEffect DEF Rotate
  <2>2. user' = user
    BY <1>4, HandleEffect
  <2>3. \A q \in Request \ {r} : pc'[q] = pc[q] /\ call'[q] = call[q]
    BY <1>4, HandleEffect, ProceedEffect
  <2>4. pc'[r] \in {"rotating", "rereading"} =>
          \/ pc[r] = "finding" /\ Verdict(session, user, call[r]) = "rotating"
          \/ pc[r] = "rotating"
    <3>1. CASE FindSession(r)
      <4>1. pc[r] = "finding" /\ pc'[r] = Verdict(session, user, call[r])
        BY <3>1, ProceedEffect DEF FindSession
      <4>2. Verdict(session, user, call[r]) \in {"revoking", "rotating", "answered"}
        BY DEF Verdict
      <4> QED
        BY <4>1, <4>2
    <3>2. CASE Rotate(r) \/ LoseRotation(r)
      BY <3>2 DEF Rotate, LoseRotation
    <3>3. CASE RereadSession(r) \/ RevokeSession(r) \/ LookUpSession(r) \/ SignOut(r) \/ Drop(r)
      BY <3>3 DEF RereadSession, RevokeSession, LookUpSession, SignOut, Drop, Proceed
    <3> QED
      BY <1>4, <3>1, <3>2, <3>3 DEF Handle
  <2>5. Verdict(session, user, call[r]) = "rotating" =>
          Accepted(session, user) /\ call[r].now < session.deadline
    BY DEF Verdict, Expired, Time
  <2>6. pc'[r] \in {"rotating", "rereading"} => call'[r] = call[r]
    BY <1>4, HandleEffect, ProceedEffect DEF Finished
  <2> QED
    BY <2>1, <2>2, <2>3, <2>4, <2>5, <2>6
<1>5. CASE ResetPassword \/ Deactivate
  <2>1. session.exists => session'.revoked
    BY <1>5 DEF ResetPassword, Deactivate, RevokeAll
  <2>2. ~ session.exists => \A r \in Request : pc[r] \in Finished
    BY DEF LoginFirst
  <2>3. pc' = pc
    BY <1>5 DEF ResetPassword, Deactivate
  <2> QED
    BY <2>1, <2>2, <2>3 DEF Finished
<1>6. CASE Reactivate
  BY <1>6 DEF Reactivate
<1>7. CASE Tick \/ UNCHANGED vars
  BY <1>7 DEF Tick, vars
<1> QED
  BY <1>1, <1>2, <1>3, <1>4, <1>5, <1>6, <1>7 DEF Next, Administer

-----------------------------------------------------------------------------
(* The theorems *)

\* The strengthening holds at first and is kept by every step.
LEMMA IInvHolds == Spec => []IInv
<1>1. Init => IInv
  <2> SUFFICES ASSUME Init
               PROVE  IInv
    OBVIOUS
  <2>1. NoSession \in Session /\ NoCall \in [token: Generation, activity: BOOLEAN, now: Time]
    BY BoundsAssumption DEF NoSession, NoCall, Session, Generation, Time, Version
  <2>2. TypeOK
    BY <2>1, BoundsAssumption DEF Init, TypeOK, User, Time, Version, Finished
  <2>3. TokensFormAChain /\ LoginFirst
    BY DEF Init, TokensFormAChain, LoginFirst, Finished
  <2>4. CallsStand
    <3> SUFFICES ASSUME NEW r \in Request
                 PROVE  call[r].now <= clock /\ pc[r] \notin Waiting \cup Refreshing
      BY Zenon DEF CallsStand
    <3>1. call[r].now = 0 /\ clock = 0
      BY DEF Init, NoCall
    <3>2. pc[r] \notin Waiting \cup Refreshing
      BY DEF Init, Waiting, Refreshing
    <3> QED
      BY <3>1, <3>2
  <2>5. InstantsStand /\ LookupsStand
    BY DEF Init, InstantsStand, LookupsStand, NoSession
  <2> QED
    BY <2>2, <2>3, <2>4, <2>5 DEF IInv
<1>2. IInv /\ [Next]_vars => IInv'
  <2> SUFFICES ASSUME IInv, [Next]_vars
               PROVE  IInv'
    OBVIOUS
  <2>1. TypeOK'
    BY TypeStep DEF IInv
  <2> QED
    BY <2>1, ChainStep, LoginStep, CallsStep, InstantsStep, LookupsStep DEF IInv
<1> QED
  BY <1>1, <1>2, PTL DEF Spec

\* Every variable keeps its type, whatever requests, administrators and time do.
THEOREM TypeCorrect == Spec => []TypeOK
<1>1. IInv => TypeOK
  BY DEF IInv
<1> QED
  BY <1>1, IInvHolds, PTL

\* No client ever holds a token the session has not reached, for any number of
\* requests in flight and answers lost.
THEOREM ChainHolds == Spec => []TokensFormAChain
<1>1. IInv => TokensFormAChain
  BY DEF IInv
<1> QED
  BY <1>1, IInvHolds, PTL

\* Nothing that was under way when a session was revoked changes it any more.
THEOREM RevocationIsFinal == Spec => RevokedIsFinal
<1>1. IInv /\ [Next]_vars => [session.revoked => session' = session]_vars
  <2> SUFFICES ASSUME IInv, Next, session.revoked
               PROVE  session' = session
    OBVIOUS
  <2>1. session \in Session
    BY DEF IInv, TypeOK
  <2>2. [session EXCEPT !.revoked = TRUE] = session
    BY <2>1 DEF Session
  <2>3. ASSUME NEW r \in Request, Handle(r) \/ Drop(r)
        PROVE  session' = session
    BY <2>2, <2>3, RowEffect DEF Rotate, Rotatable
  <2>4. ~ CreateRefreshSession
    BY DEF CreateRefreshSession, IInv, LoginFirst, NoSession
  <2>5. CASE Administer
    BY <2>1, <2>2, <2>5 DEF Administer, ResetPassword, Deactivate, Reactivate, RevokeAll
  <2>6. CASE ReadAccount \/ Tick
    BY <2>6 DEF ReadAccount, Tick
  <2>7. ASSUME NEW r \in Request, NEW t \in issued, NEW a \in BOOLEAN,
               Logout(r, t) \/ Refresh(r, t, a)
        PROVE  session' = session
    BY <2>7 DEF Logout, Refresh, Receive
  <2> QED
    BY <2>3, <2>4, <2>5, <2>6, <2>7 DEF Next
<1> QED
  BY <1>1, IInvHolds, PTL DEF Spec, RevokedIsFinal

\* Where an answer comes from: the lookup, the rotation or the second look.
LEMMA AnswerSources ==
    ASSUME IInv, Next, NEW r \in Request, Answered(r)
    PROVE  \/ FindSession(r) /\ Verdict(session, user, call[r]) = "answered"
           \/ Rotate(r)
           \/ /\ RereadSession(r)
              /\ ~ session.revoked /\ IsSuccessor(session, call[r].token)
<1> USE DEF IInv, TypeOK, Answered
<1>1. ASSUME NEW q \in Request, Handle(q) \/ Drop(q)
      PROVE  q = r
  BY <1>1, HandleEffect, ProceedEffect
<1>2. ASSUME NEW q \in Request, NEW t \in issued, NEW a \in BOOLEAN,
             Logout(q, t) \/ Refresh(q, t, a)
      PROVE  FALSE
  BY <1>2 DEF Logout, Refresh, Receive
<1>3. Handle(r) \/ Drop(r)
  BY <1>1, <1>2 DEF Next, ReadAccount, CreateRefreshSession, Administer, ResetPassword,
                    Deactivate, Reactivate, Tick
<1>4. CASE FindSession(r)
  BY <1>4, ProceedEffect DEF FindSession
<1>5. CASE RereadSession(r)
  BY <1>5, ProceedEffect DEF RereadSession
<1>6. CASE LoseRotation(r) \/ RevokeSession(r) \/ LookUpSession(r) \/ SignOut(r) \/ Drop(r)
  <2>1. \E step \in {"rereading", "rejected", "signingOut", "signedOut", "dropped"} :
            Proceed(r, step)
    BY <1>6 DEF LoseRotation, RevokeSession, LookUpSession, SignOut, Drop
  <2> QED
    BY <2>1, ProceedEffect
<1> QED
  BY <1>3, <1>4, <1>5, <1>6 DEF Handle

\* Requests that race with one token are all given the token the row then holds.
THEOREM RacersAgree == Spec => AnswersAreCurrent
<1>1. IInv /\ [Next]_vars =>
        [\A r \in Request : Answered(r) => session'.hash = call[r].token + 1]_vars
  <2> SUFFICES ASSUME IInv, Next, NEW r \in Request, Answered(r)
               PROVE  session'.hash = call[r].token + 1
    OBVIOUS
  <2>1. CASE FindSession(r) /\ Verdict(session, user, call[r]) = "answered"
    BY <2>1 DEF FindSession, Verdict, IsSuccessor
  <2>2. CASE Rotate(r)
    BY <2>2 DEF Rotate, IInv, TypeOK, Session
  <2>3. CASE RereadSession(r) /\ IsSuccessor(session, call[r].token)
    BY <2>3 DEF RereadSession, IsSuccessor
  <2> QED
    BY <2>1, <2>2, <2>3, AnswerSources
<1> QED
  BY <1>1, IInvHolds, PTL DEF Spec, AnswersAreCurrent

\* A token is handed out only by a live session of an active user whose password
\* is still the one of the login, however old the lookup is.
THEOREM OnlyTheLiveAnswer == Spec => AnswersNeedALiveSession
<1> DEFINE Live(r) == /\ session.exists /\ ~ session.revoked
                      /\ Accepted(session, user)
                      /\ call[r].now < session.deadline
<1>1. IInv /\ [Next]_vars => [\A r \in Request : Answered(r) => Live(r)]_vars
  <2> SUFFICES ASSUME IInv, Next, NEW r \in Request, Answered(r)
               PROVE  Live(r)
    OBVIOUS
  <2>1. pc[r] \in Waiting
    BY AnswerSources DEF FindSession, Rotate, RereadSession, Waiting
  <2>2. session.exists
    BY <2>1 DEF IInv, LoginFirst, Waiting, Finished
  <2>3. CASE FindSession(r) /\ Verdict(session, user, call[r]) = "answered"
    BY <2>2, <2>3 DEF Verdict, Expired, IInv, TypeOK, Session, Time
  <2>4. CASE Rotate(r) \/ (RereadSession(r) /\ ~ session.revoked)
    BY <2>2, <2>4 DEF Rotate, Rotatable, RereadSession, IInv, LookupsStand
  <2> QED
    BY <2>3, <2>4, AnswerSources
<1> QED
  BY <1>1, IInvHolds, PTL DEF Spec, AnswersNeedALiveSession

\* No slow request sets the instants of idling and grace back.
THEOREM InstantsNeverRunBack == Spec => ActivityNeverRunsBack
<1> DEFINE Forward == /\ session'.lastUsed >= session.lastUsed
                      /\ session'.updatedAt >= session.updatedAt
<1>1. IInv /\ [Next]_vars => [session.exists => Forward]_vars
  <2> SUFFICES ASSUME IInv, Next, session.exists
               PROVE  Forward
    OBVIOUS
  <2> USE DEF IInv, TypeOK, Session, Time
  <2>1. ASSUME session'.lastUsed = session.lastUsed, session'.updatedAt = session.updatedAt
        PROVE  Forward
    BY <2>1
  <2>2. ASSUME NEW r \in Request, Rotate(r)
        PROVE  Forward
    BY <2>2 DEF Rotate, Rotatable, InstantsStand
  <2>3. ASSUME NEW r \in Request, Handle(r) \/ Drop(r), ~ Rotate(r)
        PROVE  Forward
    BY <2>1, <2>3, RowEffect
  <2>4. ~ CreateRefreshSession
    BY DEF CreateRefreshSession, LoginFirst, NoSession
  <2>5. CASE Administer \/ ReadAccount \/ Tick
    BY <2>1, <2>5 DEF Administer, ResetPassword, Deactivate, Reactivate, RevokeAll,
                      ReadAccount, Tick
  <2>6. ASSUME NEW r \in Request, NEW t \in issued, NEW a \in BOOLEAN,
               Logout(r, t) \/ Refresh(r, t, a)
        PROVE  Forward
    BY <2>1, <2>6 DEF Logout, Refresh, Receive
  <2> QED
    BY <2>2, <2>3, <2>4, <2>5, <2>6 DEF Next, Handle
<1> QED
  BY <1>1, IInvHolds, PTL DEF Spec, ActivityNeverRunsBack
=============================================================================
