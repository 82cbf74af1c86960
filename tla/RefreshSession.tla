---------------------------- MODULE RefreshSession ----------------------------
(***************************************************************************)
(* One refresh session of one user: login, rotation of the refresh token   *)
(* with a grace period for its direct predecessor, reuse detection, logout *)
(* and the revocations of user administration.                             *)
(*                                                                         *)
(* No handler of the auth module runs in a transaction: each database call *)
(* is a step, and the instant a handler reasons with (now) is taken before *)
(* its first one.  The successor of a token is a function of the token, so *)
(* a session's tokens are the generations 0, 1, 2, ... of one chain.       *)
(***************************************************************************)
EXTENDS Integers

CONSTANTS
    Request,            \* HTTP requests in flight
    Idle, Absolute,     \* JWT_REFRESH_IDLE_TIMEOUT, JWT_REFRESH_ABSOLUTE_TIMEOUT
    Grace,              \* REFRESH_ROTATION_GRACE_SECONDS
    MaxTime, MaxToken, MaxVersion   \* bounds of the clock, chain and resets

VARIABLES
    clock,
    user,               \* status and authVersion
    session,            \* the RefreshSession row
    login,              \* the login that creates it, and the version it read
    issued,             \* generations some client has received
    pc, call            \* per request: where it is, and what it was sent

vars == <<clock, user, session, login, issued, pc, call>>

Time       == 0 .. MaxTime
Generation == 0 .. MaxToken
Version    == 0 .. MaxVersion

ASSUME BoundsAssumption ==
    /\ {Idle, Absolute, Grace} \subseteq Nat
    /\ {MaxTime, MaxToken, MaxVersion} \subseteq Nat

User == [active: BOOLEAN, version: Version]

\* version is the authVersion every token of the session carries; updatedAt is
\* the instant of the last rotation; deadline is absoluteExpiresAt.
Session == [exists: BOOLEAN, revoked: BOOLEAN, version: Version, hash: Generation,
            lastUsed: Time, updatedAt: Time, deadline: Nat]

NoSession == [exists |-> FALSE, revoked |-> FALSE, version |-> 0, hash |-> 0,
              lastUsed |-> 0, updatedAt |-> 0, deadline |-> 0]

Waiting  == {"finding", "rotating", "rereading", "revoking",
             "lookingUp", "signingOut"}
Finished == {"idle", "answered", "rejected", "signedOut", "dropped"}

NoCall == [token |-> 0, activity |-> FALSE, now |-> 0]

TypeOK ==
    /\ clock \in Time /\ user \in User /\ session \in Session
    /\ login \in [step: {"none", "verifying", "done"}, version: Version]
    /\ issued \subseteq Generation
    /\ pc \in [Request -> Waiting \cup Finished]
    /\ call \in [Request -> [token: Generation, activity: BOOLEAN, now: Time]]

-----------------------------------------------------------------------------
(* login *)

ReadAccount ==
    /\ login.step = "none" /\ user.active
    /\ login' = [step |-> "verifying", version |-> user.version]
    /\ UNCHANGED <<clock, user, session, issued, pc, call>>

CreateRefreshSession ==
    /\ login.step = "verifying"
    /\ login' = [login EXCEPT !.step = "done"]
    /\ session' = [exists |-> TRUE, revoked |-> FALSE, version |-> login.version,
                   hash |-> 0, lastUsed |-> clock, updatedAt |-> clock,
                   deadline |-> clock + Absolute]
    /\ issued' = {0}
    /\ UNCHANGED <<clock, user, pc, call>>

-----------------------------------------------------------------------------
(* refreshSession *)

Receive(r, t, activity, step) ==
    /\ pc[r] \in Finished
    /\ t \in issued
    /\ call' = [call EXCEPT ![r] = [token |-> t, activity |-> activity, now |-> clock]]
    /\ pc' = [pc EXCEPT ![r] = step]
    /\ UNCHANGED <<clock, user, session, login, issued>>

Refresh(r, t, activity) == t < MaxToken /\ Receive(r, t, activity, "finding")

\* a step of a request, which forgets its call when it is finished
Proceed(r, step) ==
    /\ pc' = [pc EXCEPT ![r] = step]
    /\ call' = IF step \in Finished THEN [call EXCEPT ![r] = NoCall] ELSE call

Expired(s, now) ==
    \/ s.revoked
    \/ s.lastUsed + Idle < now
    \/ s.deadline <= now

Accepted(s, u) == u.active /\ u.version = s.version

IsCurrent(s, t)     == s.hash = t
IsSuccessor(s, t)   == s.hash = t + 1
InGrace(s, now)     == s.updatedAt <= now /\ now - s.updatedAt <= Grace

Verdict_for_any_stale_token(s, u, c) ==
    IF Expired(s, c.now) \/ ~ Accepted(s, u) THEN "revoking"
    ELSE IF IsCurrent(s, c.token) THEN "rotating"
    ELSE IF InGrace(s, c.now) THEN "answered"
    ELSE "revoking"

\* The three outcomes of a lookup: the session is found sound and the token
\* current, the token has just been rotated, or the session is to be revoked.
Verdict(s, u, c) ==
    IF Expired(s, c.now) \/ ~ Accepted(s, u) THEN "revoking"
    ELSE IF IsCurrent(s, c.token) THEN "rotating"
    ELSE IF IsSuccessor(s, c.token) /\ InGrace(s, c.now) THEN "answered"
    ELSE "revoking"

\* an answer may be lost on its way to the client
Answer(r) == issued' \in {issued, issued \cup {call[r].token + 1}}

FindSession(r) ==
    LET verdict == Verdict(session, user, call[r])
    IN  /\ pc[r] = "finding"
        /\ Proceed(r, verdict)
        /\ IF verdict = "answered" THEN Answer(r) ELSE UNCHANGED issued
        /\ UNCHANGED <<clock, user, session, login>>

Rotatable_when_revoked(r) == IsCurrent(session, call[r].token)

\* rotateRefreshSessionToken compares and swaps in one UPDATE
Rotatable(r) == ~ session.revoked /\ IsCurrent(session, call[r].token)

Rotate(r) ==
    /\ pc[r] = "rotating" /\ Rotatable(r)
    /\ session' = [session EXCEPT !.hash = call[r].token + 1, !.updatedAt = call[r].now,
                                  !.lastUsed = IF call[r].activity THEN call[r].now ELSE @]
    /\ Proceed(r, "answered")
    /\ Answer(r)
    /\ UNCHANGED <<clock, user, login>>

LoseRotation(r) ==
    /\ pc[r] = "rotating" /\ ~ Rotatable(r)
    /\ Proceed(r, "rereading")
    /\ UNCHANGED <<clock, user, session, login, issued>>

RereadSession_when_revoked(r) ==
    LET shared == IsSuccessor(session, call[r].token)
    IN  /\ pc[r] = "rereading"
        /\ Proceed(r, IF shared THEN "answered" ELSE "rejected")
        /\ IF shared THEN Answer(r) ELSE UNCHANGED issued
        /\ UNCHANGED <<clock, user, session, login>>

\* the winner of the race stored the very same successor
RereadSession(r) ==
    LET shared == ~ session.revoked /\ IsSuccessor(session, call[r].token)
    IN  /\ pc[r] = "rereading"
        /\ Proceed(r, IF shared THEN "answered" ELSE "rejected")
        /\ IF shared THEN Answer(r) ELSE UNCHANGED issued
        /\ UNCHANGED <<clock, user, session, login>>

Revoke == session' = [session EXCEPT !.revoked = TRUE]

RevokeSession(r) ==
    /\ pc[r] = "revoking"
    /\ Revoke
    /\ Proceed(r, "rejected")
    /\ UNCHANGED <<clock, user, login, issued>>

-----------------------------------------------------------------------------
(* revokeRefreshSession: logout *)

Logout(r, t) == Receive(r, t, FALSE, "lookingUp")

Recognised(s, c) ==
    IsCurrent(s, c.token) \/ (IsSuccessor(s, c.token) /\ InGrace(s, c.now))

LookUpSession(r) ==
    LET recognised == ~ session.revoked /\ Recognised(session, call[r])
    IN  /\ pc[r] = "lookingUp"
        /\ Proceed(r, IF recognised THEN "signingOut" ELSE "signedOut")
        /\ UNCHANGED <<clock, user, session, login, issued>>

SignOut(r) ==
    /\ pc[r] = "signingOut"
    /\ Revoke
    /\ Proceed(r, "signedOut")
    /\ UNCHANGED <<clock, user, login, issued>>

\* a crash of the server or a failing database call
Drop(r) ==
    /\ pc[r] \in Waiting
    /\ Proceed(r, "dropped")
    /\ UNCHANGED <<clock, user, session, login, issued>>

-----------------------------------------------------------------------------
(* User administration, and time *)

\* updateMany: a session that does not exist yet is not revoked
RevokeAll == session' = [session EXCEPT !.revoked = @ \/ session.exists]

ResetPassword ==
    /\ user.version < MaxVersion
    /\ user' = [user EXCEPT !.version = @ + 1]
    /\ RevokeAll
    /\ UNCHANGED <<clock, login, issued, pc, call>>

Deactivate ==
    /\ user.active
    /\ user' = [user EXCEPT !.active = FALSE]
    /\ RevokeAll
    /\ UNCHANGED <<clock, login, issued, pc, call>>

Reactivate ==
    /\ ~ user.active
    /\ user' = [user EXCEPT !.active = TRUE]
    /\ UNCHANGED <<clock, session, login, issued, pc, call>>

Tick ==
    /\ clock < MaxTime
    /\ clock' = clock + 1
    /\ UNCHANGED <<user, session, login, issued, pc, call>>

-----------------------------------------------------------------------------
(* Specification *)

Init ==
    /\ clock = 0
    /\ user = [active |-> TRUE, version |-> 0]
    /\ session = NoSession
    /\ login = [step |-> "none", version |-> 0]
    /\ issued = {}
    /\ pc = [r \in Request |-> "idle"]
    /\ call = [r \in Request |-> NoCall]

Handle(r) ==
    \/ FindSession(r) \/ Rotate(r) \/ LoseRotation(r) \/ RereadSession(r)
    \/ RevokeSession(r) \/ LookUpSession(r) \/ SignOut(r)

Administer == ResetPassword \/ Deactivate \/ Reactivate

Next ==
    \/ ReadAccount \/ CreateRefreshSession
    \/ \E r \in Request :
          \/ \E t \in issued : Logout(r, t) \/ \E a \in BOOLEAN : Refresh(r, t, a)
          \/ Handle(r)
          \/ Drop(r)
    \/ Administer \/ Tick

Spec == Init /\ [][Next]_vars

-----------------------------------------------------------------------------
(* Properties *)

Answered(r) == pc[r] # "answered" /\ pc'[r] = "answered"

\* A revoked session is dead: no request that was under way rotates it, keeps
\* it from idling out or brings it back.
RevokedIsFinal == [][session.revoked => session' = session]_vars

\* New tokens are handed out only while the session is live, its owner active
\* and his password the one of the login; also by a request that looked the
\* session up before one of these changed.
AnswersNeedALiveSession ==
    [][\A r \in Request : Answered(r) =>
          /\ session.exists /\ ~ session.revoked
          /\ Accepted(session, user)
          /\ call[r].now < session.deadline]_vars

\* Every request that is answered is given the token that is then the current
\* one: tabs that race with the same token all end up with the same successor.
AnswersAreCurrent ==
    [][\A r \in Request : Answered(r) => session'.hash = call[r].token + 1]_vars

\* No client ever holds a token the session has not reached.
TokensFormAChain == \A t \in issued : t <= session.hash

\* The idle timeout never starts from an earlier instant than before, although
\* a slow request writes an old one; nor does the grace period.
ActivityNeverRunsBack ==
    [][session.exists => /\ session'.lastUsed >= session.lastUsed
                         /\ session'.updatedAt >= session.updatedAt]_vars

\* A refresh revokes a sound session only for reuse: for a token older than the
\* direct predecessor of the current one, or that one after the grace period.
OnlyReuseRevokes ==
    [][\A r \in Request :
          /\ pc[r] = "finding" /\ pc'[r] = "revoking"
          /\ ~ Expired(session, call[r].now) /\ Accepted(session, user)
          => \/ call[r].token + 1 < session.hash
             \/ call[r].now > session.updatedAt + Grace]_vars

\* A logout with the current token, or with the one a refresh has just rotated,
\* leaves no live session, also when the two race.
LogoutEndsTheSession ==
    [][\A r \in Request :
          /\ pc[r] \in {"lookingUp", "signingOut"} /\ pc'[r] = "signedOut"
          /\ session.hash <= call[r].token + 1
          /\ clock <= session.updatedAt + Grace
          => session'.revoked]_vars
=============================================================================
