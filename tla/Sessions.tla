------------------------------ MODULE Sessions ------------------------------
(***************************************************************************)
(* The sessions of one account: refresh tokens and the requests that       *)
(* create, rotate and revoke them (httpapi/auth_handlers.go,               *)
(* httpapi/user_handlers.go, store/refresh_tokens.go, the part of          *)
(* store/password_resets.go that touches users and refresh_tokens).        *)
(*                                                                         *)
(* Every step is one statement or one transaction.  A handler that runs    *)
(* several is a request r that stands between two of them; the other       *)
(* requests run in the gaps.  The password is its version number, and      *)
(* basis is the version a session was opened with: the one the login       *)
(* verified, or the one its request chose.                                 *)
(*                                                                         *)
(* Requests that are denied before they write change nothing and are       *)
(* left out: the budget they are charged to is RateLimit.                  *)
(***************************************************************************)
EXTENDS Naturals, FiniteSets

CONSTANTS
    SReqs,      \* requests in progress
    Toks,       \* refresh tokens (jti); a family is named by its first token
    NoTok,      \* no row, no family yet
    MaxPw,      \* bound on password changes
    MaxSFaults  \* bound on failed statements

ASSUME SessAssumption ==
    /\ Toks \subseteq Nat /\ NoTok \notin Toks
    /\ MaxPw \in Nat /\ MaxSFaults \in Nat

VARIABLES
    user,       \* the users row: present, pw
    tok,        \* refresh_tokens
    rq,         \* the requests: where they stand and what they have read
    straddled,  \* families a request inserted into after it was overtaken by a revocation
    halfDone,   \* some password was stored and the revocation after it failed
    sfaults

svars == <<user, tok, rq, straddled, halfDone, sfaults>>

Request ==
    [pc: {"idle", "set", "revokeOwn", "revoke", "reread", "create"},
     basis: 0..MaxPw, fam: Toks \cup {NoTok}, overtaken: BOOLEAN]
Token ==
    [fam: Toks, basis: 0..MaxPw, rot: {"no", "fresh", "old"}, rev: BOOLEAN,
     life: {"valid", "expired", "dead"}]

SessTypeOK ==
    /\ user \in [present: BOOLEAN, pw: 0..MaxPw]
    /\ tok \in [Toks -> Token \cup {NoTok}]
    /\ rq \in [SReqs -> Request]
    /\ straddled \subseteq Toks
    /\ halfDone \in BOOLEAN
    /\ sfaults \in 0..MaxSFaults

-----------------------------------------------------------------------------
Idle == [pc |-> "idle", basis |-> 0, fam |-> NoTok, overtaken |-> FALSE]

SessInit ==
    /\ user = [present |-> TRUE, pw |-> 0]
    /\ tok = [t \in Toks |-> NoTok]
    /\ rq = [r \in SReqs |-> Idle]
    /\ straddled = {} /\ halfDone = FALSE /\ sfaults = 0

Rows == {t \in Toks : tok[t] # NoTok}

\* A token that can still be exchanged for another one.
Usable(t) == t \in Rows /\ ~tok[t].rev /\ tok[t].life = "valid" /\ tok[t].rot # "old"

\* The requests that hold a verified or a chosen password, or a consumed
\* token of the revoked families, and have not inserted their own token.
Overtake(q, fams) ==
    [r \in SReqs |->
        [q[r] EXCEPT !.overtaken = @ \/ (q[r].pc \in {"revokeOwn", "reread", "create"} /\ q[r].fam \in fams)]]

\* UPDATE refresh_tokens SET revoked_at = now() ... AND revoked_at IS NULL
Revoked(fams) ==
    [t \in Toks |-> IF t \in Rows /\ tok[t].fam \in fams THEN [tok[t] EXCEPT !.rev = TRUE] ELSE tok[t]]

\* RevokeAllForUser
RevokeAllForUser == Revoked(Toks)

\* handleLogin up to the password check: unknown address and wrong password
\* are denied; the new session starts a family of its own.
LoginVerify(r) ==
    /\ rq[r].pc = "idle" /\ user.present
    /\ rq' = [rq EXCEPT ![r] = [Idle EXCEPT !.pc = "create", !.basis = user.pw]]
    /\ UNCHANGED <<user, tok, straddled, halfDone, sfaults>>

\* handleRefresh: Consume, in one transaction that locks the row.
ConsumeRotate(r, t) ==
    /\ rq[r].pc = "idle" /\ Usable(t)
    /\ tok' = [tok EXCEPT ![t].rot = "fresh"]
    /\ rq' = [rq EXCEPT ![r] = [Idle EXCEPT !.pc = "reread", !.basis = tok[t].basis, !.fam = tok[t].fam]]
    /\ UNCHANGED <<user, straddled, halfDone, sfaults>>

\* (mutant) only the token that was presented is revoked
RevokePresented(r, t) ==
    /\ rq[r].pc = "idle"
    /\ t \in Rows /\ ~tok[t].rev /\ tok[t].life = "valid" /\ tok[t].rot = "old"
    /\ tok' = [tok EXCEPT ![t].rev = TRUE]
    /\ UNCHANGED <<user, rq, straddled, halfDone, sfaults>>

\* Consume of a token rotated longer ago than the grace: the family goes.
ConsumeReuse(r, t) ==
    /\ rq[r].pc = "idle"
    /\ t \in Rows /\ ~tok[t].rev /\ tok[t].life = "valid" /\ tok[t].rot = "old"
    /\ tok' = Revoked({tok[t].fam})
    /\ rq' = Overtake(rq, {tok[t].fam})
    /\ UNCHANGED <<user, straddled, halfDone, sfaults>>

\* handleRefresh: the user is read again, and must still exist.
Reread(r) ==
    /\ rq[r].pc = "reread"
    /\ rq' = [rq EXCEPT ![r] = IF user.present THEN [@ EXCEPT !.pc = "create"] ELSE Idle]
    /\ UNCHANGED <<user, tok, straddled, halfDone, sfaults>>

\* New UUIDs: names that no row, no family and no request uses.  The least
\* is taken, since the names differ in nothing else.
Fresh ==
    {t \in Toks \ (Rows \cup straddled) :
        (\A u \in Rows : tok[u].fam # t) /\ (\A q \in SReqs : rq[q].fam # t)}

\* issueTokenPair: refreshTokens.Create; the foreign key refuses the token
\* of an account that is gone.
CreateToken(r) ==
    /\ rq[r].pc = "create"
    /\ IF user.present
       THEN \E t \in Fresh :
              LET f == IF rq[r].fam = NoTok THEN t ELSE rq[r].fam IN
              /\ \A u \in Fresh : t <= u
              /\ tok' = [tok EXCEPT ![t] =
                    [fam |-> f, basis |-> rq[r].basis, rot |-> "no", rev |-> FALSE, life |-> "valid"]]
              /\ straddled' = IF rq[r].overtaken THEN straddled \cup {f} ELSE straddled
       ELSE UNCHANGED <<tok, straddled>>
    /\ rq' = [rq EXCEPT ![r] = Idle]
    /\ UNCHANGED <<user, halfDone, sfaults>>

\* handleLogout: RevokeFamilyOf; unknown tokens are no error.
Logout(r, t) ==
    /\ rq[r].pc = "idle" /\ t \in Rows /\ tok[t].life = "valid"
    /\ tok' = Revoked({tok[t].fam})
    /\ rq' = Overtake(rq, {tok[t].fam})
    /\ UNCHANGED <<user, straddled, halfDone, sfaults>>

\* handleChangeOwnPassword up to the check of the current password
ChangeVerify(r) ==
    /\ rq[r].pc = "idle" /\ user.present /\ user.pw < MaxPw
    /\ rq' = [rq EXCEPT ![r] = [Idle EXCEPT !.pc = "set"]]
    /\ UNCHANGED <<user, tok, straddled, halfDone, sfaults>>

\* SetOwnPassword: whatever the hash has become since it was verified.
SetOwnPassword(r) ==
    /\ rq[r].pc = "set"
    /\ IF user.present /\ user.pw < MaxPw
       THEN /\ user' = [user EXCEPT !.pw = @ + 1]
            /\ rq' = [rq EXCEPT ![r] = [Idle EXCEPT !.pc = "revokeOwn", !.basis = user.pw + 1]]
       ELSE /\ rq' = [rq EXCEPT ![r] = Idle]
            /\ UNCHANGED user
    /\ UNCHANGED <<tok, straddled, halfDone, sfaults>>

\* handleUpdateUser by an administrator: UpdatePassword.
AdminSetPassword(r) ==
    /\ rq[r].pc = "idle" /\ user.present /\ user.pw < MaxPw
    /\ user' = [user EXCEPT !.pw = @ + 1]
    /\ rq' = [rq EXCEPT ![r] = [Idle EXCEPT !.pc = "revoke", !.basis = user.pw + 1]]
    /\ UNCHANGED <<tok, straddled, halfDone, sfaults>>

\* RevokeAllForUser after either; the user's own request goes on to a new
\* pair of tokens.
RevokeSessions(r) ==
    /\ rq[r].pc \in {"revokeOwn", "revoke"}
    /\ tok' = RevokeAllForUser
    /\ rq' = [Overtake(rq, Toks \cup {NoTok}) EXCEPT ![r] =
                IF rq[r].pc = "revokeOwn" THEN [rq[r] EXCEPT !.pc = "create"] ELSE Idle]
    /\ UNCHANGED <<user, straddled, halfDone, sfaults>>

\* handleResetPassword: Complete stores the password and revokes in one
\* transaction (the link it spends is in PasswordReset).
ResetPassword(r) ==
    /\ rq[r].pc = "idle" /\ user.present /\ user.pw < MaxPw
    /\ user' = [user EXCEPT !.pw = @ + 1]
    /\ tok' = RevokeAllForUser
    /\ rq' = Overtake(rq, Toks \cup {NoTok})
    /\ UNCHANGED <<straddled, halfDone, sfaults>>

\* handleDeleteUser: the tokens go with the row (ON DELETE CASCADE).
DeleteUser ==
    /\ user.present
    /\ user' = [user EXCEPT !.present = FALSE]
    /\ tok' = [t \in Toks |-> NoTok]
    /\ UNCHANGED <<rq, straddled, halfDone, sfaults>>

\* PurgeExpired
PurgeTokens ==
    /\ \E t \in Rows : tok[t].life = "dead"
    /\ tok' = [t \in Toks |-> IF t \in Rows /\ tok[t].life = "dead" THEN NoTok ELSE tok[t]]
    /\ UNCHANGED <<user, rq, straddled, halfDone, sfaults>>

\* A statement fails: the handler answers with an error and stops.
RequestFails(r) ==
    /\ rq[r].pc # "idle" /\ sfaults < MaxSFaults
    /\ sfaults' = sfaults + 1
    /\ halfDone' = (halfDone \/ rq[r].pc \in {"revokeOwn", "revoke"})
    /\ rq' = [rq EXCEPT ![r] = Idle]
    /\ UNCHANGED <<user, tok, straddled>>

\* refreshTokenGrace is over for t.
GraceOver(t) ==
    /\ t \in Rows /\ tok[t].rot = "fresh"
    /\ tok' = [tok EXCEPT ![t].rot = "old"]
    /\ UNCHANGED <<user, rq, straddled, halfDone, sfaults>>

\* The refresh TTL, then the day of grace, is over for t.
Age(t) ==
    /\ t \in Rows /\ tok[t].life # "dead"
    /\ tok' = [tok EXCEPT ![t].life = IF @ = "valid" THEN "expired" ELSE "dead"]
    /\ UNCHANGED <<user, rq, straddled, halfDone, sfaults>>

SessNext ==
    \/ \E r \in SReqs :
         \/ LoginVerify(r) \/ Reread(r) \/ CreateToken(r)
         \/ ChangeVerify(r) \/ SetOwnPassword(r) \/ AdminSetPassword(r)
         \/ RevokeSessions(r) \/ ResetPassword(r) \/ RequestFails(r)
    \/ \E r \in SReqs, t \in Toks : ConsumeRotate(r, t) \/ ConsumeReuse(r, t) \/ Logout(r, t)
    \/ \E t \in Toks : GraceOver(t) \/ Age(t)
    \/ DeleteUser \/ PurgeTokens

SessSpec == SessInit /\ [][SessNext]_svars

-----------------------------------------------------------------------------
(* Properties                                                              *)

\* A password change ends every session that was opened with an older
\* password: one that can still be used belongs to a request the revocation
\* overtook, or the revocation is still to come, or it failed and the caller
\* was told so.  Rotation, grace and replay keep no other session alive.
StaleSessionsEnd ==
    \A t \in Toks :
        Usable(t) /\ tok[t].basis # user.pw =>
            \/ tok[t].fam \in straddled
            \/ halfDone
            \/ \E r \in SReqs : rq[r].pc \in {"revokeOwn", "revoke"}

\* A logout or a detected replay ends the whole family: as long as one of
\* its rows is there and revoked, no other one can be exchanged, unless a
\* rotation that had consumed its token before inserted the new one after.
RevokedFamilyDead ==
    \A t, u \in Rows :
        tok[t].fam = tok[u].fam /\ tok[u].rev /\ Usable(t) => tok[t].fam \in straddled

\* The doc of handleChangeOwnPassword, without the exception for overtaken
\* requests.
PasswordChangeEndsSessions ==
    halfDone \/ (\E r \in SReqs : rq[r].pc \in {"revokeOwn", "revoke"})
    \/ \A t \in Toks : Usable(t) => tok[t].basis = user.pw

\* What ends sessions ends them - a new password all older ones, a logout or
\* a replay the family - however rotations, grace and logins run in between
\* (refresh_tokens.go, auth_handlers.go).
SessionsEnd == SessTypeOK /\ StaleSessionsEnd /\ RevokedFamilyDead
=============================================================================
