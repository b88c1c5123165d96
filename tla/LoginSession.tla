---------------------------- MODULE LoginSession ----------------------------
(***************************************************************************)
(* Signing in to one local account, and everything that ends or weakens a  *)
(* sign-in: the password and its lockout, the second factor with its       *)
(* recovery codes, passkeys, password links, the account page and the      *)
(* administrator.                                                          *)
(*                                                                         *)
(* Every store call is a step.  What a handler has read of the user's row  *)
(* may be out of date when it acts.  Passwords, secrets and recovery codes *)
(* are told apart by numbers.  A check of what the browser sent against    *)
(* what was read can come out either way.  The in-memory rate limiters and *)
(* verification slots can only refuse a request: see Abandon.              *)
(***************************************************************************)
EXTENDS Naturals, FiniteSets

CONSTANTS
    Handlers, Sessions, Challenges, Links, Ceremonies,
    MaxFailedLogins,    \* policy: wrong passwords until the account locks
    SignedIn,           \* sessions that exist at first
    InPlay,             \* bound: the kinds of change considered
    MaxEdits,           \* bound: how many of them
    None

ASSUME PolicyAssumption == MaxFailedLogins \in Nat \ {0}
ASSUME EditsAssumption == MaxEdits \in Nat
ASSUME HandlersAssumption == IsFiniteSet(Handlers)
ASSUME SignedInAssumption == SignedIn \subseteq Sessions
ASSUME NoneAssumption ==
    None \notin Sessions \cup Challenges \cup Links \cup Ceremonies

VARIABLES
    password,           \* which password the stored hash is of
    disabled, mfa,
    secret,             \* totp_secret, or None
    recovery,           \* unused recovery codes
    passkey,            \* a passkey is registered
    failures,           \* failed_login_count, as far as it matters
    locked,             \* locked_until lies ahead
    session, challenge, link, ceremony, \* rows by identity
    edits,              \* changes begun so far
    pc, req,            \* handlers in flight
    purged,             \* history: the newest password whose change is complete
    confirmed,          \* history: TOTP secrets the user has proved to hold
    used, twice,        \* history: one-time things that took effect, and again
    guesses,            \* history: wrong passwords since the lock was last lifted
    fit, keyed          \* history: what was true at an instant of the sign-in

account == <<password, disabled, mfa, secret, recovery, passkey>>
throttle == <<failures, locked, guesses>>
rows == <<session, challenge, link, ceremony>>
ledger == <<purged, confirmed, used, twice>>
vars == <<password, disabled, mfa, secret, recovery, passkey, failures, locked,
          session, challenge, link, ceremony, edits, pc, req, purged,
          confirmed, used, twice, guesses, fit, keyed>>

Versions == 0..MaxEdits
Newer(p, q) == IF p > q THEN p ELSE q

\* A session or challenge.  pw (history): the password that was current when
\* its user was read or, for a session created later than a change completed,
\* that change's.
Row(state, p) == [is |-> state, pw |-> p]
Unborn == Row("new", 0)
Gone == Row("gone", 0)
Rows == [is : {"new", "live", "gone"}, pw : Versions]

\* pwd: a password.  otp: a second factor.  key, keyUV: a passkey without and
\* with user verification.
Factors == {"pwd", "otp", "key", "keyUV"}
SignIn == {"lookup", "reset", "record", "challenge", "mfaUser", "recovery", "dropChallenge",
           "keyUser", "keyRead", "keyUsed", "rotate", "create"}
Changes == {"owner", "consume", "setPassword", "dropLinks", "endSessions", "setup",
            "enable", "replaceCodes", "disableMFA", "dropCodes", "register", "store", "unregister"}
PCs == {"idle"} \cup SignIn \cup Changes

\* factor, pw, mfa: of a sign-in, the last two as read; on: the row a request
\* names; by: the session that asked for a change; n: the number of the
\* new secret or recovery codes; secret: as read; then: where to go next.
NoParams == [factor |-> "pwd", pw |-> 0, mfa |-> FALSE, on |-> None, by |-> None,
             n |-> 0, secret |-> None, then |-> "idle"]

Init ==
    /\ password = 0
    /\ disabled = FALSE
    /\ mfa \in (IF Challenges = {} THEN {FALSE} ELSE BOOLEAN)
    /\ secret \in {0, None} /\ (mfa => secret = 0)
    /\ "mfa" \notin InPlay /\ ~mfa => secret = None
    /\ recovery = IF mfa THEN {0} ELSE {}
    /\ passkey \in (IF Ceremonies = {} THEN {FALSE} ELSE BOOLEAN)
    /\ failures = 0
    /\ locked = FALSE
    /\ session = [s \in Sessions |-> IF s \in SignedIn THEN Row("live", 0) ELSE Unborn]
    /\ challenge = [c \in Challenges |-> Unborn]
    /\ link = [k \in Links |-> "new"]
    /\ ceremony = [c \in Ceremonies |-> "new"]
    /\ edits = 0
    /\ pc = [h \in Handlers |-> "idle"]
    /\ req = [h \in Handlers |-> NoParams]
    /\ purged = 0
    /\ confirmed = IF mfa THEN {0} ELSE {}
    /\ used = {} /\ twice = {}
    /\ guesses = 0
    /\ fit = [h \in Handlers |-> FALSE]
    /\ keyed = [h \in Handlers |-> FALSE]

Goto(h, l) == pc' = [pc EXCEPT ![h] = l] /\ UNCHANGED req
Become(h, l, q) == pc' = [pc EXCEPT ![h] = l] /\ req' = [req EXCEPT ![h] = q]
Return(h) == Become(h, "idle", NoParams)
Start(h, l, q) == pc[h] = "idle" /\ Become(h, l, q)

\* A thing that works once takes effect.
Spend(x) == used' = used \cup {x} /\ twice' = IF x \in used THEN twice \cup {x} ELSE twice

-----------------------------------------------------------------------------
(* Password.                                                               *)

\* handleLoginSubmit up to the look-up.
LoginSubmit(h) ==
    /\ Start(h, "lookup", NoParams)
    /\ UNCHANGED <<account, throttle, rows, edits, ledger>>

\* GetUserByUsername and VerifyPassword.
LookUp(h, right) ==
    /\ pc[h] = "lookup"
    /\ IF locked \/ disabled THEN Return(h)
       ELSE Become(h, IF right THEN "reset" ELSE "record",
                   [req[h] EXCEPT !.pw = password, !.mfa = mfa])
    /\ UNCHANGED <<account, throttle, rows, edits, ledger>>

\* Mutant: the account locks one wrong password late.
RecordFailedLoginLate(h) ==
    /\ pc[h] = "record"
    /\ \/ /\ failures' = IF failures < MaxFailedLogins THEN failures + 1 ELSE failures
          /\ locked' = (locked \/ failures >= MaxFailedLogins)
          /\ guesses' = guesses + 1
       \/ UNCHANGED <<failures, locked, guesses>>
    /\ Return(h)
    /\ UNCHANGED <<account, rows, edits, ledger>>

\* RecordFailedLogin, one UPDATE that counts and locks; its error is ignored.
RecordFailedLogin(h) ==
    /\ pc[h] = "record"
    /\ \/ /\ failures' = IF failures < MaxFailedLogins THEN failures + 1 ELSE failures
          /\ locked' = (locked \/ failures + 1 >= MaxFailedLogins)
          /\ guesses' = guesses + 1
       \/ UNCHANGED <<failures, locked, guesses>>
    /\ Return(h)
    /\ UNCHANGED <<account, rows, edits, ledger>>

Unlock == failures' = 0 /\ locked' = FALSE /\ guesses' = 0
Proceed(h, second) == Goto(h, IF second THEN "challenge" ELSE "rotate")

\* ResetFailedLogins, whose error is ignored, and the limiters.
ResetFailedLogins(h) ==
    /\ pc[h] = "reset"
    /\ Unlock \/ UNCHANGED <<failures, locked, guesses>>
    /\ Proceed(h, req[h].mfa)
    /\ UNCHANGED <<account, rows, edits, ledger>>

-----------------------------------------------------------------------------
(* Second factor.                                                          *)

\* createMFAChallenge.
CreateLoginChallenge(h, c) ==
    /\ pc[h] = "challenge"
    /\ challenge[c].is = "new"
    /\ challenge' = [challenge EXCEPT ![c] = Row("live", req[h].pw)]
    /\ Return(h)
    /\ UNCHANGED <<account, throttle, session, link, ceremony, edits, ledger>>

\* handleMFASubmit: currentChallenge.
MFASubmit(h, c) ==
    /\ challenge[c].is = "live"
    /\ Start(h, "mfaUser", [NoParams EXCEPT !.factor = "otp", !.on = c,
                                            !.pw = challenge[c].pw])
    /\ UNCHANGED <<account, throttle, rows, edits, ledger>>

\* GetUserByID and the TOTP code, checked against the secret read.
MFAUser(h, right) ==
    /\ pc[h] = "mfaUser"
    /\ IF disabled \/ ~mfa THEN Return(h)
       ELSE Goto(h, IF right THEN "dropChallenge" ELSE "recovery")
    /\ UNCHANGED <<account, throttle, rows, edits, ledger>>

\* Mutant: the UPDATE does not ask for a code that is unused.
ConsumeRecoveryCodeBlind(h, r) ==
    /\ pc[h] = "recovery"
    /\ IF r \in recovery \/ <<"code", r>> \in used
       THEN /\ Spend(<<"code", r>>)
            /\ Goto(h, "dropChallenge")
       ELSE Return(h) /\ UNCHANGED <<used, twice>>
    /\ UNCHANGED <<account, throttle, rows, edits, purged, confirmed>>

\* ConsumeRecoveryCode with code r.
ConsumeRecoveryCode(h, r) ==
    /\ pc[h] = "recovery"
    /\ IF r \in recovery
       THEN /\ recovery' = recovery \ {r}
            /\ Spend(<<"code", r>>)
            /\ Goto(h, "dropChallenge")
       ELSE Return(h) /\ UNCHANGED <<recovery, used, twice>>
    /\ UNCHANGED <<password, disabled, mfa, secret, passkey, throttle,
                   rows, edits, purged, confirmed>>

\* DeleteLoginChallenge, whose error is ignored.
DeleteLoginChallenge(h) ==
    /\ pc[h] = "dropChallenge"
    /\ challenge' = [challenge EXCEPT ![req[h].on] = Gone] \/ UNCHANGED challenge
    /\ Goto(h, "rotate")
    /\ UNCHANGED <<account, throttle, session, link, ceremony, edits, ledger>>

-----------------------------------------------------------------------------
(* Passkeys.                                                               *)

\* newCeremony, for signing in (anyone) or registering (a session).
NewCeremony(c, purpose) ==
    /\ ceremony[c] = "new"
    /\ purpose = "register" => ~disabled /\ \E s \in Sessions : session[s].is = "live"
    /\ ceremony' = [ceremony EXCEPT ![c] = purpose]
    /\ UNCHANGED <<account, throttle, session, challenge, link, edits, pc, req, ledger>>

\* handlePasskeyLoginFinish: ConsumeWebAuthnCeremony, one transaction that
\* deletes the row or fails.
PasskeyLoginFinish(h, c, uv) ==
    /\ pc[h] = "idle"
    /\ ceremony' = [ceremony EXCEPT ![c] = IF @ = "new" THEN @ ELSE "gone"]
    /\ IF ceremony[c] = "login"
       THEN /\ Become(h, "keyUser", [NoParams EXCEPT !.factor = IF uv THEN "keyUV" ELSE "key"])
            /\ Spend(<<"ceremony", c>>)
       ELSE UNCHANGED <<pc, req, used, twice>>
    /\ UNCHANGED <<account, throttle, session, challenge, link, edits,
                   purged, confirmed>>

\* GetUserByID or GetUserByWebAuthnHandle.
PasskeyUser(h) ==
    /\ pc[h] = "keyUser"
    /\ Become(h, "keyRead", [req[h] EXCEPT !.pw = password, !.mfa = mfa,
                                           !.then = IF disabled THEN "off" ELSE "on"])
    /\ UNCHANGED <<account, throttle, rows, edits, ledger>>

\* ListWebAuthnCredentials, the signature, and the disabled flag read before.
PasskeyRead(h, valid) ==
    /\ pc[h] = "keyRead"
    /\ IF passkey /\ valid /\ req[h].then = "on"
       THEN Goto(h, "keyUsed") ELSE Return(h)
    /\ UNCHANGED <<account, throttle, rows, edits, ledger>>

\* Mutant: a passkey always counts as two factors.
PasskeyUsedAlone(h) ==
    /\ pc[h] = "keyUsed"
    /\ Proceed(h, FALSE)
    /\ UNCHANGED <<account, throttle, rows, edits, ledger>>

\* UpdateWebAuthnCredential, whose error is ignored; then the MFA policy.
PasskeyUsed(h) ==
    /\ pc[h] = "keyUsed"
    /\ Proceed(h, req[h].mfa /\ req[h].factor = "key")
    /\ UNCHANGED <<account, throttle, rows, edits, ledger>>

-----------------------------------------------------------------------------
(* Sessions.                                                               *)

\* sessions.Issue, first half: the session s of the cookie goes, if there is one.
DeleteSession(h, s) ==
    /\ pc[h] = "rotate"
    /\ s # None => session[s].is = "live"
    /\ session' = IF s = None THEN session ELSE [session EXCEPT ![s] = Gone]
    /\ Goto(h, "create")
    /\ UNCHANGED <<account, throttle, challenge, link, ceremony, edits, ledger>>

CreateSession(h, s) ==
    /\ pc[h] = "create"
    /\ session[s].is = "new"
    /\ session' = [session EXCEPT ![s] = Row("live", Newer(req[h].pw, purged))]
    /\ Return(h)
    /\ UNCHANGED <<account, throttle, challenge, link, ceremony, edits, ledger>>

\* Logout, expiry or idle timeout.
EndSession(s) ==
    /\ session[s].is = "live"
    /\ session' = [session EXCEPT ![s] = Gone]
    /\ UNCHANGED <<account, throttle, challenge, link, ceremony, edits, pc, req, ledger>>

-----------------------------------------------------------------------------
(* Changes to the account.                                                 *)

Change(h, l, kind, q) ==
    /\ kind \in InPlay
    /\ edits < MaxEdits
    /\ edits' = edits + 1
    /\ Start(h, l, q)

\* issuePasswordToken, for the administrator or the forgotten-password form.
CreatePasswordToken(k) ==
    /\ link[k] = "new"
    /\ link' = [link EXCEPT ![k] = "valid"]
    /\ UNCHANGED <<account, throttle, session, challenge, ceremony, edits, pc, req, ledger>>

\* handleSetPasswordSubmit: GetValidPasswordToken and the policy.
SetPasswordSubmit(h, k) ==
    /\ link[k] = "valid"
    /\ Change(h, "consume", "password", [NoParams EXCEPT !.on = k, !.then = "dropLinks"])
    /\ UNCHANGED <<account, throttle, rows, ledger>>

\* Mutant: ConsumePasswordToken without "used = FALSE".
ConsumePasswordTokenBlind(h) ==
    LET k == req[h].on IN
    /\ pc[h] = "consume"
    /\ IF link[k] \in {"valid", "used"}
       THEN link' = [link EXCEPT ![k] = "used"] /\ Goto(h, "setPassword")
       ELSE UNCHANGED link /\ Return(h)
    /\ UNCHANGED <<account, throttle, session, challenge, ceremony, edits, ledger>>

\* ConsumePasswordToken: for one of the requests that saw the link valid.
ConsumePasswordToken(h) ==
    LET k == req[h].on IN
    /\ pc[h] = "consume"
    /\ IF link[k] = "valid"
       THEN link' = [link EXCEPT ![k] = "used"] /\ Goto(h, "setPassword")
       ELSE UNCHANGED link /\ Return(h)
    /\ UNCHANGED <<account, throttle, session, challenge, ceremony, edits, ledger>>

\* handleAdminUserPassword.
AdminUserPassword(h) ==
    /\ Change(h, "setPassword", "password", [NoParams EXCEPT !.then = "endSessions"])
    /\ UNCHANGED <<account, throttle, rows, ledger>>

\* SetUserPassword.  The session that asked for the change has just shown the
\* password and counts as signed in with the new one.
SetUserPassword(h) ==
    LET q == req[h] IN
    /\ pc[h] = "setPassword"
    /\ password' = password + 1
    /\ Become(h, q.then, [q EXCEPT !.pw = password + 1, !.then = "idle"])
    /\ session' = IF q.by \in Sessions /\ session[q.by].is = "live"
                  THEN [session EXCEPT ![q.by].pw = password + 1] ELSE session
    /\ IF q.on \in Links THEN Spend(<<"link", q.on>>) ELSE UNCHANGED <<used, twice>>
    /\ UNCHANGED <<disabled, mfa, secret, recovery, passkey, throttle, challenge, link,
                   ceremony, edits, purged, confirmed>>

\* DeletePasswordTokensForUser, whose error is ignored.
DeletePasswordTokensForUser(h) ==
    /\ pc[h] = "dropLinks"
    /\ \/ link' = [k \in Links |-> IF link[k] = "new" THEN "new" ELSE "gone"]
       \/ UNCHANGED link
    /\ Goto(h, "endSessions")
    /\ UNCHANGED <<account, throttle, session, challenge, ceremony, edits, ledger>>

\* Mutant: without a session to keep, none is deleted.
DeleteSessionsForUserKeepOnly(h) ==
    /\ pc[h] = "endSessions"
    /\ session' = [s \in Sessions |->
                     IF session[s].is = "live" /\ req[h].by # None /\ s # req[h].by
                     THEN Gone ELSE session[s]]
    /\ purged' = Newer(req[h].pw, purged)
    /\ Return(h)
    /\ UNCHANGED <<account, throttle, challenge, link, ceremony, edits, confirmed, used, twice>>

\* DeleteSessionsForUser, all but the session of the request if it has one.
DeleteSessionsForUser(h) ==
    /\ pc[h] = "endSessions"
    /\ session' = [s \in Sessions |-> IF session[s].is = "live" /\ s # req[h].by
                                      THEN Gone ELSE session[s]]
    /\ purged' = Newer(req[h].pw, purged)
    /\ Return(h)
    /\ UNCHANGED <<account, throttle, challenge, link, ceremony, edits, confirmed, used, twice>>

\* handleAdminToggleUser.
SetUserDisabled(h) ==
    /\ disabled' = ~disabled
    /\ IF disabled THEN edits < MaxEdits /\ edits' = edits + 1 /\ UNCHANGED <<pc, req>>
       ELSE Change(h, "endSessions", "disable", NoParams)
    /\ UNCHANGED <<password, mfa, secret, recovery, passkey, throttle, rows, ledger>>

\* handleAdminUnlockUser.
AdminUnlockUser ==
    /\ failures > 0
    /\ Unlock
    /\ UNCHANGED <<account, rows, edits, pc, req, ledger>>

-----------------------------------------------------------------------------
(* The account page.                                                       *)

AccountPages == {"setPassword", "endSessions", "setup", "enable", "disableMFA", "unregister"}
Kind(l) == IF l \in {"setPassword", "endSessions"} THEN "password"
           ELSE IF l \in {"register", "unregister"} THEN "passkey" ELSE "mfa"

\* requireUser: the session, for handler l of the account page.
RequireUser(h, s, l, x) ==
    /\ session[s].is = "live"
    /\ Change(h, "owner", Kind(l), [NoParams EXCEPT !.by = s, !.then = l, !.on = x,
                                     !.n = IF Kind(l) = "mfa" THEN edits + 1 ELSE 0])
    /\ UNCHANGED <<account, throttle, rows, ledger>>

\* requireUser: the user, and the checks of the handler on what was read: a
\* right password for a new one and to turn MFA off, MFA off for a new secret,
\* a code of the stored secret to turn it on.
Owner(h) ==
    LET l == req[h].then IN
    /\ pc[h] = "owner"
    /\ IF disabled \/ (l = "setup" /\ mfa) \/ (l = "enable" /\ secret = None)
       THEN Return(h) /\ UNCHANGED confirmed
       ELSE /\ Become(h, l, [req[h] EXCEPT !.secret = IF l = "enable" THEN secret ELSE None,
                               !.then = IF l = "setPassword" THEN "endSessions" ELSE "idle"])
            /\ confirmed' = IF l = "enable" THEN confirmed \cup {secret} ELSE confirmed
    /\ UNCHANGED <<account, throttle, rows, edits, purged, used, twice>>

\* handleMFASetup: SetUserMFA with a candidate secret.
MFASetup(h) ==
    /\ pc[h] = "setup"
    /\ mfa' = FALSE /\ secret' = req[h].n
    /\ Return(h)
    /\ UNCHANGED <<password, disabled, recovery, passkey, throttle, rows, edits, ledger>>

\* Mutant: only the flag is written, the secret left as it is.
MFAEnableFlagOnly(h) ==
    /\ pc[h] = "enable"
    /\ mfa' = TRUE
    /\ Goto(h, "replaceCodes")
    /\ UNCHANGED <<password, disabled, secret, recovery, passkey, throttle, rows, edits, ledger>>

\* handleMFAEnable: SetUserMFA with the secret that was read and confirmed.
MFAEnable(h) ==
    /\ pc[h] = "enable"
    /\ mfa' = TRUE /\ secret' = req[h].secret
    /\ Goto(h, "replaceCodes")
    /\ UNCHANGED <<password, disabled, recovery, passkey, throttle, rows, edits, ledger>>

\* ReplaceRecoveryCodes; one code stands for the set.
ReplaceRecoveryCodes(h) ==
    /\ pc[h] = "replaceCodes"
    /\ recovery' = {req[h].n}
    /\ Return(h)
    /\ UNCHANGED <<password, disabled, mfa, secret, passkey, throttle, rows, edits, ledger>>

\* handleMFADisable and handleAdminResetMFA: SetUserMFA.
MFADisable(h) ==
    /\ pc[h] = "disableMFA"
    /\ mfa' = FALSE /\ secret' = None
    /\ Goto(h, "dropCodes")
    /\ UNCHANGED <<password, disabled, recovery, passkey, throttle, rows, edits, ledger>>

AdminResetMFA(h) ==
    /\ Change(h, "disableMFA", "mfa", NoParams)
    /\ UNCHANGED <<account, throttle, rows, ledger>>

\* DeleteRecoveryCodes.
DeleteRecoveryCodes(h) ==
    /\ pc[h] = "dropCodes"
    /\ recovery' = {}
    /\ Return(h)
    /\ UNCHANGED <<password, disabled, mfa, secret, passkey, throttle, rows, edits, ledger>>

\* handlePasskeyRegisterFinish: the ceremony, then the credential.
PasskeyRegisterFinish(h) ==
    LET c == req[h].on IN
    /\ pc[h] = "register"
    /\ ceremony' = [ceremony EXCEPT ![c] = IF @ = "new" THEN @ ELSE "gone"]
    /\ IF ceremony[c] = "register" THEN Goto(h, "store") /\ Spend(<<"ceremony", c>>)
       ELSE Return(h) /\ UNCHANGED <<used, twice>>
    /\ UNCHANGED <<account, throttle, session, challenge, link, edits, purged, confirmed>>

CreateWebAuthnCredential(h) ==
    /\ pc[h] = "store"
    /\ passkey' = TRUE
    /\ Return(h)
    /\ UNCHANGED <<password, disabled, mfa, secret, recovery, throttle, rows, edits, ledger>>

\* handleAccountPasskeyDelete and handleAdminResetPasskeys.
DeleteWebAuthnCredential(h) ==
    /\ pc[h] = "unregister"
    /\ passkey' = FALSE
    /\ Return(h)
    /\ UNCHANGED <<password, disabled, mfa, secret, recovery, throttle, rows, edits, ledger>>

AdminResetPasskeys(h) ==
    /\ Change(h, "unregister", "passkey", NoParams)
    /\ UNCHANGED <<account, throttle, rows, ledger>>

-----------------------------------------------------------------------------
(* Time and failures.                                                      *)

LockExpires ==
    /\ locked
    /\ locked' = FALSE /\ guesses' = 0
    /\ UNCHANGED <<account, failures, rows, edits, pc, req, ledger>>

\* A challenge, link or ceremony reaches its expiry or is swept.
Expire ==
    /\ \/ \E c \in Challenges : /\ challenge[c].is = "live"
                                /\ challenge' = [challenge EXCEPT ![c] = Gone]
                                /\ UNCHANGED <<link, ceremony>>
       \/ \E k \in Links : /\ link[k] = "valid"
                           /\ link' = [link EXCEPT ![k] = "gone"]
                           /\ UNCHANGED <<challenge, ceremony>>
       \/ \E c \in Ceremonies : /\ ceremony[c] \in {"login", "register"}
                                /\ ceremony' = [ceremony EXCEPT ![c] = "gone"]
                                /\ UNCHANGED <<challenge, link>>
    /\ UNCHANGED <<account, throttle, session, edits, pc, req, ledger>>

\* A store call fails, a check the model leaves out refuses (the verification
\* slots are taken, the authenticator's counter went back), the peer hangs up.
Abandon(h) ==
    /\ pc[h] # "idle"
    /\ Return(h)
    /\ UNCHANGED <<account, throttle, rows, edits, ledger>>

Step ==
    \/ \E h \in Handlers :
        \/ LoginSubmit(h)
        \/ \E c \in Challenges : MFASubmit(h, c)
        \/ \E c \in Ceremonies, uv \in BOOLEAN : PasskeyLoginFinish(h, c, uv)
        \/ \E right \in BOOLEAN : LookUp(h, right) \/ MFAUser(h, right) \/ PasskeyRead(h, right)
        \/ RecordFailedLogin(h) \/ ResetFailedLogins(h)
        \/ \E c \in Challenges : CreateLoginChallenge(h, c)
        \/ \E r \in Versions : ConsumeRecoveryCode(h, r)
        \/ DeleteLoginChallenge(h)
        \/ PasskeyUser(h) \/ PasskeyUsed(h)
        \/ \E s \in Sessions \cup {None} : DeleteSession(h, s)
        \/ \E s \in Sessions :
            \/ CreateSession(h, s)
            \/ \E l \in AccountPages : RequireUser(h, s, l, None)
            \/ \E c \in Ceremonies : RequireUser(h, s, "register", c)
        \/ \E k \in Links : SetPasswordSubmit(h, k)
        \/ ConsumePasswordToken(h) \/ AdminUserPassword(h) \/ SetUserPassword(h)
        \/ DeletePasswordTokensForUser(h) \/ DeleteSessionsForUser(h)
        \/ SetUserDisabled(h)
        \/ Owner(h)
        \/ MFASetup(h) \/ MFAEnable(h) \/ ReplaceRecoveryCodes(h)
        \/ MFADisable(h) \/ AdminResetMFA(h) \/ DeleteRecoveryCodes(h)
        \/ PasskeyRegisterFinish(h) \/ CreateWebAuthnCredential(h)
        \/ DeleteWebAuthnCredential(h) \/ AdminResetPasskeys(h)
        \/ Abandon(h)
    \/ \E c \in Ceremonies, purpose \in {"login", "register"} : NewCeremony(c, purpose)
    \/ \E s \in Sessions : EndSession(s)
    \/ \E k \in Links : CreatePasswordToken(k)
    \/ AdminUnlockUser \/ LockExpires
    \/ Expire

\* What the row and the passkeys must be for a sign-in with the factors of h.
RowFits(h) ==
    /\ ~disabled
    /\ req[h].factor \in {"pwd", "key"} => ~mfa
    /\ req[h].factor = "otp" => mfa

\* History: fit and keyed, kept while the sign-in is in flight.
Remember ==
    /\ fit' = [h \in Handlers |->
                 pc'[h] \in SignIn /\ ((pc[h] \in SignIn /\ fit[h]) \/ RowFits(h)')]
    /\ keyed' = [h \in Handlers |->
                   /\ pc'[h] \in SignIn /\ req'[h].factor \in {"key", "keyUV"}
                   /\ (pc[h] \in SignIn /\ keyed[h]) \/ passkey']

Next == Step /\ Remember

Spec == Init /\ [][Next]_vars

-----------------------------------------------------------------------------
(* Properties.                                                             *)

TypeOK ==
    /\ password \in Versions /\ disabled \in BOOLEAN /\ mfa \in BOOLEAN
    /\ secret \in Versions \cup {None} /\ recovery \subseteq Versions
    /\ passkey \in BOOLEAN
    /\ failures \in 0..MaxFailedLogins /\ locked \in BOOLEAN
    /\ session \in [Sessions -> Rows] /\ challenge \in [Challenges -> Rows]
    /\ link \in [Links -> {"new", "valid", "used", "gone"}]
    /\ ceremony \in [Ceremonies -> {"new", "login", "register", "gone"}]
    /\ edits \in Versions /\ purged \in 0..password
    /\ pc \in [Handlers -> PCs]
    /\ \A h \in Handlers :
         /\ req[h].factor \in Factors
         /\ pc[h] \in {"mfaUser", "recovery", "dropChallenge"} => req[h].on \in Challenges
         /\ pc[h] = "consume" => req[h].on \in Links

\* A session is created only for a sign-in during which, at one instant, the
\* account was enabled and its MFA setting was the one the factors fit: one
\* factor is enough only while MFA is off, whatever the user or the
\* administrator changes meanwhile.  A passkey was registered at some instant.
SignInWasEntitled ==
    \A h \in Handlers : pc[h] \in {"rotate", "create"} =>
        fit[h] /\ (req[h].factor \in {"key", "keyUV"} => keyed[h])

\* Once a change of the password is complete, no session from before it is
\* left, except one signed in with the new password or the one that made the
\* change.  A sign-in that was still under way may yet create its session.
NoSessionSurvivesPasswordChange ==
    \A s \in Sessions :
        session[s].is = "live" => session[s].pw >= purged

\* A recovery code, a password link and a passkey ceremony take effect once,
\* however many requests present them at the same time.
OneTimeThingsWorkOnce == twice = {}

\* Wrong passwords between two unlockings: handlers that read the row before the
\* account locked can overshoot the threshold only by their number.
GuessesBounded == guesses < MaxFailedLogins + Cardinality(Handlers)

\* While MFA is on, the stored secret is one the user has confirmed with a
\* code, also when several setup pages are open.
EnabledSecretWasConfirmed == mfa => secret \in confirmed
=============================================================================
