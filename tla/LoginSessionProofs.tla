------------------------- MODULE LoginSessionProofs -------------------------
(***************************************************************************)
(* Theorems about LoginSession, for every number of handlers, sessions,    *)
(* challenges, links and ceremonies, and every lockout policy.             *)
(*                                                                         *)
(* Control is what every other argument rests on: the types, and what a    *)
(* handler's parameters are at each of its steps.  Each property then has  *)
(* an inductive invariant of its own.                                      *)
(***************************************************************************)
EXTENDS LoginSession, FiniteSetTheorems, TLAPS

-----------------------------------------------------------------------------
(* The invariants.                                                         *)

Request == [factor : Factors, pw : Nat, mfa : BOOLEAN,
            on : Challenges \cup Links \cup Ceremonies \cup {None},
            by : Sessions \cup {None}, n : Nat, secret : Nat \cup {None},
            then : PCs \cup {"on", "off"}]
Stored == [is : {"new", "live", "gone"}, pw : Nat]

StoreTyped ==
    /\ password \in Nat /\ disabled \in BOOLEAN /\ mfa \in BOOLEAN
    /\ secret \in Nat \cup {None} /\ recovery \subseteq Nat /\ passkey \in BOOLEAN
    /\ failures \in 0..MaxFailedLogins /\ locked \in BOOLEAN /\ guesses \in Nat
    /\ session \in [Sessions -> Stored] /\ challenge \in [Challenges -> Stored]
    /\ link \in [Links -> {"new", "valid", "used", "gone"}]
    /\ ceremony \in [Ceremonies -> {"new", "login", "register", "gone"}]
    /\ edits \in Nat /\ purged \in Nat

Typed ==
    /\ StoreTyped
    /\ pc \in [Handlers -> PCs] /\ req \in [Handlers -> Request]
    /\ fit \in [Handlers -> BOOLEAN] /\ keyed \in [Handlers -> BOOLEAN]

\* The parameters q that a handler at l may have.
Fits(l, q) ==
    /\ l \in {"lookup", "reset", "record"} => q.factor = "pwd"
    /\ l \in {"mfaUser", "recovery", "dropChallenge"} =>
          q.factor = "otp" /\ q.on \in Challenges
    /\ l \in {"keyUser", "keyRead", "keyUsed"} => q.factor \in {"key", "keyUV"}
    /\ l = "consume" => q.on \in Links /\ q.then = "dropLinks" /\ q.by = None
    /\ l = "setPassword" => q.then \in {"dropLinks", "endSessions"}
    /\ l = "owner" =>
          /\ q.pw = 0
          /\ \/ q.then \in AccountPages /\ q.on = None
             \/ q.then = "register" /\ q.on \in Ceremonies
    /\ l = "register" => q.on \in Ceremonies

Control == Typed /\ \A h \in Handlers : Fits(pc[h], req[h])

\* Nothing remembers a password newer than the stored one; a session that asked
\* for a change, if it is still there, has the password it was changed to.
SessionInv ==
    /\ purged <= password
    /\ \A c \in Challenges : challenge[c].pw <= password
    /\ \A s \in Sessions : /\ session[s].pw <= password
                           /\ session[s].is = "live" => purged <= session[s].pw
    /\ \A h \in Handlers :
          /\ req[h].pw <= password
          /\ req[h].by \in Sessions => session[req[h].by].is # "new"
          /\ /\ pc[h] \in {"dropLinks", "endSessions"} /\ req[h].by \in Sessions
             /\ session[req[h].by].is = "live"
             => req[h].pw <= session[req[h].by].pw

\* A wrong password was read while the account was not locked, by one of the
\* handlers that have yet to record it.
Recording == {h \in Handlers : pc[h] = "record"}
GuessInv ==
    /\ ~locked => guesses = 0 \/ (guesses <= failures /\ failures < MaxFailedLogins)
    /\ locked => guesses + Cardinality(Recording) < MaxFailedLogins + Cardinality(Handlers)

SecretInv ==
    /\ mfa => secret \in confirmed
    /\ \A h \in Handlers : pc[h] = "enable" => req[h].secret \in confirmed

\* The handler is going to store the recovery codes numbered n.
Coding(h) ==
    \/ pc[h] = "owner" /\ req[h].then = "enable"
    \/ pc[h] \in {"enable", "replaceCodes"}
\* The handler has consumed a link and not yet set the password.
Linked(h) == pc[h] = "setPassword" /\ req[h].on \in Links

OnceInv ==
    /\ twice = {}
    /\ \A c \in Ceremonies : <<"ceremony", c>> \in used => ceremony[c] = "gone"
    /\ \A k \in Links : <<"link", k>> \in used => link[k] \in {"used", "gone"}
    /\ \A h \in Handlers : Linked(h) =>
          <<"link", req[h].on>> \notin used /\ link[req[h].on] \in {"used", "gone"}
    /\ \A g, h \in Handlers : g # h /\ Linked(g) /\ Linked(h) => req[g].on # req[h].on
    /\ \A r \in recovery : r <= edits /\ <<"code", r>> \notin used
    /\ \A r \in Nat : <<"code", r>> \in used => r <= edits
    /\ \A h \in Handlers : Coding(h) =>
          /\ req[h].n <= edits /\ req[h].n \notin recovery /\ <<"code", req[h].n>> \notin used
    /\ \A g, h \in Handlers : g # h /\ Coding(g) /\ Coding(h) => req[g].n # req[h].n

\* Where a sign-in stands, what was true at an instant of it.
EntitledInv ==
    \A h \in Handlers :
        LET q == req[h] IN
        /\ pc[h] = "reset" /\ ~q.mfa => fit[h]
        /\ pc[h] \in {"recovery", "dropChallenge", "rotate", "create"} => fit[h]
        /\ pc[h] = "keyRead" /\ q.then = "on" /\ (q.factor = "keyUV" \/ ~q.mfa) => fit[h]
        /\ pc[h] = "keyUsed" /\ (q.factor = "keyUV" \/ ~q.mfa) => fit[h]
        /\ pc[h] = "keyUsed" => keyed[h]
        /\ pc[h] \in {"rotate", "create"} /\ q.factor \in {"key", "keyUV"} => keyed[h]

IInv == Control /\ SessionInv /\ GuessInv /\ SecretInv /\ OnceInv /\ EntitledInv

-----------------------------------------------------------------------------
(* Control.                                                                *)

LEMMA NoParamsTyped ==
    /\ NoParams \in Request /\ NoParams.factor = "pwd" /\ NoParams.pw = 0 /\ NoParams.on = None
    /\ NoParams.by = None /\ NoParams.n = 0 /\ NoParams.then = "idle"
  BY DEF NoParams, Request, Factors, PCs

\* A handler begins a request.
Begins(g) ==
    \/ LoginSubmit(g)
    \/ \E c \in Challenges : MFASubmit(g, c)
    \/ \E c \in Ceremonies, uv \in BOOLEAN : PasskeyLoginFinish(g, c, uv)
    \/ \E s \in Sessions : \/ \E l \in AccountPages : RequireUser(g, s, l, None)
                           \/ \E c \in Ceremonies : RequireUser(g, s, "register", c)
    \/ \E k \in Links : SetPasswordSubmit(g, k)
    \/ AdminUserPassword(g) \/ SetUserDisabled(g) \/ AdminResetMFA(g) \/ AdminResetPasskeys(g)

\* A handler goes on with its request.
Proceeds(g) ==
    \/ \E right \in BOOLEAN : LookUp(g, right) \/ MFAUser(g, right) \/ PasskeyRead(g, right)
    \/ ResetFailedLogins(g)
    \/ \E r \in Versions : ConsumeRecoveryCode(g, r)
    \/ DeleteLoginChallenge(g) \/ PasskeyUser(g) \/ PasskeyUsed(g)
    \/ \E s \in Sessions \cup {None} : DeleteSession(g, s)
    \/ ConsumePasswordToken(g) \/ SetUserPassword(g) \/ DeletePasswordTokensForUser(g)
    \/ Owner(g) \/ MFAEnable(g) \/ MFADisable(g) \/ PasskeyRegisterFinish(g)

\* A handler's last step, or an end before its time.
Ends(g) ==
    \/ RecordFailedLogin(g)
    \/ \E c \in Challenges : CreateLoginChallenge(g, c)
    \/ \E s \in Sessions : CreateSession(g, s)
    \/ DeleteSessionsForUser(g) \/ MFASetup(g) \/ ReplaceRecoveryCodes(g)
    \/ DeleteRecoveryCodes(g) \/ CreateWebAuthnCredential(g) \/ DeleteWebAuthnCredential(g)
    \/ Abandon(g)

\* Everything that happens outside the handlers.
Environment ==
    \/ \E c \in Ceremonies, purpose \in {"login", "register"} : NewCeremony(c, purpose)
    \/ \E s \in Sessions : EndSession(s)
    \/ \E k \in Links : CreatePasswordToken(k)
    \/ AdminUnlockUser \/ LockExpires
    \/ Expire

LEMMA StepCases ==
    Step => Environment \/ \E h \in Handlers : Begins(h) \/ Proceeds(h) \/ Ends(h)
  BY DEF Step, Environment, Begins, Proceeds, Ends

LEMMA EndsReturn == ASSUME NEW h, Ends(h) PROVE Return(h)
  BY DEF Ends, RecordFailedLogin, CreateLoginChallenge, CreateSession, DeleteSessionsForUser,
         MFASetup, ReplaceRecoveryCodes, DeleteRecoveryCodes, CreateWebAuthnCredential,
         DeleteWebAuthnCredential, Abandon

LEMMA EnvironmentKeeps == Environment => UNCHANGED <<pc, req>>
  BY DEF Environment, NewCeremony, EndSession, CreatePasswordToken, AdminUnlockUser,
         LockExpires, Expire

\* A handler that begins is idle, and takes parameters that fit.
LEMMA BeginsFits ==
  ASSUME Control, NEW h \in Handlers, Begins(h)
  PROVE  \/ UNCHANGED <<pc, req>>
         \/ /\ pc[h] = "idle"
            /\ \E l \in PCs, q \in Request : Fits(l, q) /\ Become(h, l, q)
  <1> DEFINE Legal == /\ pc[h] = "idle"
                      /\ \E l \in PCs, q \in Request : Fits(l, q) /\ Become(h, l, q)
  <1>t. /\ challenge \in [Challenges -> Stored] /\ edits \in Nat
        /\ pc \in [Handlers -> PCs] /\ req \in [Handlers -> Request]
    BY DEF Control, Typed, StoreTyped
  <1> USE NoParamsTyped DEF PCs, SignIn, Changes, Start, Change
  <1>1. CASE LoginSubmit(h)
    BY <1>1 DEF LoginSubmit, Fits
  <1>2. ASSUME NEW c \in Challenges, MFASubmit(h, c) PROVE Legal
    <2> DEFINE q == [NoParams EXCEPT !.factor = "otp", !.on = c, !.pw = challenge[c].pw]
    <2>1. q \in Request /\ Fits("mfaUser", q)
      BY <1>t DEF Request, Factors, Stored, Fits
    <2> QED
      BY <1>2, <2>1 DEF MFASubmit
  <1>3. ASSUME NEW c \in Ceremonies, NEW uv \in BOOLEAN, PasskeyLoginFinish(h, c, uv)
        PROVE  UNCHANGED <<pc, req>> \/ Legal
    <2>1. \A f \in {"key", "keyUV"} : /\ [NoParams EXCEPT !.factor = f] \in Request
                                      /\ Fits("keyUser", [NoParams EXCEPT !.factor = f])
      BY DEF Request, Factors, Fits
    <2> QED
      BY <1>3, <2>1 DEF PasskeyLoginFinish
  <1>4. ASSUME NEW s \in Sessions, NEW l \in AccountPages, RequireUser(h, s, l, None)
        PROVE  Legal
    <2> DEFINE n == IF Kind(l) = "mfa" THEN edits + 1 ELSE 0
               q == [NoParams EXCEPT !.by = s, !.then = l, !.on = None, !.n = n]
    <2>1. n \in Nat
      BY <1>t
    <2>2. pc[h] = "idle" /\ Become(h, "owner", q)
      BY <1>4 DEF RequireUser
    <2> HIDE DEF n
    <2>3. q \in Request /\ Fits("owner", q)
      BY <2>1 DEF Request, AccountPages, Fits
    <2> HIDE DEF q
    <2> QED
      BY <2>2, <2>3
  <1>5. ASSUME NEW s \in Sessions, NEW c \in Ceremonies, RequireUser(h, s, "register", c)
        PROVE  Legal
    <2> DEFINE n == IF Kind("register") = "mfa" THEN edits + 1 ELSE 0
               q == [NoParams EXCEPT !.by = s, !.then = "register", !.on = c, !.n = n]
    <2>1. n \in Nat
      BY <1>t
    <2>2. pc[h] = "idle" /\ Become(h, "owner", q)
      BY <1>5 DEF RequireUser
    <2> HIDE DEF n
    <2>3. q \in Request /\ Fits("owner", q)
      BY <2>1 DEF Request, AccountPages, Fits
    <2> HIDE DEF q
    <2> QED
      BY <2>2, <2>3
  <1>6. ASSUME NEW k \in Links, SetPasswordSubmit(h, k) PROVE Legal
    <2> DEFINE q == [NoParams EXCEPT !.on = k, !.then = "dropLinks"]
    <2>1. q \in Request /\ Fits("consume", q)
      BY DEF Request, Fits
    <2> QED
      BY <1>6, <2>1 DEF SetPasswordSubmit
  <1>7. CASE AdminUserPassword(h)
    <2> DEFINE q == [NoParams EXCEPT !.then = "endSessions"]
    <2>1. q \in Request /\ Fits("setPassword", q)
      BY DEF Request, Fits
    <2> QED
      BY <1>7, <2>1 DEF AdminUserPassword
  <1>8. CASE AdminResetMFA(h) \/ AdminResetPasskeys(h)
    BY <1>8 DEF AdminResetMFA, AdminResetPasskeys, Fits
  <1>9. CASE SetUserDisabled(h)
    BY <1>9 DEF SetUserDisabled, Fits
  <1> HIDE DEF PCs, SignIn, Changes, Start, Change
  <1> QED
    BY <1>1, <1>2, <1>3, <1>4, <1>5, <1>6, <1>7, <1>8, <1>9 DEF Begins

\* A handler that proceeds is not idle, and its next parameters fit.
LEMMA ProceedsFits ==
  ASSUME Control, NEW h \in Handlers, Proceeds(h)
  PROVE  /\ pc[h] # "idle"
         /\ \E l \in PCs, q \in Request : Fits(l, q) /\ Become(h, l, q)
  <1> DEFINE Legal == /\ pc[h] # "idle"
                      /\ \E l \in PCs, q \in Request : Fits(l, q) /\ Become(h, l, q)
  <1>t. /\ password \in Nat /\ mfa \in BOOLEAN /\ secret \in Nat \cup {None}
        /\ pc \in [Handlers -> PCs] /\ req \in [Handlers -> Request]
        /\ pc[h] \in PCs /\ req[h] \in Request /\ Fits(pc[h], req[h])
    BY DEF Control, Typed, StoreTyped
  <1>g. \A l : Goto(h, l) <=> Become(h, l, req[h])
    BY <1>t DEF Goto, Become
  <1>r. ASSUME Return(h) PROVE Become(h, "idle", NoParams) /\ "idle" \in PCs
                               /\ NoParams \in Request /\ Fits("idle", NoParams)
    BY <1>r, NoParamsTyped DEF Return, PCs, Fits
  <1>1. ASSUME NEW right \in BOOLEAN, LookUp(h, right) PROVE Legal
    <2> DEFINE q == [req[h] EXCEPT !.pw = password, !.mfa = mfa]
    <2>1. q \in Request /\ Fits("reset", q) /\ Fits("record", q)
      BY <1>t, <1>1 DEF LookUp, Request, Fits
    <2> HIDE DEF q
    <2> QED
      BY <1>1, <1>r, <2>1 DEF LookUp, PCs, SignIn, q
  <1>2. ASSUME NEW right \in BOOLEAN, MFAUser(h, right) PROVE Legal
    <2>1. Fits("dropChallenge", req[h]) /\ Fits("recovery", req[h])
      BY <1>t, <1>2 DEF MFAUser, Fits
    <2> QED
      BY <1>2, <1>t, <1>g, <1>r, <2>1 DEF MFAUser, PCs, SignIn
  <1>3. ASSUME NEW right \in BOOLEAN, PasskeyRead(h, right) PROVE Legal
    <2>1. Fits("keyUsed", req[h])
      BY <1>t, <1>3 DEF PasskeyRead, Fits
    <2> QED
      BY <1>3, <1>t, <1>g, <1>r, <2>1 DEF PasskeyRead, PCs, SignIn
  <1>4. CASE ResetFailedLogins(h) \/ PasskeyUsed(h)
    <2>1. Fits("challenge", req[h]) /\ Fits("rotate", req[h])
      BY DEF Fits
    <2> QED
      BY <1>4, <1>t, <1>g, <2>1 DEF ResetFailedLogins, PasskeyUsed, Proceed, PCs, SignIn
  <1>5. ASSUME NEW r \in Versions, ConsumeRecoveryCode(h, r) PROVE Legal
    <2>1. Fits("dropChallenge", req[h])
      BY <1>t, <1>5 DEF ConsumeRecoveryCode, Fits
    <2> QED
      BY <1>5, <1>t, <1>g, <1>r, <2>1 DEF ConsumeRecoveryCode, PCs, SignIn
  <1>6. CASE DeleteLoginChallenge(h)
    <2>1. Fits("rotate", req[h])
      BY DEF Fits
    <2> QED
      BY <1>6, <1>t, <1>g, <2>1 DEF DeleteLoginChallenge, PCs, SignIn
  <1>7. CASE PasskeyUser(h)
    <2> DEFINE t == IF disabled THEN "off" ELSE "on"
               q == [req[h] EXCEPT !.pw = password, !.mfa = mfa, !.then = t]
    <2>1. pc[h] = "keyUser" /\ Become(h, "keyRead", q)
      BY <1>7 DEF PasskeyUser
    <2>2. t \in {"on", "off"}
      OBVIOUS
    <2> HIDE DEF t
    <2>3. q \in Request /\ Fits("keyRead", q)
      BY <1>t, <2>1, <2>2 DEF Request, Fits
    <2> HIDE DEF q
    <2> QED
      BY <2>1, <2>3 DEF PCs, SignIn
  <1>8. ASSUME NEW s \in Sessions \cup {None}, DeleteSession(h, s) PROVE Legal
    <2>1. Fits("create", req[h])
      BY DEF Fits
    <2> QED
      BY <1>8, <1>t, <1>g, <2>1 DEF DeleteSession, PCs, SignIn
  <1>9. CASE ConsumePasswordToken(h)
    <2>1. Fits("setPassword", req[h])
      BY <1>t, <1>9 DEF ConsumePasswordToken, Fits
    <2> QED
      BY <1>9, <1>t, <1>g, <1>r, <2>1 DEF ConsumePasswordToken, PCs, Changes
  <1>10. CASE SetUserPassword(h)
    <2> DEFINE q == [req[h] EXCEPT !.pw = password + 1, !.then = "idle"]
    <2>1. req[h].then \in {"dropLinks", "endSessions"}
      BY <1>t, <1>10 DEF SetUserPassword, Fits
    <2>2. q \in Request /\ Fits("dropLinks", q) /\ Fits("endSessions", q)
      <3>1. password + 1 \in Nat /\ "idle" \in PCs
        BY <1>t DEF PCs
      <3>2. q \in Request
        BY <1>t, <3>1 DEF Request
      <3> HIDE DEF q
      <3> QED
        BY <3>2 DEF Fits
    <2>3. Become(h, req[h].then, q) /\ pc[h] # "idle"
      BY <1>10 DEF SetUserPassword
    <2> HIDE DEF q
    <2> QED
      BY <2>1, <2>2, <2>3 DEF PCs, Changes
  <1>11. CASE DeletePasswordTokensForUser(h)
    <2>1. Fits("endSessions", req[h])
      BY DEF Fits
    <2> QED
      BY <1>11, <1>t, <1>g, <2>1 DEF DeletePasswordTokensForUser, PCs, Changes
  <1>12. CASE Owner(h)
    <2> DEFINE l == req[h].then
               q(y, t) == [req[h] EXCEPT !.secret = y, !.then = t]
    <2>1. /\ req[h].pw = 0
          /\ \/ l \in AccountPages /\ req[h].on = None
             \/ l = "register" /\ req[h].on \in Ceremonies
      BY <1>t, <1>12 DEF Owner, Fits
    <2>2. \A y \in Nat \cup {None}, t \in {"endSessions", "idle"} : q(y, t) \in Request
      BY <1>t DEF Request, PCs, Changes
    <2>3. \A y \in Nat \cup {None} : q(y, IF l = "setPassword" THEN "endSessions" ELSE "idle") \in Request
      BY <2>2
    <2>4. \A y \in Nat \cup {None} : Fits(l, q(y, IF l = "setPassword" THEN "endSessions" ELSE "idle"))
      BY <1>t, <2>1 DEF Request, Fits, AccountPages
    <2>5. l \in PCs
      BY <2>1 DEF PCs, Changes, AccountPages
    <2>6. CASE Return(h)
      BY <1>12, <2>6, <1>r DEF Owner
    <2>7. CASE ~Return(h)
      <3>1. Become(h, l, q(IF l = "enable" THEN secret ELSE None,
                           IF l = "setPassword" THEN "endSessions" ELSE "idle"))
        BY <1>12, <2>7 DEF Owner
      <3>2. (IF l = "enable" THEN secret ELSE None) \in Nat \cup {None}
        BY <1>t
      <3>3. pc[h] # "idle"
        BY <1>12 DEF Owner
      <3> HIDE DEF q, l
      <3> QED
        BY <2>3, <2>4, <2>5, <3>1, <3>2, <3>3
    <2> QED
      BY <2>6, <2>7
  <1>13. CASE MFAEnable(h) \/ MFADisable(h)
    <2>1. Fits("replaceCodes", req[h]) /\ Fits("dropCodes", req[h])
      BY DEF Fits
    <2> QED
      BY <1>13, <1>t, <1>g, <2>1 DEF MFAEnable, MFADisable, PCs, Changes
  <1>14. CASE PasskeyRegisterFinish(h)
    <2>1. Fits("store", req[h])
      BY DEF Fits
    <2> QED
      BY <1>14, <1>t, <1>g, <1>r, <2>1 DEF PasskeyRegisterFinish, PCs, Changes
  <1> QED
    BY <1>1, <1>2, <1>3, <1>4, <1>5, <1>6, <1>7, <1>8, <1>9, <1>10, <1>11, <1>12, <1>13, <1>14
       DEF Proceeds

\* One handler at most moves; where the others stand, and what with, stays.
LEMMA Moves ==
  ASSUME Control, Step, NEW h \in Handlers
  PROVE  \/ pc'[h] = pc[h] /\ req'[h] = req[h]
         \/ pc'[h] = "idle" /\ req'[h] = NoParams
         \/ Begins(h)
         \/ Proceeds(h)
  <1>t. pc \in [Handlers -> PCs] /\ req \in [Handlers -> Request]
    BY DEF Control, Typed, StoreTyped
  <1>1. CASE Environment
    BY <1>1, EnvironmentKeeps
  <1>2. ASSUME NEW g \in Handlers, Begins(g) \/ Proceeds(g) \/ Ends(g), g # h
        PROVE  pc'[h] = pc[h] /\ req'[h] = req[h]
    BY <1>t, <1>2, BeginsFits, ProceedsFits, EndsReturn DEF Become, Return
  <1>3. CASE Ends(h)
    BY <1>t, <1>3, EndsReturn DEF Become, Return
  <1> QED
    BY <1>1, <1>2, <1>3, StepCases

LEMMA HandlersFit ==
  ASSUME Control, Step
  PROVE  /\ pc' \in [Handlers -> PCs] /\ req' \in [Handlers -> Request]
         /\ \A h \in Handlers : Fits(pc'[h], req'[h])
  <1>t. /\ pc \in [Handlers -> PCs] /\ req \in [Handlers -> Request]
        /\ \A h \in Handlers : Fits(pc[h], req[h])
    BY DEF Control, Typed, StoreTyped
  <1>1. ASSUME NEW g \in Handlers, NEW l \in PCs, NEW q \in Request, Fits(l, q), Become(g, l, q)
        PROVE  /\ pc' \in [Handlers -> PCs] /\ req' \in [Handlers -> Request]
               /\ \A h \in Handlers : Fits(pc'[h], req'[h])
    BY <1>t, <1>1 DEF Become
  <1>2. ASSUME UNCHANGED <<pc, req>>
        PROVE  /\ pc' \in [Handlers -> PCs] /\ req' \in [Handlers -> Request]
               /\ \A h \in Handlers : Fits(pc'[h], req'[h])
    BY <1>t, <1>2
  <1>3. ASSUME NEW g \in Handlers, Ends(g)
        PROVE  \E l \in PCs, q \in Request : Fits(l, q) /\ Become(g, l, q)
    BY <1>3, EndsReturn, NoParamsTyped DEF Return, PCs, Fits
  <1> QED
    BY <1>1, <1>2, <1>3, StepCases, EnvironmentKeeps, BeginsFits, ProceedsFits

\* What is stored keeps its type.
LEMMA StoreStep == ASSUME Control, Step PROVE StoreTyped'
  <1> USE DEF account, throttle, rows, ledger
  <1>t. StoreTyped /\ \A h \in Handlers : req[h] \in Request /\ Fits(pc[h], req[h])
    BY DEF Control, Typed, StoreTyped
  <1>r. Gone \in Stored /\ \A v \in Nat : Row("live", v) \in Stored
    BY DEF Gone, Row, Stored
  <1>m. \A v, w \in Nat : Newer(v, w) \in Nat
    BY DEF Newer
  <1>q. \A h \in Handlers : req[h].pw \in Nat /\ req[h].n \in Nat /\ req[h].secret \in Nat \cup {None}
    BY <1>t DEF Request
  <1>z. 0 \in 0..MaxFailedLogins
    BY PolicyAssumption
  <1>1. ASSUME Environment PROVE StoreTyped'
    <2>1. CASE \E c \in Ceremonies, purpose \in {"login", "register"} : NewCeremony(c, purpose)
      BY <2>1, <1>t DEF NewCeremony, StoreTyped
    <2>2. CASE \E s \in Sessions : EndSession(s)
      BY <2>2, <1>t, <1>r DEF EndSession, StoreTyped
    <2>3. CASE \E k \in Links : CreatePasswordToken(k)
      BY <2>3, <1>t DEF CreatePasswordToken, StoreTyped
    <2>4. CASE AdminUnlockUser \/ LockExpires
      <3>1. /\ UNCHANGED <<account, rows, edits, purged>> /\ failures' \in {0, failures}
            /\ locked' = FALSE /\ guesses' = 0
        BY <2>4 DEF AdminUnlockUser, LockExpires, Unlock
      <3> QED
        BY <3>1, <1>t, <1>z DEF StoreTyped
    <2>5. CASE Expire
      BY <2>5, <1>t, <1>r DEF Expire, StoreTyped
    <2> QED
      BY <1>1, <2>1, <2>2, <2>3, <2>4, <2>5 DEF Environment
  <1>2. ASSUME NEW h \in Handlers, Begins(h) PROVE StoreTyped'
    <2>1. CASE LoginSubmit(h) \/ \E c \in Challenges : MFASubmit(h, c)
      BY <2>1, <1>t DEF LoginSubmit, MFASubmit, StoreTyped
    <2>2. CASE \E c \in Ceremonies, uv \in BOOLEAN : PasskeyLoginFinish(h, c, uv)
      BY <2>2, <1>t DEF PasskeyLoginFinish, StoreTyped
    <2>3. CASE \E s \in Sessions : \/ \E l \in AccountPages : RequireUser(h, s, l, None)
                                   \/ \E c \in Ceremonies : RequireUser(h, s, "register", c)
      <3>1. UNCHANGED <<account, throttle, rows, purged>> /\ edits' = edits + 1
        BY <2>3 DEF RequireUser, Change
      <3> QED
        BY <3>1, <1>t DEF StoreTyped
    <2>4. CASE \/ \E k \in Links : SetPasswordSubmit(h, k)
               \/ AdminUserPassword(h) \/ AdminResetMFA(h) \/ AdminResetPasskeys(h)
      <3>1. UNCHANGED <<account, throttle, rows, purged>> /\ edits' = edits + 1
        BY <2>4 DEF SetPasswordSubmit, AdminUserPassword, AdminResetMFA, AdminResetPasskeys, Change
      <3> QED
        BY <3>1, <1>t DEF StoreTyped
    <2>5. CASE SetUserDisabled(h)
      BY <2>5, <1>t DEF SetUserDisabled, Change, StoreTyped
    <2> QED
      BY <1>2, <2>1, <2>2, <2>3, <2>4, <2>5 DEF Begins
  <1>3. ASSUME NEW h \in Handlers, Ends(h) PROVE StoreTyped'
    <2>1. CASE RecordFailedLogin(h)
      <3>1. failures' \in 0..MaxFailedLogins /\ guesses' \in Nat
        BY <2>1, <1>t, PolicyAssumption DEF RecordFailedLogin, StoreTyped
      <3>2. locked' \in BOOLEAN
        BY <2>1, <1>t DEF RecordFailedLogin, StoreTyped
      <3> QED
        BY <2>1, <1>t, <3>1, <3>2 DEF RecordFailedLogin, StoreTyped
    <2>2. CASE \/ \E c \in Challenges : CreateLoginChallenge(h, c)
               \/ \E s \in Sessions : CreateSession(h, s)
      <3>1. ASSUME NEW c \in Challenges, CreateLoginChallenge(h, c) PROVE StoreTyped'
        BY <3>1, <1>t, <1>r, <1>q DEF CreateLoginChallenge, StoreTyped
      <3>2. ASSUME NEW s \in Sessions, CreateSession(h, s) PROVE StoreTyped'
        <4>1. Row("live", Newer(req[h].pw, purged)) \in Stored
          BY <1>t, <1>r, <1>m, <1>q DEF StoreTyped
        <4> QED
          BY <3>2, <4>1, <1>t DEF CreateSession, StoreTyped
      <3> QED
        BY <2>2, <3>1, <3>2
    <2>3. CASE DeleteSessionsForUser(h)
      BY <2>3, <1>t, <1>r, <1>m, <1>q DEF DeleteSessionsForUser, StoreTyped
    <2>4. CASE \/ MFASetup(h) \/ ReplaceRecoveryCodes(h) \/ DeleteRecoveryCodes(h)
               \/ CreateWebAuthnCredential(h) \/ DeleteWebAuthnCredential(h) \/ Abandon(h)
      BY <2>4, <1>t, <1>q
         DEF MFASetup, ReplaceRecoveryCodes, DeleteRecoveryCodes, CreateWebAuthnCredential,
             DeleteWebAuthnCredential, Abandon, StoreTyped
    <2> QED
      BY <1>3, <2>1, <2>2, <2>3, <2>4 DEF Ends
  <1>4. ASSUME NEW h \in Handlers, Proceeds(h) PROVE StoreTyped'
    <2>1. CASE \/ \E right \in BOOLEAN : LookUp(h, right) \/ MFAUser(h, right) \/ PasskeyRead(h, right)
               \/ PasskeyUser(h) \/ PasskeyUsed(h) \/ Owner(h)
      <3>1. UNCHANGED <<account, throttle, rows, edits, purged>>
        BY <2>1 DEF LookUp, MFAUser, PasskeyRead, PasskeyUser, PasskeyUsed, Owner
      <3> QED
        BY <3>1, <1>t DEF StoreTyped
    <2>2. CASE ResetFailedLogins(h)
      <3>1. /\ UNCHANGED <<account, rows, edits, purged>>
            /\ (failures' = 0 /\ locked' = FALSE /\ guesses' = 0) \/ UNCHANGED throttle
        BY <2>2 DEF ResetFailedLogins, Unlock
      <3>2. failures' \in 0..MaxFailedLogins /\ guesses' \in Nat
        BY <3>1, <1>t, <1>z DEF StoreTyped
      <3>3. locked' \in BOOLEAN
        BY <3>1, <1>t, Zenon DEF StoreTyped
      <3> QED
        BY <3>1, <3>2, <3>3, <1>t DEF StoreTyped
    <2>3. CASE \E r \in Versions : ConsumeRecoveryCode(h, r)
      BY <2>3, <1>t DEF ConsumeRecoveryCode, StoreTyped
    <2>4. CASE DeleteLoginChallenge(h) \/ \E s \in Sessions \cup {None} : DeleteSession(h, s)
      BY <2>4, <1>t, <1>r DEF DeleteLoginChallenge, DeleteSession, StoreTyped
    <2>5. CASE ConsumePasswordToken(h) \/ DeletePasswordTokensForUser(h)
      BY <2>5, <1>t DEF ConsumePasswordToken, DeletePasswordTokensForUser, StoreTyped
    <2>6. CASE SetUserPassword(h)
      <3>1. \A s \in Sessions : [session EXCEPT ![s].pw = password + 1] \in [Sessions -> Stored]
        BY <1>t DEF StoreTyped, Stored
      <3> QED
        BY <2>6, <1>t, <3>1 DEF SetUserPassword, StoreTyped
    <2>7. CASE MFAEnable(h) \/ MFADisable(h) \/ PasskeyRegisterFinish(h)
      BY <2>7, <1>t, <1>q DEF MFAEnable, MFADisable, PasskeyRegisterFinish, StoreTyped
    <2> HIDE DEF account, throttle, rows, ledger
    <2> QED
      BY <1>4, <2>1, <2>2, <2>3, <2>4, <2>5, <2>6, <2>7 DEF Proceeds
  <1> QED
    BY <1>1, <1>2, <1>3, <1>4, StepCases

LEMMA ControlStep == ASSUME Control, [Next]_vars PROVE Control'
  <1>1. CASE Next
    <2>1. fit' \in [Handlers -> BOOLEAN] /\ keyed' \in [Handlers -> BOOLEAN]
      BY <1>1 DEF Next, Remember, Control, Typed, StoreTyped
    <2> QED
      BY <1>1, <2>1, HandlersFit, StoreStep DEF Next, Control, Typed, StoreTyped
  <1>2. CASE UNCHANGED vars
    BY <1>2 DEF vars, Control, Typed, StoreTyped, Fits
  <1> QED
    BY <1>1, <1>2

LEMMA ControlInit == Init => Control
  <1> SUFFICES ASSUME Init PROVE Control
    OBVIOUS
  <1>1. Unborn \in Stored /\ Row("live", 0) \in Stored
    BY DEF Unborn, Row, Stored
  <1>2. Typed
    <2>1. session \in [Sessions -> Stored] /\ challenge \in [Challenges -> Stored]
      BY <1>1 DEF Init
    <2>2. mfa \in BOOLEAN /\ passkey \in BOOLEAN
      BY Zenon DEF Init
    <2>3. recovery \subseteq Nat
      BY DEF Init
    <2>4. pc \in [Handlers -> PCs] /\ req \in [Handlers -> Request]
      BY NoParamsTyped DEF Init, PCs
    <2>5. /\ password = 0 /\ disabled = FALSE /\ failures = 0 /\ locked = FALSE /\ guesses = 0
          /\ secret \in {0, None} /\ edits = 0 /\ purged = 0
          /\ link = [k \in Links |-> "new"] /\ ceremony = [c \in Ceremonies |-> "new"]
          /\ fit = [h \in Handlers |-> FALSE] /\ keyed = [h \in Handlers |-> FALSE]
      BY DEF Init
    <2>6. 0 \in 0..MaxFailedLogins
      BY PolicyAssumption
    <2>7. /\ link \in [Links -> {"new", "valid", "used", "gone"}]
          /\ ceremony \in [Ceremonies -> {"new", "login", "register", "gone"}]
          /\ password \in Nat /\ failures \in 0..MaxFailedLogins /\ guesses \in Nat
          /\ secret \in Nat \cup {None} /\ edits \in Nat /\ purged \in Nat
      BY <2>5, <2>6
    <2>8. /\ disabled \in BOOLEAN /\ locked \in BOOLEAN
          /\ fit \in [Handlers -> BOOLEAN] /\ keyed \in [Handlers -> BOOLEAN]
      BY <2>5, Zenon
    <2> QED
      BY <2>1, <2>2, <2>3, <2>4, <2>7, <2>8, Zenon DEF Typed, StoreTyped
  <1> QED
    BY <1>2, NoParamsTyped DEF Init, Control, Fits

\* Where a handler stands that has begun a request.
LEMMA BeginsAt ==
  ASSUME Control, NEW h \in Handlers, Begins(h)
  PROVE  \/ UNCHANGED <<pc, req>>
         \/ pc'[h] \in {"lookup", "mfaUser", "keyUser", "owner", "consume", "setPassword",
                        "disableMFA", "unregister", "endSessions"}
  <1>1. pc \in [Handlers -> PCs]
    BY DEF Control, Typed, StoreTyped
  <1>2. \A l, q : Become(h, l, q) => pc'[h] = l
    BY <1>1 DEF Become
  <1>3. \/ UNCHANGED <<pc, req>>
        \/ \E l \in {"lookup", "mfaUser", "keyUser", "owner", "consume", "setPassword",
                     "disableMFA", "unregister", "endSessions"} : \E q : Become(h, l, q)
    BY DEF Begins, LoginSubmit, MFASubmit, PasskeyLoginFinish, RequireUser,
           SetPasswordSubmit, AdminUserPassword, SetUserDisabled, AdminResetMFA,
           AdminResetPasskeys, Change, Start
  <1> QED
    BY <1>2, <1>3

\* By which step a handler gets where.
LEMMA ProceedsAt ==
  ASSUME Control, NEW h \in Handlers, Proceeds(h)
  PROVE  \/ Owner(h)
         \/ pc'[h] \in {"setPassword", "idle"} /\ ConsumePasswordToken(h)
         \/ pc'[h] = "replaceCodes" /\ MFAEnable(h)
         \/ pc'[h] \in {"dropLinks", "endSessions"} /\ SetUserPassword(h)
         \/ pc'[h] = "endSessions" /\ DeletePasswordTokensForUser(h)
         \/ pc'[h] = "dropCodes" /\ MFADisable(h)
         \/ pc'[h] \in {"store", "idle"} /\ PasskeyRegisterFinish(h)
         \/ pc'[h] \in SignIn \cup {"idle"} /\ pc[h] \in SignIn
  <1>t. pc \in [Handlers -> PCs] /\ Fits(pc[h], req[h])
    BY DEF Control, Typed, StoreTyped
  <1>1. \A l, q : Become(h, l, q) => pc'[h] = l
    BY <1>t DEF Become
  <1>2. \A l : Goto(h, l) => pc'[h] = l
    BY <1>t DEF Goto
  <1>3. Return(h) => pc'[h] = "idle"
    BY <1>1 DEF Return
  <1>4. CASE SetUserPassword(h)
    BY <1>4, <1>1, <1>t DEF SetUserPassword, Fits
  <1>5. CASE \E right \in BOOLEAN : LookUp(h, right) \/ MFAUser(h, right) \/ PasskeyRead(h, right)
    BY <1>5, <1>1, <1>2, <1>3 DEF LookUp, MFAUser, PasskeyRead, SignIn
  <1>6. CASE \/ ResetFailedLogins(h) \/ PasskeyUser(h) \/ PasskeyUsed(h)
             \/ \E r \in Versions : ConsumeRecoveryCode(h, r)
             \/ DeleteLoginChallenge(h) \/ \E s \in Sessions \cup {None} : DeleteSession(h, s)
    BY <1>6, <1>1, <1>2, <1>3 DEF ResetFailedLogins, PasskeyUser, PasskeyUsed, Proceed,
                ConsumeRecoveryCode, DeleteLoginChallenge, DeleteSession, SignIn
  <1>7. CASE \/ ConsumePasswordToken(h) \/ DeletePasswordTokensForUser(h)
             \/ MFAEnable(h) \/ MFADisable(h) \/ PasskeyRegisterFinish(h)
    BY <1>7, <1>2, <1>3 DEF ConsumePasswordToken, DeletePasswordTokensForUser, MFAEnable,
                MFADisable, PasskeyRegisterFinish
  <1> QED
    BY <1>4, <1>5, <1>6, <1>7 DEF Proceeds

\* No step moves two handlers.
LEMMA OneMoves ==
  ASSUME Control, Step, NEW g \in Handlers, NEW h \in Handlers, g # h
  PROVE  \/ pc'[g] = pc[g] /\ req'[g] = req[g]
         \/ pc'[h] = pc[h] /\ req'[h] = req[h]
  <1>t. pc \in [Handlers -> PCs] /\ req \in [Handlers -> Request]
    BY DEF Control, Typed, StoreTyped
  <1>1. CASE Environment
    BY <1>1, EnvironmentKeeps
  <1>2. ASSUME NEW f \in Handlers, Begins(f) \/ Proceeds(f) \/ Ends(f)
        PROVE  UNCHANGED <<pc, req>> \/ \E l, q : Become(f, l, q)
    BY <1>2, BeginsFits, ProceedsFits, EndsReturn DEF Return
  <1> QED
    BY <1>t, <1>1, <1>2, StepCases DEF Become

-----------------------------------------------------------------------------
(* The stored TOTP secret.                                                 *)

\* Only the MFA pages write the secret and the flag, and only Owner's check of
\* a code confirms a secret.
LEMMA SecretWriters ==
  ASSUME Step
  PROVE  \/ UNCHANGED <<mfa, secret, confirmed>>
         \/ \E g \in Handlers : Owner(g) \/ MFASetup(g) \/ MFAEnable(g) \/ MFADisable(g)
  <1> USE DEF account, ledger
  <1>1. ASSUME Environment PROVE UNCHANGED <<mfa, secret, confirmed>>
    BY <1>1 DEF Environment, NewCeremony, EndSession, CreatePasswordToken, AdminUnlockUser,
                LockExpires, Expire
  <1>2. ASSUME NEW g \in Handlers, Begins(g) PROVE UNCHANGED <<mfa, secret, confirmed>>
    BY <1>2 DEF Begins, LoginSubmit, MFASubmit, PasskeyLoginFinish, RequireUser,
                SetPasswordSubmit, AdminUserPassword, SetUserDisabled, AdminResetMFA,
                AdminResetPasskeys
  <1>3. ASSUME NEW g \in Handlers, Ends(g)
        PROVE  MFASetup(g) \/ UNCHANGED <<mfa, secret, confirmed>>
    BY <1>3 DEF Ends, RecordFailedLogin, CreateLoginChallenge, CreateSession,
                DeleteSessionsForUser, ReplaceRecoveryCodes, DeleteRecoveryCodes,
                CreateWebAuthnCredential, DeleteWebAuthnCredential, Abandon
  <1>4. ASSUME NEW g \in Handlers, Proceeds(g)
        PROVE  Owner(g) \/ MFAEnable(g) \/ MFADisable(g) \/ UNCHANGED <<mfa, secret, confirmed>>
    BY <1>4 DEF Proceeds, LookUp, MFAUser, PasskeyRead, ResetFailedLogins, ConsumeRecoveryCode,
                DeleteLoginChallenge, PasskeyUser, PasskeyUsed, DeleteSession,
                ConsumePasswordToken, SetUserPassword, DeletePasswordTokensForUser,
                PasskeyRegisterFinish
  <1> QED
    BY <1>1, <1>2, <1>3, <1>4, StepCases

LEMMA SecretStep == ASSUME Control, SecretInv, [Next]_vars PROVE SecretInv'
  <1>1. CASE UNCHANGED vars
    BY <1>1 DEF vars, SecretInv
  <1>2. CASE Step
    <2>t. pc \in [Handlers -> PCs] /\ req \in [Handlers -> Request]
      BY DEF Control, Typed, StoreTyped
    <2>1. confirmed \subseteq confirmed'
      BY <1>2, SecretWriters DEF Owner, MFASetup, MFAEnable, MFADisable, ledger
    <2>2. mfa' => secret' \in confirmed'
      BY <1>2, <2>1, SecretWriters
         DEF Owner, MFASetup, MFAEnable, MFADisable, account, ledger, SecretInv
    <2>3. ASSUME NEW h \in Handlers, pc'[h] = "enable" PROVE req'[h].secret \in confirmed'
      <3>1. CASE Owner(h)
        <4>1. ~Return(h)
          BY <2>3, <2>t DEF Return, Become
        <4>2. /\ pc'[h] = req[h].then
              /\ req'[h] = [req[h] EXCEPT !.secret = IF req[h].then = "enable" THEN secret ELSE None,
                              !.then = IF req[h].then = "setPassword" THEN "endSessions" ELSE "idle"]
              /\ confirmed' = IF req[h].then = "enable" THEN confirmed \cup {secret} ELSE confirmed
          BY <2>t, <3>1, <4>1 DEF Owner, Become
        <4> QED
          BY <2>3, <2>t, <4>2 DEF Request
      <3>2. CASE ~Owner(h)
        BY <1>2, <2>1, <2>3, <3>2, Moves, BeginsAt, ProceedsAt, NoParamsTyped DEF SecretInv, SignIn
      <3> QED
        BY <3>1, <3>2
    <2> QED
      BY <2>2, <2>3 DEF SecretInv
  <1> QED
    BY <1>1, <1>2 DEF Next

-----------------------------------------------------------------------------
(* Things that work once.                                                  *)

\* What takes effect as a one-time thing, and what the same step does to it.
LEMMA Spenders ==
  ASSUME Control, Step
  PROVE  \/ UNCHANGED <<used, twice>>
         \/ \E c \in Ceremonies : /\ ceremony[c] # "gone" /\ ceremony'[c] = "gone"
                                  /\ Spend(<<"ceremony", c>>)
         \/ \E r \in Nat : /\ r \in recovery /\ recovery' = recovery \ {r}
                           /\ Spend(<<"code", r>>)
         \/ \E g \in Handlers : /\ SetUserPassword(g) /\ req[g].on \in Links
                                /\ Spend(<<"link", req[g].on>>)
  <1> USE DEF ledger
  <1>t. /\ ceremony \in [Ceremonies -> {"new", "login", "register", "gone"}]
        /\ \A h \in Handlers : Fits(pc[h], req[h])
    BY DEF Control, Typed, StoreTyped
  <1>1. ASSUME Environment PROVE UNCHANGED <<used, twice>>
    BY <1>1 DEF Environment, NewCeremony, EndSession, CreatePasswordToken, AdminUnlockUser,
                LockExpires, Expire
  <1>2. ASSUME NEW g \in Handlers, Begins(g)
        PROVE  \/ UNCHANGED <<used, twice>>
               \/ \E c \in Ceremonies : /\ ceremony[c] # "gone" /\ ceremony'[c] = "gone"
                                        /\ Spend(<<"ceremony", c>>)
    <2>1. ASSUME NEW c \in Ceremonies, NEW uv \in BOOLEAN, PasskeyLoginFinish(g, c, uv)
          PROVE  \/ UNCHANGED <<used, twice>>
                 \/ ceremony[c] # "gone" /\ ceremony'[c] = "gone" /\ Spend(<<"ceremony", c>>)
      BY <1>t, <2>1 DEF PasskeyLoginFinish
    <2> QED
      BY <1>2, <2>1 DEF Begins, LoginSubmit, MFASubmit, RequireUser,
                SetPasswordSubmit, AdminUserPassword, SetUserDisabled, AdminResetMFA,
                AdminResetPasskeys
  <1>3. ASSUME NEW g \in Handlers, Ends(g) PROVE UNCHANGED <<used, twice>>
    BY <1>3 DEF Ends, RecordFailedLogin, CreateLoginChallenge, CreateSession,
                DeleteSessionsForUser, MFASetup, ReplaceRecoveryCodes, DeleteRecoveryCodes,
                CreateWebAuthnCredential, DeleteWebAuthnCredential, Abandon
  <1>4. ASSUME NEW g \in Handlers, PasskeyRegisterFinish(g)
        PROVE  \/ UNCHANGED <<used, twice>>
               \/ \E c \in Ceremonies : /\ ceremony[c] # "gone" /\ ceremony'[c] = "gone"
                                        /\ Spend(<<"ceremony", c>>)
    <2>1. req[g].on \in Ceremonies
      BY <1>t, <1>4 DEF PasskeyRegisterFinish, Fits
    <2> QED
      BY <1>t, <1>4, <2>1 DEF PasskeyRegisterFinish
  <1>5. ASSUME NEW g \in Handlers, NEW r \in Versions, ConsumeRecoveryCode(g, r)
        PROVE  \/ UNCHANGED <<used, twice>>
               \/ r \in Nat /\ r \in recovery /\ recovery' = recovery \ {r} /\ Spend(<<"code", r>>)
    BY <1>5, EditsAssumption DEF ConsumeRecoveryCode, Versions
  <1>6. ASSUME NEW g \in Handlers, SetUserPassword(g)
        PROVE  \/ UNCHANGED <<used, twice>>
               \/ req[g].on \in Links /\ Spend(<<"link", req[g].on>>)
    BY <1>6 DEF SetUserPassword
  <1>7. ASSUME NEW g \in Handlers, Proceeds(g)
        PROVE  \/ UNCHANGED <<used, twice>>
               \/ PasskeyRegisterFinish(g) \/ SetUserPassword(g)
               \/ \E r \in Versions : ConsumeRecoveryCode(g, r)
    BY <1>7 DEF Proceeds, LookUp, MFAUser, PasskeyRead, ResetFailedLogins,
                DeleteLoginChallenge, PasskeyUser, PasskeyUsed, DeleteSession,
                ConsumePasswordToken, DeletePasswordTokensForUser, Owner, MFAEnable, MFADisable
  <1> QED
    BY <1>1, <1>2, <1>3, <1>4, <1>5, <1>6, <1>7, StepCases

\* What was used up stays so.
LEMMA SpentStays ==
  ASSUME Control, Step
  PROVE  /\ \A c \in Ceremonies : ceremony[c] = "gone" => ceremony'[c] = "gone"
         /\ \A k \in Links : link[k] \in {"used", "gone"} => link'[k] \in {"used", "gone"}
  <1> USE DEF rows
  <1>t. /\ ceremony \in [Ceremonies -> {"new", "login", "register", "gone"}]
        /\ link \in [Links -> {"new", "valid", "used", "gone"}]
        /\ \A h \in Handlers : Fits(pc[h], req[h])
    BY DEF Control, Typed, StoreTyped
  <1> DEFINE Stay == /\ \A c \in Ceremonies : ceremony[c] = "gone" => ceremony'[c] = "gone"
                     /\ \A k \in Links : link[k] \in {"used", "gone"} => link'[k] \in {"used", "gone"}
  <1>0. UNCHANGED <<link, ceremony>> => Stay
    OBVIOUS
  <1>1. ASSUME Environment PROVE Stay
    <2>1. CASE Expire
      BY <1>t, <2>1 DEF Expire
    <2>2. CASE \E c \in Ceremonies, purpose \in {"login", "register"} : NewCeremony(c, purpose)
      BY <1>t, <2>2 DEF NewCeremony
    <2>3. CASE \E k \in Links : CreatePasswordToken(k)
      BY <1>t, <2>3 DEF CreatePasswordToken
    <2>4. CASE AdminUnlockUser \/ LockExpires \/ \E s \in Sessions : EndSession(s)
      BY <1>0, <2>4 DEF AdminUnlockUser, LockExpires, EndSession
    <2> QED
      BY <1>1, <2>1, <2>2, <2>3, <2>4 DEF Environment
  <1>2. ASSUME NEW g \in Handlers, Begins(g) PROVE Stay
    <2>1. ASSUME NEW c \in Ceremonies, NEW uv \in BOOLEAN, PasskeyLoginFinish(g, c, uv) PROVE Stay
      BY <1>t, <2>1 DEF PasskeyLoginFinish
    <2>2. CASE ~\E c \in Ceremonies, uv \in BOOLEAN : PasskeyLoginFinish(g, c, uv)
      <3>1. UNCHANGED <<link, ceremony>>
        BY <1>2, <2>2 DEF Begins, LoginSubmit, MFASubmit, RequireUser, SetPasswordSubmit,
                AdminUserPassword, SetUserDisabled, AdminResetMFA, AdminResetPasskeys
      <3> QED
        BY <1>0, <3>1
    <2> QED
      BY <2>1, <2>2
  <1>3. ASSUME NEW g \in Handlers, Ends(g) PROVE Stay
    <2>1. UNCHANGED <<link, ceremony>>
      BY <1>3 DEF Ends, RecordFailedLogin, CreateLoginChallenge, CreateSession,
                DeleteSessionsForUser, MFASetup, ReplaceRecoveryCodes, DeleteRecoveryCodes,
                CreateWebAuthnCredential, DeleteWebAuthnCredential, Abandon
    <2> QED
      BY <1>0, <2>1
  <1>4. ASSUME NEW g \in Handlers, Proceeds(g) PROVE Stay
    <2>1. CASE PasskeyRegisterFinish(g)
      BY <1>t, <2>1 DEF PasskeyRegisterFinish
    <2>2. CASE ConsumePasswordToken(g)
      BY <1>t, <2>2 DEF ConsumePasswordToken, Fits
    <2>3. CASE DeletePasswordTokensForUser(g)
      BY <1>t, <2>3 DEF DeletePasswordTokensForUser
    <2>4. CASE ~(PasskeyRegisterFinish(g) \/ ConsumePasswordToken(g) \/ DeletePasswordTokensForUser(g))
      <3>1. UNCHANGED <<link, ceremony>>
        BY <1>4, <2>4 DEF Proceeds, LookUp, MFAUser, PasskeyRead, ResetFailedLogins,
                ConsumeRecoveryCode, DeleteLoginChallenge, PasskeyUser, PasskeyUsed, DeleteSession,
                SetUserPassword, Owner, MFAEnable, MFADisable
      <3> QED
        BY <1>0, <3>1
    <2> QED
      BY <2>1, <2>2, <2>3, <2>4
  <1> HIDE DEF Stay
  <1>5. Stay
    BY <1>1, <1>2, <1>3, <1>4, StepCases
  <1> QED
    BY <1>5 DEF Stay

\* A handler owns a link from the step that found it valid.
LEMMA LinkedFrom ==
  ASSUME Control, Step, NEW h \in Handlers, Linked(h)'
  PROVE  \/ Linked(h) /\ req'[h] = req[h]
         \/ /\ ConsumePasswordToken(h) /\ req'[h] = req[h]
            /\ link[req[h].on] = "valid" /\ link'[req[h].on] = "used"
  <1>t. /\ pc \in [Handlers -> PCs] /\ req \in [Handlers -> Request] /\ Fits(pc[h], req[h])
        /\ link \in [Links -> {"new", "valid", "used", "gone"}]
    BY DEF Control, Typed, StoreTyped
  <1>0. pc'[h] = "setPassword" /\ req'[h].on \in Links
    BY DEF Linked
  <1>1. CASE pc'[h] = pc[h] /\ req'[h] = req[h]
    BY <1>0, <1>1 DEF Linked
  <1>2. CASE Begins(h) /\ ~UNCHANGED <<pc, req>>
    <2>1. \A l, q : Become(h, l, q) => pc'[h] = l /\ req'[h] = q
      BY <1>t DEF Become
    <2>2. AdminUserPassword(h)
      <3>1. \/ AdminUserPassword(h)
            \/ \E l \in PCs \ {"setPassword"} : \E q : Become(h, l, q)
        BY <1>2
           DEF Begins, LoginSubmit, MFASubmit, PasskeyLoginFinish, RequireUser, SetPasswordSubmit,
               SetUserDisabled, AdminResetMFA, AdminResetPasskeys, Change, Start, PCs, SignIn, Changes
      <3> QED
        BY <1>0, <2>1, <3>1
    <2>3. req'[h] = [NoParams EXCEPT !.then = "endSessions"]
      BY <2>1, <2>2 DEF AdminUserPassword, Change, Start
    <2>4. req'[h].on = None
      BY <2>3, NoParamsTyped DEF Request
    <2> QED
      BY <1>0, <2>4, NoneAssumption
  <1>3. CASE Owner(h)
    <2>1. ~Return(h)
      BY <1>0, <1>t DEF Return, Become
    <2>2. /\ pc'[h] = req[h].then
          /\ req'[h] = [req[h] EXCEPT !.secret = IF req[h].then = "enable" THEN secret ELSE None,
                          !.then = IF req[h].then = "setPassword" THEN "endSessions" ELSE "idle"]
      BY <1>t, <1>3, <2>1 DEF Owner, Become
    <2>3. req'[h].on = req[h].on /\ req[h].on = None
      BY <1>t, <1>0, <1>3, <2>2 DEF Owner, Fits, Request
    <2> QED
      BY <1>0, <2>3, NoneAssumption
  <1>4. CASE ConsumePasswordToken(h)
    <2>1. req[h].on \in Links
      BY <1>t, <1>4 DEF ConsumePasswordToken, Fits
    <2> QED
      BY <1>0, <1>t, <1>4, <2>1 DEF ConsumePasswordToken, Return, Become, Goto
  <1> QED
    BY <1>0, <1>1, <1>2, <1>3, <1>4, Moves, ProceedsAt DEF SignIn

\* A handler that is going to store recovery codes has numbered them when it
\* began, after every code there had been.
LEMMA CodingFrom ==
  ASSUME Control, Step, NEW h \in Handlers, Coding(h)'
  PROVE  \/ Coding(h) /\ req'[h].n = req[h].n
         \/ /\ pc'[h] # pc[h] /\ req'[h].n = edits + 1 /\ edits' = edits + 1
            /\ UNCHANGED <<recovery, used>>
  <1>t. /\ pc \in [Handlers -> PCs] /\ req \in [Handlers -> Request] /\ Fits(pc[h], req[h])
        /\ edits \in Nat
    BY DEF Control, Typed, StoreTyped
  <1>0. \/ pc'[h] = "owner" /\ req'[h].then = "enable"
        \/ pc'[h] \in {"enable", "replaceCodes"}
    BY DEF Coding
  <1>1. CASE pc'[h] = pc[h] /\ req'[h] = req[h]
    BY <1>0, <1>1 DEF Coding
  <1>2. CASE Begins(h) /\ ~UNCHANGED <<pc, req>>
    <2>1. \A l, q : Become(h, l, q) => pc'[h] = l /\ req'[h] = q
      BY <1>t DEF Become
    <2>2. pc'[h] = "owner" /\ req'[h].then = "enable"
      BY <1>0, <1>2, BeginsAt
    <2>3. PICK s \in Sessions, l \in AccountPages \cup {"register"}, x \in Ceremonies \cup {None} :
                RequireUser(h, s, l, x)
      <3>1. \/ \E s \in Sessions : \/ \E l \in AccountPages : RequireUser(h, s, l, None)
                                   \/ \E c \in Ceremonies : RequireUser(h, s, "register", c)
            \/ \E l \in PCs \ {"owner"} : \E q : Become(h, l, q)
        BY <1>2
           DEF Begins, LoginSubmit, MFASubmit, PasskeyLoginFinish, AdminUserPassword,
               SetPasswordSubmit, SetUserDisabled, AdminResetMFA, AdminResetPasskeys,
               Change, Start, PCs, SignIn, Changes
      <3> QED
        BY <2>1, <2>2, <3>1
    <2> DEFINE n == IF Kind(l) = "mfa" THEN edits + 1 ELSE 0
    <2>4. /\ req'[h] = [NoParams EXCEPT !.by = s, !.then = l, !.on = x, !.n = n]
          /\ pc[h] = "idle" /\ edits' = edits + 1 /\ UNCHANGED <<recovery, used>>
      BY <2>1, <2>3 DEF RequireUser, Change, Start, account, ledger
    <2> HIDE DEF n
    <2>5. req'[h].then = l /\ req'[h].n = n
      BY <2>4, NoParamsTyped DEF Request
    <2>6. n = edits + 1
      BY <2>2, <2>5 DEF n, Kind
    <2> QED
      BY <2>2, <2>4, <2>5, <2>6
  <1>3. CASE Owner(h)
    <2>1. ~Return(h)
      BY <1>0, <1>t DEF Return, Become
    <2>2. /\ pc'[h] = req[h].then
          /\ req'[h] = [req[h] EXCEPT !.secret = IF req[h].then = "enable" THEN secret ELSE None,
                          !.then = IF req[h].then = "setPassword" THEN "endSessions" ELSE "idle"]
      BY <1>t, <1>3, <2>1 DEF Owner, Become
    <2>3. req'[h].n = req[h].n
      BY <1>t, <2>2 DEF Request
    <2>4. req[h].then = "enable"
      BY <1>0, <1>t, <1>3, <2>2 DEF Owner, Fits, AccountPages
    <2> QED
      BY <1>3, <2>3, <2>4 DEF Owner, Coding
  <1>4. CASE MFAEnable(h)
    BY <1>t, <1>4 DEF MFAEnable, Goto, Coding
  <1>5. CASE Proceeds(h)
    BY <1>0, <1>3, <1>4, <1>5, ProceedsAt DEF SignIn
  <1>6. CASE pc'[h] = "idle"
    BY <1>0, <1>6
  <1>7. CASE UNCHANGED <<pc, req>>
    BY <1>1, <1>7
  <1> QED
    BY <1>1, <1>2, <1>5, <1>6, <1>7, Moves

\* Only these write the recovery codes.
LEMMA CodeWriters ==
  ASSUME Step
  PROVE  \/ UNCHANGED recovery
         \/ recovery' = {} 
         \/ \E g \in Handlers : ReplaceRecoveryCodes(g)
         \/ \E g \in Handlers, r \in Versions : ConsumeRecoveryCode(g, r)
  <1> USE DEF account
  <1>1. ASSUME Environment PROVE UNCHANGED recovery
    BY <1>1 DEF Environment, NewCeremony, EndSession, CreatePasswordToken, AdminUnlockUser,
                LockExpires, Expire
  <1>2. ASSUME NEW g \in Handlers, Begins(g) PROVE UNCHANGED recovery
    BY <1>2 DEF Begins, LoginSubmit, MFASubmit, PasskeyLoginFinish, RequireUser,
                SetPasswordSubmit, AdminUserPassword, SetUserDisabled, AdminResetMFA,
                AdminResetPasskeys
  <1>3. ASSUME NEW g \in Handlers, Ends(g)
        PROVE  ReplaceRecoveryCodes(g) \/ UNCHANGED recovery \/ recovery' = {}
    BY <1>3 DEF Ends, RecordFailedLogin, CreateLoginChallenge, CreateSession,
                DeleteSessionsForUser, MFASetup, DeleteRecoveryCodes,
                CreateWebAuthnCredential, DeleteWebAuthnCredential, Abandon
  <1>4. ASSUME NEW g \in Handlers, Proceeds(g)
        PROVE  UNCHANGED recovery \/ \E r \in Versions : ConsumeRecoveryCode(g, r)
    BY <1>4 DEF Proceeds, LookUp, MFAUser, PasskeyRead, ResetFailedLogins,
                DeleteLoginChallenge, PasskeyUser, PasskeyUsed, DeleteSession,
                ConsumePasswordToken, SetUserPassword, DeletePasswordTokensForUser,
                Owner, MFAEnable, MFADisable, PasskeyRegisterFinish
  <1> QED
    BY <1>1, <1>2, <1>3, <1>4, StepCases

LEMMA EditsGrow == Step => edits' = edits \/ edits' = edits + 1
  <1>1. Environment => UNCHANGED edits
    BY DEF Environment, NewCeremony, EndSession, CreatePasswordToken, AdminUnlockUser,
           LockExpires, Expire
  <1>2. ASSUME NEW g \in Handlers, Begins(g) PROVE edits' = edits \/ edits' = edits + 1
    BY <1>2 DEF Begins, LoginSubmit, MFASubmit, PasskeyLoginFinish, RequireUser,
                SetPasswordSubmit, AdminUserPassword, SetUserDisabled, AdminResetMFA,
                AdminResetPasskeys, Change
  <1>3. ASSUME NEW g \in Handlers, Ends(g) PROVE UNCHANGED edits
    BY <1>3 DEF Ends, RecordFailedLogin, CreateLoginChallenge, CreateSession,
                DeleteSessionsForUser, MFASetup, ReplaceRecoveryCodes, DeleteRecoveryCodes,
                CreateWebAuthnCredential, DeleteWebAuthnCredential, Abandon
  <1>4. ASSUME NEW g \in Handlers, Proceeds(g) PROVE UNCHANGED edits
    BY <1>4 DEF Proceeds, LookUp, MFAUser, PasskeyRead, ResetFailedLogins, ConsumeRecoveryCode,
                DeleteLoginChallenge, PasskeyUser, PasskeyUsed, DeleteSession,
                ConsumePasswordToken, SetUserPassword, DeletePasswordTokensForUser,
                Owner, MFAEnable, MFADisable, PasskeyRegisterFinish
  <1> QED
    BY <1>1, <1>2, <1>3, <1>4, StepCases

LEMMA OnceStep == ASSUME Control, OnceInv, [Next]_vars PROVE OnceInv'
  <1>1. CASE UNCHANGED vars
    BY <1>1 DEF vars, OnceInv, Linked, Coding
  <1>2. CASE Step
    <2>t. /\ pc \in [Handlers -> PCs] /\ req \in [Handlers -> Request] /\ edits \in Nat
          /\ recovery \subseteq Nat
          /\ \A h \in Handlers : req[h].n \in Nat /\ Fits(pc[h], req[h])
      BY DEF Control, Typed, StoreTyped, Request
    <2>u. \A h \in Handlers : req'[h].n \in Nat
      BY <1>2, HandlersFit DEF Request
    \* What is spent was not spent before.
    <2>1. twice' = {}
      <3>1. ASSUME NEW x, x \notin used, Spend(x) PROVE twice' = {}
        BY <3>1 DEF Spend, OnceInv
      <3>2. ASSUME NEW g \in Handlers, SetUserPassword(g), req[g].on \in Links
            PROVE  <<"link", req[g].on>> \notin used
        BY <3>2 DEF SetUserPassword, Linked, OnceInv
      <3> QED
        BY <1>2, <3>1, <3>2, Spenders DEF OnceInv
    <2>2. \A x : x \in used' => \/ x \in used
                                \/ \E c \in Ceremonies : x = <<"ceremony", c>> /\ ceremony'[c] = "gone"
                                \/ \E r \in recovery : /\ x = <<"code", r>>
                                                       /\ recovery' = recovery \ {r}
                                \/ \E g \in Handlers : /\ SetUserPassword(g) /\ Linked(g)
                                                       /\ x = <<"link", req[g].on>>
      BY <1>2, Spenders DEF Spend, SetUserPassword, Linked
    <2>3. \A c \in Ceremonies : <<"ceremony", c>> \in used' => ceremony'[c] = "gone"
      BY <1>2, <2>2, SpentStays DEF OnceInv
    <2>4. \A k \in Links : <<"link", k>> \in used' => link'[k] \in {"used", "gone"}
      BY <1>2, <2>2, SpentStays DEF OnceInv, Linked
    <2>5. ASSUME NEW h \in Handlers, Linked(h)'
          PROVE  <<"link", req'[h].on>> \notin used' /\ link'[req'[h].on] \in {"used", "gone"}
      <3>1. CASE Linked(h) /\ req'[h] = req[h]
        <4>1. <<"link", req[h].on>> \notin used /\ link'[req[h].on] \in {"used", "gone"}
          BY <1>2, <3>1, SpentStays DEF OnceInv, Linked
        <4>2. ASSUME NEW g \in Handlers, SetUserPassword(g), Linked(g) PROVE req[g].on # req[h].on
          <5>1. pc'[g] \in {"dropLinks", "endSessions"}
            BY <2>t, <4>2 DEF SetUserPassword, Fits, Become
          <5>2. g # h
            BY <2>5, <5>1 DEF Linked
          <5> QED
            BY <3>1, <4>2, <5>2 DEF OnceInv
        <4> QED
          BY <2>2, <3>1, <4>1, <4>2
      <3>2. CASE /\ ConsumePasswordToken(h) /\ req'[h] = req[h]
                 /\ link[req[h].on] = "valid" /\ link'[req[h].on] = "used"
        <4>1. used' = used
          BY <3>2 DEF ConsumePasswordToken, ledger
        <4>2. <<"link", req[h].on>> \notin used
          BY <2>t, <3>2 DEF OnceInv, ConsumePasswordToken, Fits
        <4> QED
          BY <3>2, <4>1, <4>2
      <3> QED
        BY <1>2, <2>5, <3>1, <3>2, LinkedFrom
    <2>6. ASSUME NEW g \in Handlers, NEW h \in Handlers, g # h, Linked(g)', Linked(h)'
          PROVE  req'[g].on # req'[h].on
      <3>1. ASSUME NEW a \in Handlers, NEW b \in Handlers, a # b, Linked(a), req'[a] = req[a],
                   ConsumePasswordToken(b), req'[b] = req[b], link[req[b].on] = "valid"
            PROVE  req'[a].on # req'[b].on
        BY <3>1 DEF OnceInv
      <3>2. ~(ConsumePasswordToken(g) /\ ConsumePasswordToken(h))
        <4>1. SUFFICES ASSUME ConsumePasswordToken(g), ConsumePasswordToken(h) PROVE FALSE
          OBVIOUS
        <4>2. pc[g] = "consume" /\ pc[h] = "consume" /\ pc'[g] # "consume" /\ pc'[h] # "consume"
          BY <4>1, <2>6 DEF ConsumePasswordToken, Linked
        <4> QED
          BY <1>2, <2>6, <4>2, OneMoves
      <3>3. CASE Linked(g) /\ req'[g] = req[g] /\ Linked(h) /\ req'[h] = req[h]
        BY <2>6, <3>3 DEF OnceInv
      <3> QED
        BY <1>2, <2>6, <3>1, <3>2, <3>3, LinkedFrom
    <2>7. \A r \in recovery' : r <= edits' /\ <<"code", r>> \notin used'
      <3>1. ASSUME NEW r \in recovery PROVE r <= edits' /\ <<"code", r>> \notin used
        BY <1>2, <2>t, <3>1, EditsGrow DEF OnceInv
      <3>2. CASE recovery' \subseteq recovery
        <4>1. ASSUME NEW r \in recovery', <<"code", r>> \in used' PROVE FALSE
          <5>1. r \in recovery /\ <<"code", r>> \notin used
            BY <3>1, <3>2
          <5>2. PICK x \in recovery : <<"code", r>> = <<"code", x>> /\ recovery' = recovery \ {x}
            BY <2>2, <4>1, <5>1
          <5> QED
            BY <4>1, <5>2
        <4> QED
          BY <3>1, <3>2, <4>1
      <3>3. ASSUME NEW g \in Handlers, ReplaceRecoveryCodes(g)
            PROVE  \A r \in recovery' : r <= edits' /\ <<"code", r>> \notin used'
        <4>1. recovery' = {req[g].n} /\ UNCHANGED <<edits, used>> /\ Coding(g)
          BY <3>3 DEF ReplaceRecoveryCodes, ledger, Coding
        <4> QED
          BY <4>1 DEF OnceInv
      <3>4. ASSUME NEW g \in Handlers, NEW r \in Versions, ConsumeRecoveryCode(g, r)
            PROVE  recovery' \subseteq recovery
        BY <3>4 DEF ConsumeRecoveryCode
      <3>5. recovery' \subseteq recovery \/ \E g \in Handlers : ReplaceRecoveryCodes(g)
        BY <1>2, <3>4, CodeWriters
      <3> QED
        BY <3>2, <3>3, <3>5
    <2>8. \A r \in Nat : <<"code", r>> \in used' => r <= edits'
      BY <1>2, <2>t, <2>2, EditsGrow DEF OnceInv
    <2>9. ASSUME NEW h \in Handlers, Coding(h)'
          PROVE  /\ req'[h].n <= edits' /\ req'[h].n \notin recovery'
                 /\ <<"code", req'[h].n>> \notin used'
      <3>1. CASE Coding(h) /\ req'[h].n = req[h].n
        <4>1. req[h].n <= edits /\ req[h].n \notin recovery /\ <<"code", req[h].n>> \notin used
          BY <3>1 DEF OnceInv
        <4>2. req[h].n <= edits'
          BY <1>2, <2>t, <4>1, EditsGrow
        <4>3. <<"code", req[h].n>> \notin used'
          BY <2>2, <4>1
        <4>4. ASSUME NEW g \in Handlers, ReplaceRecoveryCodes(g) PROVE req[h].n \notin recovery'
          <5>1. recovery' = {req[g].n} /\ Coding(g) /\ pc'[g] = "idle"
            BY <2>t, <4>4 DEF ReplaceRecoveryCodes, Coding, Return, Become
          <5>2. g # h
            BY <2>9, <5>1 DEF Coding
          <5> QED
            BY <3>1, <5>1, <5>2 DEF OnceInv
        <4>5. req[h].n \notin recovery'
          BY <1>2, <4>1, <4>4, CodeWriters DEF ConsumeRecoveryCode
        <4> QED
          BY <3>1, <4>2, <4>3, <4>5
      <3>2. CASE /\ pc'[h] # pc[h] /\ req'[h].n = edits + 1 /\ edits' = edits + 1
                 /\ UNCHANGED <<recovery, used>>
        BY <2>t, <3>2 DEF OnceInv
      <3> QED
        BY <1>2, <2>9, <3>1, <3>2, CodingFrom
    <2>10. ASSUME NEW g \in Handlers, NEW h \in Handlers, g # h, Coding(g)', Coding(h)'
           PROVE  req'[g].n # req'[h].n
      <3>1. ASSUME NEW a \in Handlers, Coding(a), req'[a].n = req[a].n PROVE req'[a].n < edits + 1
        <4>1. req[a].n <= edits /\ req[a].n \in Nat /\ edits \in Nat
          BY <2>t, <3>1 DEF OnceInv
        <4> QED
          BY <3>1, <4>1
      <3>2. CASE Coding(g) /\ req'[g].n = req[g].n /\ Coding(h) /\ req'[h].n = req[h].n
        BY <2>10, <3>2 DEF OnceInv
      <3>3. ASSUME NEW a \in Handlers, NEW b \in Handlers, a # b,
                   pc'[a] # pc[a], req'[a].n = edits + 1, Coding(b)'
            PROVE  req'[b].n < edits + 1
        BY <1>2, <3>1, <3>3, CodingFrom, OneMoves
      <3>4. CASE req'[g].n = edits + 1 /\ pc'[g] # pc[g]
        BY <2>t, <2>u, <2>10, <3>3, <3>4
      <3>5. CASE req'[h].n = edits + 1 /\ pc'[h] # pc[h]
        BY <2>t, <2>u, <2>10, <3>3, <3>5
      <3> QED
        BY <1>2, <2>10, <3>2, <3>4, <3>5, CodingFrom
    <2> QED
      BY <2>1, <2>3, <2>4, <2>5, <2>6, <2>7, <2>8, <2>9, <2>10 DEF OnceInv
  <1> QED
    BY <1>1, <1>2 DEF Next

-----------------------------------------------------------------------------
(* Sessions and changes of the password.                                   *)

Purging == {"dropLinks", "endSessions"}

\* What a handler carries: the password it remembers is one that was current,
\* the session it acts for was live when it began.
Carries(h) ==
    /\ req'[h].pw \in {req[h].pw, 0, password'} \cup {challenge[c].pw : c \in Challenges}
    /\ \/ req'[h].by \in {req[h].by, None}
       \/ req'[h].by \in Sessions /\ session[req'[h].by].is = "live" /\ UNCHANGED session
    /\ pc'[h] \in Purging =>
          \/ pc[h] \in Purging /\ req'[h].pw = req[h].pw /\ req'[h].by = req[h].by
          \/ SetUserPassword(h)
          \/ req'[h].pw = 0

LEMMA BeginsCarries ==
  ASSUME Control, NEW h \in Handlers, Begins(h) PROVE Carries(h)
  <1>t. pc \in [Handlers -> PCs] /\ req \in [Handlers -> Request] /\ edits \in Nat
    BY DEF Control, Typed, StoreTyped
  <1>b. \A l, q : Become(h, l, q) => pc'[h] = l /\ req'[h] = q
    BY <1>t DEF Become
  <1>k. UNCHANGED <<pc, req>> => Carries(h)
    BY DEF Carries
  <1>0. ASSUME Become(h, "lookup", NoParams) \/ Become(h, "endSessions", NoParams)
               \/ Become(h, "disableMFA", NoParams) \/ Become(h, "unregister", NoParams)
        PROVE  Carries(h)
    BY <1>0, <1>b, NoParamsTyped DEF Carries, Purging
  <1>1. CASE LoginSubmit(h) \/ AdminResetMFA(h) \/ AdminResetPasskeys(h) \/ SetUserDisabled(h)
    BY <1>0, <1>1, <1>k DEF LoginSubmit, AdminResetMFA, AdminResetPasskeys, SetUserDisabled,
                      Change, Start
  <1>2. ASSUME NEW c \in Challenges, MFASubmit(h, c) PROVE Carries(h)
    <2>1. /\ pc'[h] = "mfaUser"
          /\ req'[h] = [NoParams EXCEPT !.factor = "otp", !.on = c, !.pw = challenge[c].pw]
      BY <1>2, <1>b DEF MFASubmit, Start
    <2>2. req'[h].pw = challenge[c].pw /\ req'[h].by = None
      BY <2>1, NoParamsTyped DEF Request
    <2> QED
      BY <2>1, <2>2 DEF Carries, Purging
  <1>3. ASSUME NEW c \in Ceremonies, NEW uv \in BOOLEAN, PasskeyLoginFinish(h, c, uv)
        PROVE  Carries(h)
    <2>1. CASE ceremony[c] = "login"
      <3> DEFINE f == IF uv THEN "keyUV" ELSE "key"
      <3>1. pc'[h] = "keyUser" /\ req'[h] = [NoParams EXCEPT !.factor = f]
        BY <1>3, <1>b, <2>1 DEF PasskeyLoginFinish
      <3> HIDE DEF f
      <3>2. req'[h].pw = 0 /\ req'[h].by = None
        BY <3>1, NoParamsTyped DEF Request
      <3> QED
        BY <3>1, <3>2 DEF Carries, Purging
    <2>2. CASE ceremony[c] # "login"
      BY <1>3, <1>k, <2>2 DEF PasskeyLoginFinish
    <2> QED
      BY <2>1, <2>2
  <1>4. ASSUME NEW s \in Sessions, NEW l, NEW x, RequireUser(h, s, l, x) PROVE Carries(h)
    <2> DEFINE n == IF Kind(l) = "mfa" THEN edits + 1 ELSE 0
    <2>1. /\ pc'[h] = "owner" /\ UNCHANGED session /\ session[s].is = "live"
          /\ req'[h] = [NoParams EXCEPT !.by = s, !.then = l, !.on = x, !.n = n]
      BY <1>4, <1>b DEF RequireUser, Change, Start, rows
    <2> HIDE DEF n
    <2>2. req'[h].pw = 0 /\ req'[h].by = s
      BY <2>1, NoParamsTyped DEF Request
    <2> QED
      BY <2>1, <2>2 DEF Carries, Purging
  <1>5. ASSUME NEW k \in Links, SetPasswordSubmit(h, k) PROVE Carries(h)
    <2>1. /\ pc'[h] = "consume" /\ req'[h] = [NoParams EXCEPT !.on = k, !.then = "dropLinks"]
      BY <1>5, <1>b DEF SetPasswordSubmit, Change, Start
    <2>2. req'[h].pw = 0 /\ req'[h].by = None
      BY <2>1, NoParamsTyped DEF Request
    <2> QED
      BY <2>1, <2>2 DEF Carries, Purging
  <1>6. CASE AdminUserPassword(h)
    <2>1. /\ pc'[h] = "setPassword" /\ req'[h] = [NoParams EXCEPT !.then = "endSessions"]
      BY <1>6, <1>b DEF AdminUserPassword, Change, Start
    <2>2. req'[h].pw = 0 /\ req'[h].by = None
      BY <2>1, NoParamsTyped DEF Request
    <2> QED
      BY <2>1, <2>2 DEF Carries, Purging
  <1> QED
    BY <1>1, <1>2, <1>3, <1>4, <1>5, <1>6 DEF Begins

LEMMA ProceedsCarries ==
  ASSUME Control, NEW h \in Handlers, Proceeds(h) PROVE Carries(h)
  <1>t. /\ pc \in [Handlers -> PCs] /\ req \in [Handlers -> Request]
        /\ req[h] \in Request /\ Fits(pc[h], req[h])
    BY DEF Control, Typed, StoreTyped
  <1>b. \A l, q : Become(h, l, q) => pc'[h] = l /\ req'[h] = q
    BY <1>t DEF Become
  <1>g. \A l : Goto(h, l) => pc'[h] = l /\ req'[h] = req[h]
    BY <1>t DEF Goto
  <1>r. ASSUME Return(h) PROVE Carries(h)
    BY <1>r, <1>b, NoParamsTyped DEF Return, Carries, Purging
  <1>s. ASSUME pc'[h] \notin Purging, req'[h] = req[h] PROVE Carries(h)
    BY <1>s DEF Carries
  <1>1. ASSUME NEW right \in BOOLEAN, LookUp(h, right) PROVE Carries(h)
    <2>1. CASE Return(h)
      BY <1>r, <2>1
    <2>2. CASE ~Return(h)
      <3>1. /\ pc'[h] \in {"reset", "record"} /\ password' = password
            /\ req'[h] = [req[h] EXCEPT !.pw = password, !.mfa = mfa]
        BY <1>1, <1>b, <2>2 DEF LookUp, account
      <3>2. req'[h].pw = password' /\ req'[h].by = req[h].by
        BY <1>t, <3>1 DEF Request
      <3> QED
        BY <3>1, <3>2 DEF Carries, Purging
    <2> QED
      BY <2>1, <2>2
  <1>2. CASE PasskeyUser(h)
    <2> DEFINE x == IF disabled THEN "off" ELSE "on"
    <2>1. /\ pc'[h] = "keyRead" /\ password' = password
          /\ req'[h] = [req[h] EXCEPT !.pw = password, !.mfa = mfa, !.then = x]
      BY <1>2, <1>b DEF PasskeyUser, account
    <2> HIDE DEF x
    <2>2. req'[h].pw = password' /\ req'[h].by = req[h].by
      BY <1>t, <2>1 DEF Request
    <2> QED
      BY <2>1, <2>2 DEF Carries, Purging
  <1>3. CASE SetUserPassword(h)
    <2>1. /\ password' = password + 1
          /\ req'[h] = [req[h] EXCEPT !.pw = password + 1, !.then = "idle"]
      BY <1>3, <1>b DEF SetUserPassword
    <2>2. req'[h].pw = password' /\ req'[h].by = req[h].by
      BY <1>t, <2>1 DEF Request
    <2> QED
      BY <1>3, <2>1, <2>2 DEF Carries
  <1>4. CASE DeletePasswordTokensForUser(h)
    BY <1>4, <1>g DEF DeletePasswordTokensForUser, Carries, Purging
  <1>5. CASE Owner(h)
    <2>1. CASE Return(h)
      BY <1>r, <2>1
    <2>2. CASE ~Return(h)
      <3> DEFINE y == IF req[h].then = "enable" THEN secret ELSE None
                 z == IF req[h].then = "setPassword" THEN "endSessions" ELSE "idle"
      <3>1. req'[h] = [req[h] EXCEPT !.secret = y, !.then = z]
        BY <1>5, <1>b, <2>2 DEF Owner
      <3> HIDE DEF y, z
      <3>2. req'[h].pw = req[h].pw /\ req'[h].by = req[h].by /\ req[h].pw = 0
        BY <1>t, <1>5, <3>1 DEF Request, Owner, Fits
      <3> QED
        BY <3>2 DEF Carries
    <2> QED
      BY <2>1, <2>2
  <1>6. ASSUME NEW right \in BOOLEAN, MFAUser(h, right) \/ PasskeyRead(h, right) PROVE Carries(h)
    BY <1>6, <1>g, <1>r, <1>s DEF MFAUser, PasskeyRead, Purging
  <1>7. CASE \/ ResetFailedLogins(h) \/ PasskeyUsed(h) \/ DeleteLoginChallenge(h)
             \/ \E r \in Versions : ConsumeRecoveryCode(h, r)
             \/ \E s \in Sessions \cup {None} : DeleteSession(h, s)
    <2>1. Return(h) \/ \E l \in SignIn : Goto(h, l)
      BY <1>7 DEF ResetFailedLogins, PasskeyUsed, DeleteLoginChallenge,
                  ConsumeRecoveryCode, DeleteSession, Proceed, SignIn
    <2> QED
      BY <2>1, <1>g, <1>r, <1>s DEF Purging, SignIn
  <1>8. CASE \/ ConsumePasswordToken(h) \/ MFAEnable(h) \/ MFADisable(h) \/ PasskeyRegisterFinish(h)
    BY <1>8, <1>g, <1>r, <1>s DEF ConsumePasswordToken, MFAEnable, MFADisable,
                PasskeyRegisterFinish, Purging
  <1> QED
    BY <1>1, <1>2, <1>3, <1>4, <1>5, <1>6, <1>7, <1>8 DEF Proceeds

LEMMA AllCarry == ASSUME Control, Step, NEW h \in Handlers PROVE Carries(h)
  <1>1. CASE pc'[h] = pc[h] /\ req'[h] = req[h]
    BY <1>1 DEF Carries
  <1>2. CASE pc'[h] = "idle" /\ req'[h] = NoParams
    BY <1>2, NoParamsTyped DEF Carries, Purging
  <1> QED
    BY <1>1, <1>2, Moves, BeginsCarries, ProceedsCarries

\* Who writes the password and the sessions, and completes a change.
LEMMA SessionWriters ==
  ASSUME Step
  PROVE  \/ UNCHANGED <<password, session, purged>>
         \/ /\ UNCHANGED <<password, purged>>
            /\ \E s \in Sessions : session' = [session EXCEPT ![s] = Gone]
         \/ \E g \in Handlers, s \in Sessions : CreateSession(g, s)
         \/ \E g \in Handlers : SetUserPassword(g) \/ DeleteSessionsForUser(g)
  <1> USE DEF account, rows, ledger
  <1>1. ASSUME Environment
        PROVE  \/ UNCHANGED <<password, session, purged>>
               \/ /\ UNCHANGED <<password, purged>>
                  /\ \E s \in Sessions : session' = [session EXCEPT ![s] = Gone]
    BY <1>1 DEF Environment, NewCeremony, EndSession, CreatePasswordToken, AdminUnlockUser,
                LockExpires, Expire
  <1>2. ASSUME NEW g \in Handlers, Begins(g) PROVE UNCHANGED <<password, session, purged>>
    BY <1>2 DEF Begins, LoginSubmit, MFASubmit, PasskeyLoginFinish, RequireUser,
                SetPasswordSubmit, AdminUserPassword, SetUserDisabled, AdminResetMFA,
                AdminResetPasskeys
  <1>3. ASSUME NEW g \in Handlers, Ends(g)
        PROVE  \/ UNCHANGED <<password, session, purged>>
               \/ \E s \in Sessions : CreateSession(g, s)
               \/ DeleteSessionsForUser(g)
    BY <1>3 DEF Ends, RecordFailedLogin, CreateLoginChallenge,
                MFASetup, ReplaceRecoveryCodes, DeleteRecoveryCodes,
                CreateWebAuthnCredential, DeleteWebAuthnCredential, Abandon
  <1>4. ASSUME NEW g \in Handlers, NEW s \in Sessions \cup {None}, DeleteSession(g, s)
        PROVE  \/ UNCHANGED <<password, session, purged>>
               \/ /\ UNCHANGED <<password, purged>>
                  /\ \E x \in Sessions : session' = [session EXCEPT ![x] = Gone]
    BY <1>4 DEF DeleteSession
  <1>5. ASSUME NEW g \in Handlers, Proceeds(g)
        PROVE  \/ UNCHANGED <<password, session, purged>>
               \/ \E s \in Sessions \cup {None} : DeleteSession(g, s)
               \/ SetUserPassword(g)
    BY <1>5 DEF Proceeds, LookUp, MFAUser, PasskeyRead, ResetFailedLogins, ConsumeRecoveryCode,
                DeleteLoginChallenge, PasskeyUser, PasskeyUsed,
                ConsumePasswordToken, DeletePasswordTokensForUser,
                Owner, MFAEnable, MFADisable, PasskeyRegisterFinish
  <1> QED
    BY <1>1, <1>2, <1>3, <1>4, <1>5, StepCases

\* A challenge remembers the password of the handler that created it.
LEMMA ChallengeWriters ==
  ASSUME Control, Step, NEW c \in Challenges
  PROVE  challenge'[c].pw \in {challenge[c].pw, 0} \cup {req[h].pw : h \in Handlers}
  <1> USE DEF rows
  <1>t. challenge \in [Challenges -> Stored]
    BY DEF Control, Typed, StoreTyped
  <1>g. Gone.pw = 0 /\ \A v : Row("live", v).pw = v
    BY DEF Gone, Row
  <1>k. UNCHANGED challenge => challenge'[c].pw = challenge[c].pw
    OBVIOUS
  <1>1. ASSUME Environment PROVE challenge'[c].pw \in {challenge[c].pw, 0}
    <2>1. \/ UNCHANGED challenge
          \/ \E x \in Challenges : challenge' = [challenge EXCEPT ![x] = Gone]
      BY <1>1 DEF Environment, NewCeremony, EndSession, CreatePasswordToken, AdminUnlockUser,
                  LockExpires, Expire
    <2> QED
      BY <1>t, <1>g, <2>1
  <1>2. ASSUME NEW g \in Handlers, Begins(g) PROVE UNCHANGED challenge
    BY <1>2 DEF Begins, LoginSubmit, MFASubmit, PasskeyLoginFinish, RequireUser,
                SetPasswordSubmit, AdminUserPassword, SetUserDisabled, AdminResetMFA,
                AdminResetPasskeys
  <1>3. ASSUME NEW g \in Handlers, Ends(g)
        PROVE  challenge'[c].pw = challenge[c].pw \/ challenge'[c].pw = req[g].pw
    <2>1. \/ UNCHANGED challenge
          \/ \E x \in Challenges : challenge' = [challenge EXCEPT ![x] = Row("live", req[g].pw)]
      BY <1>3 DEF Ends, RecordFailedLogin, CreateLoginChallenge, CreateSession,
                DeleteSessionsForUser, MFASetup, ReplaceRecoveryCodes, DeleteRecoveryCodes,
                CreateWebAuthnCredential, DeleteWebAuthnCredential, Abandon
    <2> QED
      BY <1>t, <1>g, <2>1
  <1>4. ASSUME NEW g \in Handlers, Proceeds(g) PROVE challenge'[c].pw \in {challenge[c].pw, 0}
    <2>1. \/ UNCHANGED challenge
          \/ \E x : challenge' = [challenge EXCEPT ![x] = Gone]
      BY <1>4 DEF Proceeds, LookUp, MFAUser, PasskeyRead, ResetFailedLogins, ConsumeRecoveryCode,
                DeleteLoginChallenge, PasskeyUser, PasskeyUsed, DeleteSession,
                ConsumePasswordToken, SetUserPassword, DeletePasswordTokensForUser,
                Owner, MFAEnable, MFADisable, PasskeyRegisterFinish
    <2> QED
      BY <1>t, <1>g, <2>1
  <1> QED
    BY <1>1, <1>2, <1>3, <1>4, <1>k, StepCases

LEMMA SessionStep == ASSUME Control, SessionInv, [Next]_vars PROVE SessionInv'
  <1>1. CASE UNCHANGED vars
    BY <1>1 DEF vars, SessionInv
  <1>2. CASE Step
    <2>t. /\ password \in Nat /\ purged \in Nat
          /\ session \in [Sessions -> Stored]
          /\ \A s \in Sessions : session[s].pw \in Nat
          /\ \A c \in Challenges : challenge[c].pw \in Nat
          /\ \A h \in Handlers : req[h].pw \in Nat
      BY DEF Control, Typed, StoreTyped, Stored, Request
    <2>r. /\ Gone.is = "gone" /\ Gone.pw = 0
          /\ \A v : Row("live", v).is = "live" /\ Row("live", v).pw = v
      BY DEF Gone, Row
    <2>n. \A v, w \in Nat : /\ v <= Newer(v, w) /\ w <= Newer(v, w)
                            /\ Newer(v, w) \in {v, w}
      BY DEF Newer
    \* The rows: versions grow, and a row that is not new stays so.
    <2> DEFINE Fine(s) == /\ session'[s].pw <= password'
                          /\ session'[s].is = "live" => purged' <= session'[s].pw
               Later(s) == /\ session[s].is # "new" => session'[s].is # "new"
                           /\ session[s].is # "new" /\ session'[s].is = "live" =>
                                session[s].is = "live" /\ session[s].pw <= session'[s].pw
               Good == /\ password <= password' /\ password' \in Nat /\ purged' <= password'
                       /\ \A s \in Sessions : Fine(s) /\ Later(s)
    <2>1. Good
      <3>1. CASE UNCHANGED <<password, session, purged>>
        BY <2>t, <3>1 DEF SessionInv
      <3>2. CASE /\ UNCHANGED <<password, purged>>
                 /\ \E s \in Sessions : session' = [session EXCEPT ![s] = Gone]
        BY <2>t, <2>r, <3>2 DEF SessionInv
      <3>3. ASSUME NEW g \in Handlers, NEW s \in Sessions, CreateSession(g, s) PROVE Good
        <4>1. /\ UNCHANGED <<password, purged>> /\ session[s].is = "new"
              /\ session' = [session EXCEPT ![s] = Row("live", Newer(req[g].pw, purged))]
          BY <3>3 DEF CreateSession, account, ledger
        <4>2. purged <= Newer(req[g].pw, purged) /\ Newer(req[g].pw, purged) <= password
          BY <2>t, <2>n DEF SessionInv
        <4> QED
          BY <2>t, <2>r, <4>1, <4>2 DEF SessionInv
      <3>4. ASSUME NEW g \in Handlers, SetUserPassword(g) PROVE Good
        <4>1. password' = password + 1 /\ purged' = purged
          BY <3>4 DEF SetUserPassword
        <4>2. ASSUME NEW s \in Sessions
              PROVE  /\ session'[s].is = session[s].is
                     /\ session'[s].pw \in {session[s].pw, password + 1}
          <5>1. \/ session' = session
                \/ session' = [session EXCEPT ![req[g].by].pw = password + 1]
            BY <3>4 DEF SetUserPassword
          <5> QED
            BY <2>t, <5>1 DEF Stored
        <4>3. ASSUME NEW s \in Sessions PROVE Fine(s) /\ Later(s)
          BY <2>t, <4>1, <4>2 DEF SessionInv
        <4> HIDE DEF Fine, Later
        <4> QED
          BY <2>t, <4>1, <4>3 DEF SessionInv
      <3>5. ASSUME NEW g \in Handlers, DeleteSessionsForUser(g) PROVE Good
        <4>1. /\ password' = password /\ purged' = Newer(req[g].pw, purged)
              /\ session' = [s \in Sessions |-> IF session[s].is = "live" /\ s # req[g].by
                                                THEN Gone ELSE session[s]]
          BY <3>5 DEF DeleteSessionsForUser, account
        <4>2. purged' <= password'
          BY <2>t, <2>n, <4>1 DEF SessionInv
        <4>3. ASSUME NEW s \in Sessions PROVE Fine(s) /\ Later(s)
          <5>1. CASE session[s].is = "live" /\ s # req[g].by
            BY <2>t, <2>r, <4>1, <5>1
          <5>2. CASE session[s].is # "live"
            BY <2>t, <4>1, <5>2 DEF SessionInv
          <5>3. CASE session[s].is = "live" /\ s = req[g].by
            <6>1. session'[s] = session[s] /\ purged <= session[s].pw /\ session[s].pw <= password
              BY <4>1, <5>3 DEF SessionInv
            <6>2. req[g].pw <= session[s].pw
              BY <3>5, <5>3 DEF DeleteSessionsForUser, SessionInv
            <6> QED
              BY <2>t, <2>n, <4>1, <6>1, <6>2
          <5> QED
            BY <5>1, <5>2, <5>3
        <4> HIDE DEF Fine, Later
        <4> QED
          BY <2>t, <4>1, <4>2, <4>3
      <3> HIDE DEF Good
      <3> QED
        BY <1>2, <3>1, <3>2, <3>3, <3>4, <3>5, SessionWriters
    <2> HIDE DEF Good, Fine, Later
    <2>2. \A c \in Challenges : challenge'[c].pw <= password'
      BY <1>2, <2>t, <2>1, ChallengeWriters DEF SessionInv, Good
    <2>3. ASSUME NEW h \in Handlers
          PROVE  /\ req'[h].pw <= password'
                 /\ req'[h].by \in Sessions => session'[req'[h].by].is # "new"
                 /\ /\ pc'[h] \in Purging /\ req'[h].by \in Sessions
                    /\ session'[req'[h].by].is = "live"
                    => req'[h].pw <= session'[req'[h].by].pw
      <3>1. Carries(h)
        BY <1>2, AllCarry
      <3>2. req'[h].pw <= password'
        BY <2>t, <2>1, <3>1 DEF Carries, SessionInv, Good
      <3>3. req'[h].by \in Sessions => session'[req'[h].by].is # "new"
        BY <2>1, <3>1, NoneAssumption DEF Carries, SessionInv, Good, Later
      <3>4. ASSUME pc'[h] \in Purging, req'[h].by \in Sessions, session'[req'[h].by].is = "live"
            PROVE  req'[h].pw <= session'[req'[h].by].pw
        <4>1. session'[req'[h].by].pw \in Nat
          BY <1>2, <3>4, StoreStep DEF StoreTyped, Stored
        <4>2. CASE pc[h] \in Purging /\ req'[h].pw = req[h].pw /\ req'[h].by = req[h].by
          <5>1. session[req[h].by].is # "new"
            BY <3>4, <4>2 DEF SessionInv
          <5>2. session[req[h].by].is = "live" /\ session[req[h].by].pw <= session'[req[h].by].pw
            BY <2>1, <3>4, <4>2, <5>1 DEF Good, Later
          <5>3. req[h].pw <= session[req[h].by].pw
            BY <3>4, <4>2, <5>2 DEF SessionInv, Purging
          <5> QED
            BY <2>t, <3>4, <4>1, <4>2, <5>2, <5>3
        <4>3. CASE SetUserPassword(h)
          <5>1. req'[h].pw = password + 1 /\ req'[h].by = req[h].by
            BY <4>3 DEF SetUserPassword, Become, Control, Typed, StoreTyped, Request
          <5>2. session[req[h].by].is = "live"
            <6>1. session[req[h].by].is # "new"
              BY <3>4, <5>1 DEF SessionInv
            <6> QED
              BY <2>1, <3>4, <5>1, <6>1 DEF Good, Later
          <5>3. session' = [session EXCEPT ![req[h].by].pw = password + 1]
            BY <3>4, <4>3, <5>1, <5>2 DEF SetUserPassword
          <5>4. session'[req[h].by].pw = password + 1
            BY <2>t, <3>4, <5>1, <5>3 DEF Stored
          <5> QED
            BY <2>t, <5>1, <5>4
        <4>4. CASE req'[h].pw = 0
          BY <4>1, <4>4
        <4> QED
          BY <3>1, <3>4, <4>2, <4>3, <4>4 DEF Carries
      <3> QED
        BY <3>2, <3>3, <3>4
    <2> QED
      BY <2>1, <2>2, <2>3 DEF SessionInv, Good, Fine, Purging
  <1> QED
    BY <1>1, <1>2 DEF Next

-----------------------------------------------------------------------------
(* Wrong passwords.                                                        *)

\* Only these write the failure count and the lock.
LEMMA ThrottleWriters ==
  ASSUME Step
  PROVE  \/ UNCHANGED throttle
         \/ locked' = FALSE /\ guesses' = 0
         \/ \E g \in Handlers : RecordFailedLogin(g)
  <1> USE DEF throttle
  <1>1. ASSUME Environment PROVE UNCHANGED throttle \/ (locked' = FALSE /\ guesses' = 0)
    BY <1>1 DEF Environment, NewCeremony, EndSession, CreatePasswordToken, AdminUnlockUser,
                LockExpires, Expire, Unlock
  <1>2. ASSUME NEW g \in Handlers, Begins(g) PROVE UNCHANGED throttle
    BY <1>2 DEF Begins, LoginSubmit, MFASubmit, PasskeyLoginFinish, RequireUser,
                SetPasswordSubmit, AdminUserPassword, SetUserDisabled, AdminResetMFA,
                AdminResetPasskeys
  <1>3. ASSUME NEW g \in Handlers, Ends(g) PROVE RecordFailedLogin(g) \/ UNCHANGED throttle
    BY <1>3 DEF Ends, CreateLoginChallenge, CreateSession,
                DeleteSessionsForUser, MFASetup, ReplaceRecoveryCodes, DeleteRecoveryCodes,
                CreateWebAuthnCredential, DeleteWebAuthnCredential, Abandon
  <1>4. ASSUME NEW g \in Handlers, Proceeds(g)
        PROVE  UNCHANGED throttle \/ (locked' = FALSE /\ guesses' = 0)
    BY <1>4 DEF Proceeds, LookUp, MFAUser, PasskeyRead, ResetFailedLogins, ConsumeRecoveryCode,
                DeleteLoginChallenge, PasskeyUser, PasskeyUsed, DeleteSession,
                ConsumePasswordToken, SetUserPassword, DeletePasswordTokensForUser,
                Owner, MFAEnable, MFADisable, PasskeyRegisterFinish, Unlock
  <1> QED
    BY <1>1, <1>2, <1>3, <1>4, StepCases

\* While the account is locked no handler gets as far as recording.
LEMMA RecordingShrinks ==
  ASSUME Control, Step, locked PROVE Recording' \subseteq Recording
  <1>t. /\ pc \in [Handlers -> PCs] /\ req \in [Handlers -> Request]
        /\ \A h \in Handlers : Fits(pc[h], req[h])
    BY DEF Control, Typed, StoreTyped
  <1>1. SUFFICES ASSUME NEW h \in Handlers, pc'[h] = "record" PROVE pc[h] = "record"
    BY DEF Recording
  <1>b. \A l, q : Become(h, l, q) => pc'[h] = l
    BY <1>t DEF Become
  <1>g. \A l : Goto(h, l) => pc'[h] = l
    BY <1>t DEF Goto
  <1>r. ~Return(h)
    BY <1>1, <1>b DEF Return
  <1>2. CASE Owner(h)
    BY <1>t, <1>1, <1>2, <1>b, <1>r DEF Owner, Fits, AccountPages
  <1>3. ~\E right \in BOOLEAN : LookUp(h, right) \/ MFAUser(h, right) \/ PasskeyRead(h, right)
    BY <1>1, <1>g, <1>r DEF LookUp, MFAUser, PasskeyRead
  <1>4. ~\/ ResetFailedLogins(h) \/ PasskeyUser(h) \/ PasskeyUsed(h)
         \/ \E r \in Versions : ConsumeRecoveryCode(h, r)
         \/ DeleteLoginChallenge(h) \/ \E s \in Sessions \cup {None} : DeleteSession(h, s)
    BY <1>1, <1>b, <1>g, <1>r DEF ResetFailedLogins, PasskeyUser, PasskeyUsed, Proceed,
                ConsumeRecoveryCode, DeleteLoginChallenge, DeleteSession
  <1>5. CASE Proceeds(h)
    BY <1>t, <1>1, <1>2, <1>3, <1>4, <1>5, <1>b, <1>g, <1>r
       DEF Proceeds, ConsumePasswordToken, SetUserPassword, DeletePasswordTokensForUser,
           MFAEnable, MFADisable, PasskeyRegisterFinish, Fits
  <1>6. CASE Begins(h)
    BY <1>1, <1>6, BeginsAt
  <1> QED
    BY <1>1, <1>5, <1>6, Moves

LEMMA GuessStep == ASSUME Control, GuessInv, [Next]_vars PROVE GuessInv'
  <1>1. CASE UNCHANGED vars
    BY <1>1 DEF vars, GuessInv, Recording
  <1>2. CASE Step
    <2>t. /\ pc \in [Handlers -> PCs] /\ locked \in BOOLEAN
          /\ guesses \in Nat /\ failures \in 0..MaxFailedLogins /\ MaxFailedLogins \in Nat \ {0}
      BY PolicyAssumption DEF Control, Typed, StoreTyped
    <2>f. /\ IsFiniteSet(Recording) /\ Cardinality(Recording) \in Nat
          /\ IsFiniteSet(Recording') /\ Cardinality(Recording') \in Nat
          /\ Cardinality(Handlers) \in Nat
          /\ Cardinality(Recording') <= Cardinality(Handlers)
      <3>1. Recording \in SUBSET Handlers /\ Recording' \in SUBSET Handlers
        BY DEF Recording
      <3>2. /\ IsFiniteSet(Recording) /\ IsFiniteSet(Recording')
            /\ Cardinality(Recording') <= Cardinality(Handlers)
        BY <3>1, FS_Subset, HandlersAssumption
      <3> QED
        BY <3>2, FS_CardinalityType, HandlersAssumption
    <2>1. CASE UNCHANGED throttle
      <3>1. UNCHANGED <<failures, locked, guesses>>
        BY <2>1 DEF throttle
      <3>2. CASE locked
        <4>1. Recording' \in SUBSET Recording
          BY <1>2, <3>2, RecordingShrinks
        <4>2. Cardinality(Recording') <= Cardinality(Recording)
          BY <2>f, <4>1, FS_Subset
        <4>3. guesses + Cardinality(Recording) < MaxFailedLogins + Cardinality(Handlers)
          BY <3>2 DEF GuessInv
        <4>4. guesses + Cardinality(Recording') < MaxFailedLogins + Cardinality(Handlers)
          BY <2>t, <2>f, <4>2, <4>3
        <4> QED
          BY <3>1, <3>2, <4>4 DEF GuessInv
      <3>3. CASE ~locked
        BY <3>1, <3>3 DEF GuessInv
      <3> QED
        BY <3>2, <3>3
    <2>2. CASE locked' = FALSE /\ guesses' = 0
      BY <2>2 DEF GuessInv
    <2>3. ASSUME NEW g \in Handlers, RecordFailedLogin(g) PROVE GuessInv'
      <3>1. pc[g] = "record" /\ pc' = [pc EXCEPT ![g] = "idle"]
        BY <2>3 DEF RecordFailedLogin, Return, Become
      <3>2. Recording' = Recording \ {g} /\ g \in Recording
        BY <2>t, <3>1 DEF Recording
      <3>3. Cardinality(Recording') = Cardinality(Recording) - 1
        BY <2>f, <3>2, FS_RemoveElement
      <3>4. CASE UNCHANGED <<failures, locked, guesses>>
        <4>1. locked => guesses + Cardinality(Recording') < MaxFailedLogins + Cardinality(Handlers)
          BY <2>t, <2>f, <3>3 DEF GuessInv
        <4> QED
          BY <3>4, <4>1 DEF GuessInv
      <3>5. CASE /\ failures' = IF failures < MaxFailedLogins THEN failures + 1 ELSE failures
                 /\ locked' = (locked \/ failures + 1 >= MaxFailedLogins)
                 /\ guesses' = guesses + 1
        <4>1. CASE ~locked'
          <5>1. ~locked /\ ~(failures + 1 >= MaxFailedLogins)
            BY <3>5, <4>1
          <5>2. guesses = 0 \/ (guesses <= failures /\ failures < MaxFailedLogins)
            BY <5>1 DEF GuessInv
          <5>3. guesses' <= failures' /\ failures' < MaxFailedLogins
            BY <2>t, <3>5, <5>1, <5>2
          <5> QED
            BY <4>1, <5>3 DEF GuessInv
        <4>2. CASE locked'
          <5>1. guesses' + Cardinality(Recording') < MaxFailedLogins + Cardinality(Handlers)
            <6>1. CASE locked
              <7>1. guesses + Cardinality(Recording) < MaxFailedLogins + Cardinality(Handlers)
                BY <6>1 DEF GuessInv
              <7> QED
                BY <2>t, <2>f, <3>3, <3>5, <7>1
            <6>2. CASE ~locked
              <7>1. guesses < MaxFailedLogins
                BY <2>t, <6>2 DEF GuessInv
              <7>2. Cardinality(Recording) <= Cardinality(Handlers)
                BY FS_Subset, HandlersAssumption DEF Recording
              <7> QED
                BY <2>t, <2>f, <3>3, <3>5, <7>1, <7>2
            <6> QED
              BY <6>1, <6>2
          <5> QED
            BY <4>2, <5>1 DEF GuessInv
        <4> QED
          BY <4>1, <4>2
      <3> QED
        BY <2>3, <3>4, <3>5 DEF RecordFailedLogin
    <2> QED
      BY <1>2, <2>1, <2>2, <2>3, ThrottleWriters
  <1> QED
    BY <1>1, <1>2 DEF Next

-----------------------------------------------------------------------------
(* Sign-ins.                                                               *)

\* EntitledInv for one handler at l with parameters q, of which f and k say
\* what was true.
Entitled(l, q, f, k) ==
    /\ l = "reset" /\ ~q.mfa => f
    /\ l \in {"recovery", "dropChallenge", "rotate", "create"} => f
    /\ l = "keyRead" /\ q.then = "on" /\ (q.factor = "keyUV" \/ ~q.mfa) => f
    /\ l = "keyUsed" /\ (q.factor = "keyUV" \/ ~q.mfa) => f
    /\ l = "keyUsed" => k
    /\ l \in {"rotate", "create"} /\ q.factor \in {"key", "keyUV"} => k

\* The step of a sign-in that leads past a check sees what the check needs;
\* the others keep what was seen.
LEMMA ProceedsEntitled ==
  ASSUME Control, NEW h \in Handlers, Proceeds(h), Remember,
         Entitled(pc[h], req[h], fit[h], keyed[h])
  PROVE  Entitled(pc'[h], req'[h], fit'[h], keyed'[h])
  <1>t. /\ pc \in [Handlers -> PCs] /\ req \in [Handlers -> Request]
        /\ req[h] \in Request /\ Fits(pc[h], req[h]) /\ fit[h] \in BOOLEAN /\ keyed[h] \in BOOLEAN
        /\ disabled \in BOOLEAN /\ mfa \in BOOLEAN /\ passkey \in BOOLEAN
    BY DEF Control, Typed, StoreTyped
  <1>b. \A l, q : Become(h, l, q) => pc'[h] = l /\ req'[h] = q
    BY <1>t DEF Become
  <1>g. \A l : Goto(h, l) => pc'[h] = l /\ req'[h] = req[h]
    BY <1>t DEF Goto
  <1>r. Return(h) => pc'[h] = "idle"
    BY <1>b DEF Return
  <1>f. /\ pc'[h] \in SignIn /\ pc[h] \in SignIn /\ fit[h] => fit'[h]
        /\ pc'[h] \in SignIn /\ RowFits(h)' => fit'[h]
    BY DEF Remember
  <1>k. pc'[h] \in SignIn /\ req'[h].factor \in {"key", "keyUV"}
        /\ ((pc[h] \in SignIn /\ keyed[h]) \/ passkey') => keyed'[h]
    BY DEF Remember
  <1>i. pc'[h] \in {"idle", "record", "challenge"} \cup (PCs \ SignIn)
        => Entitled(pc'[h], req'[h], fit'[h], keyed'[h])
    BY DEF Entitled, SignIn
  <1>1. ASSUME NEW right \in BOOLEAN, LookUp(h, right)
        PROVE  Entitled(pc'[h], req'[h], fit'[h], keyed'[h])
    <2>1. CASE pc'[h] \in {"idle", "record"}
      BY <1>i, <2>1
    <2>2. CASE pc'[h] \notin {"idle", "record"}
      <3>1. /\ pc[h] = "lookup" /\ pc'[h] = "reset" /\ ~disabled /\ UNCHANGED <<disabled, mfa>>
            /\ req'[h] = [req[h] EXCEPT !.pw = password, !.mfa = mfa]
        BY <1>1, <1>b, <1>r, <2>2 DEF LookUp, account
      <3>2. req'[h].factor = "pwd" /\ req'[h].mfa = mfa
        BY <1>t, <3>1 DEF Request, Fits
      <3>3. ~mfa => RowFits(h)'
        BY <3>1, <3>2 DEF RowFits
      <3> QED
        BY <1>f, <3>1, <3>2, <3>3 DEF Entitled, SignIn
    <2> QED
      BY <2>1, <2>2
  <1>2. ASSUME NEW right \in BOOLEAN, MFAUser(h, right)
        PROVE  Entitled(pc'[h], req'[h], fit'[h], keyed'[h])
    <2>1. CASE pc'[h] = "idle"
      BY <1>i, <2>1
    <2>2. CASE pc'[h] # "idle"
      <3>1. /\ pc[h] = "mfaUser" /\ pc'[h] \in {"recovery", "dropChallenge"} /\ req'[h] = req[h]
            /\ ~disabled /\ mfa /\ UNCHANGED <<disabled, mfa>>
        BY <1>2, <1>g, <1>r, <2>2 DEF MFAUser, account
      <3>2. RowFits(h)'
        BY <1>t, <3>1 DEF RowFits, Fits
      <3> QED
        BY <1>f, <3>1, <3>2 DEF Entitled, SignIn
    <2> QED
      BY <2>1, <2>2
  <1>3. CASE PasskeyUser(h)
    <2> DEFINE x == IF disabled THEN "off" ELSE "on"
    <2>1. /\ pc[h] = "keyUser" /\ pc'[h] = "keyRead" /\ UNCHANGED <<disabled, mfa>>
          /\ req'[h] = [req[h] EXCEPT !.pw = password, !.mfa = mfa, !.then = x]
      BY <1>3, <1>b DEF PasskeyUser, account
    <2>2. x = "on" => ~disabled
      OBVIOUS
    <2> HIDE DEF x
    <2>3. req'[h].factor = req[h].factor /\ req'[h].mfa = mfa /\ req'[h].then = x
      BY <1>t, <2>1 DEF Request
    <2>4. req[h].factor \in {"key", "keyUV"}
      BY <1>t, <2>1 DEF Fits
    <2>5. req'[h].then = "on" /\ (req'[h].factor = "keyUV" \/ ~req'[h].mfa) => RowFits(h)'
      BY <2>1, <2>2, <2>3, <2>4 DEF RowFits
    <2> QED
      BY <1>f, <2>1, <2>5 DEF Entitled, SignIn
  <1>4. ASSUME NEW right \in BOOLEAN, PasskeyRead(h, right)
        PROVE  Entitled(pc'[h], req'[h], fit'[h], keyed'[h])
    <2>1. CASE pc'[h] = "idle"
      BY <1>i, <2>1
    <2>2. CASE pc'[h] # "idle"
      <3>1. /\ pc[h] = "keyRead" /\ pc'[h] = "keyUsed" /\ req'[h] = req[h]
            /\ passkey /\ req[h].then = "on" /\ UNCHANGED passkey
        BY <1>4, <1>g, <1>r, <2>2 DEF PasskeyRead, account
      <3>2. keyed'[h]
        BY <1>t, <1>k, <3>1 DEF Fits, SignIn
      <3> QED
        BY <1>f, <3>1, <3>2 DEF Entitled, SignIn
    <2> QED
      BY <2>1, <2>2
  <1>5. CASE ResetFailedLogins(h)
    <2>1. CASE req[h].mfa
      <3>1. pc'[h] = "challenge"
        BY <1>5, <1>g, <2>1 DEF ResetFailedLogins, Proceed
      <3> QED
        BY <1>i, <3>1
    <2>2. CASE ~req[h].mfa
      <3>1. pc[h] = "reset" /\ pc'[h] = "rotate" /\ req'[h] = req[h]
        BY <1>5, <1>g, <2>2 DEF ResetFailedLogins, Proceed
      <3>2. req[h].factor = "pwd"
        BY <1>t, <3>1 DEF Fits
      <3> QED
        BY <1>f, <2>2, <3>1, <3>2 DEF Entitled, SignIn
    <2> QED
      BY <2>1, <2>2
  <1>6. CASE PasskeyUsed(h)
    <2>1. CASE req[h].mfa /\ req[h].factor = "key"
      <3>1. pc'[h] = "challenge"
        BY <1>6, <1>g, <2>1 DEF PasskeyUsed, Proceed
      <3> QED
        BY <1>i, <3>1
    <2>2. CASE ~(req[h].mfa /\ req[h].factor = "key")
      <3>1. pc[h] = "keyUsed" /\ pc'[h] = "rotate" /\ req'[h] = req[h]
        BY <1>6, <1>g, <2>2 DEF PasskeyUsed, Proceed
      <3>2. req[h].factor \in {"key", "keyUV"}
        BY <1>t, <3>1 DEF Fits
      <3> QED
        BY <1>f, <1>k, <2>2, <3>1, <3>2 DEF Entitled, SignIn
    <2> QED
      BY <2>1, <2>2
  <1>7. ASSUME NEW r \in Versions, ConsumeRecoveryCode(h, r)
        PROVE  Entitled(pc'[h], req'[h], fit'[h], keyed'[h])
    <2>1. pc[h] = "recovery" /\ pc'[h] \in {"idle", "dropChallenge"}
      BY <1>7, <1>g, <1>r DEF ConsumeRecoveryCode
    <2> QED
      BY <1>f, <1>i, <2>1 DEF Entitled, SignIn
  <1>8. CASE DeleteLoginChallenge(h)
    <2>1. pc[h] = "dropChallenge" /\ pc'[h] = "rotate" /\ req'[h] = req[h]
      BY <1>8, <1>g DEF DeleteLoginChallenge
    <2>2. req[h].factor = "otp"
      BY <1>t, <2>1 DEF Fits
    <2> QED
      BY <1>f, <2>1, <2>2 DEF Entitled, SignIn
  <1>9. ASSUME NEW s \in Sessions \cup {None}, DeleteSession(h, s)
        PROVE  Entitled(pc'[h], req'[h], fit'[h], keyed'[h])
    <2>1. pc[h] = "rotate" /\ pc'[h] = "create" /\ req'[h] = req[h]
      BY <1>9, <1>g DEF DeleteSession
    <2> QED
      BY <1>f, <1>k, <2>1 DEF Entitled, SignIn
  <1>10. CASE Owner(h)
    <2>1. pc'[h] = "idle" \/ pc'[h] \in AccountPages \cup {"register"}
      BY <1>t, <1>10, <1>b, <1>r DEF Owner, Fits
    <2> QED
      BY <2>1 DEF Entitled, AccountPages
  <1>11. CASE \/ ConsumePasswordToken(h) \/ SetUserPassword(h) \/ DeletePasswordTokensForUser(h)
              \/ MFAEnable(h) \/ MFADisable(h) \/ PasskeyRegisterFinish(h)
    <2>1. pc[h] \notin SignIn \cup {"owner"}
      BY <1>11 DEF ConsumePasswordToken, SetUserPassword, DeletePasswordTokensForUser,
                   MFAEnable, MFADisable, PasskeyRegisterFinish, SignIn
    <2>2. pc'[h] \in {"setPassword", "idle", "replaceCodes", "dropLinks", "endSessions",
                      "dropCodes", "store"}
      BY <2>1, ProceedsAt DEF Owner
    <2> QED
      BY <2>2 DEF Entitled
  <1> QED
    BY <1>1, <1>2, <1>3, <1>4, <1>5, <1>6, <1>7, <1>8, <1>9, <1>10, <1>11 DEF Proceeds

LEMMA EntitledStep == ASSUME Control, EntitledInv, [Next]_vars PROVE EntitledInv'
  <1>1. CASE UNCHANGED vars
    BY <1>1 DEF vars, EntitledInv
  <1>2. CASE Next
    <2>e. \A h \in Handlers : Entitled(pc[h], req[h], fit[h], keyed[h])
      BY DEF EntitledInv, Entitled
    <2>1. ASSUME NEW h \in Handlers PROVE Entitled(pc'[h], req'[h], fit'[h], keyed'[h])
      <3>1. CASE pc'[h] = pc[h] /\ req'[h] = req[h]
        <4>1. pc[h] \in SignIn /\ fit[h] => fit'[h]
          BY <1>2, <3>1 DEF Next, Remember
        <4>2. pc[h] \in SignIn /\ keyed[h] /\ req[h].factor \in {"key", "keyUV"} => keyed'[h]
          BY <1>2, <3>1 DEF Next, Remember
        <4>3. pc[h] = "keyUsed" => req[h].factor \in {"key", "keyUV"}
          BY DEF Control, Fits
        <4> QED
          BY <2>e, <3>1, <4>1, <4>2, <4>3 DEF Entitled, SignIn
      <3>2. CASE pc'[h] = "idle"
        BY <3>2 DEF Entitled
      <3>3. CASE Begins(h) /\ ~UNCHANGED <<pc, req>>
        BY <3>3, BeginsAt DEF Entitled
      <3>4. CASE Proceeds(h)
        BY <1>2, <2>e, <3>4, ProceedsEntitled DEF Next
      <3> QED
        BY <1>2, <3>1, <3>2, <3>3, <3>4, Moves DEF Next
    <2> QED
      BY <2>1 DEF EntitledInv, Entitled
  <1> QED
    BY <1>1, <1>2

-----------------------------------------------------------------------------
(* Theorems.                                                               *)

LEMMA InitInv == Init => IInv
  <1> SUFFICES ASSUME Init PROVE IInv
    OBVIOUS
  <1>r. /\ Unborn.is = "new" /\ Unborn.pw = 0 /\ Row("live", 0).is = "live" /\ Row("live", 0).pw = 0
    BY DEF Unborn, Row
  <1>p. \A h \in Handlers : pc[h] = "idle" /\ req[h] = NoParams
    BY DEF Init
  <1>1. SessionInv
    <2>1. password = 0 /\ purged = 0
      BY DEF Init
    <2>2. \A s \in Sessions : session[s] \in {Unborn, Row("live", 0)}
      BY DEF Init
    <2>3. \A c \in Challenges : challenge[c] = Unborn
      BY DEF Init
    <2> QED
      BY <1>r, <1>p, <2>1, <2>2, <2>3, NoParamsTyped, NoneAssumption DEF SessionInv
  <1>2. GuessInv
    BY DEF Init, GuessInv
  <1>3. SecretInv
    BY <1>p DEF Init, SecretInv
  <1>4. OnceInv
    <2>1. used = {} /\ twice = {} /\ edits = 0
      BY DEF Init
    <2>2. \A r \in recovery : r = 0
      BY DEF Init
    <2> QED
      BY <1>p, <2>1, <2>2 DEF OnceInv, Linked, Coding
  <1>5. EntitledInv
    BY <1>p DEF EntitledInv
  <1> QED
    BY <1>1, <1>2, <1>3, <1>4, <1>5, ControlInit DEF IInv

\* Every reachable state satisfies the inductive invariant: the types, what a
\* handler knows at each of its steps, and one argument for each property below.
THEOREM Invariance == Spec => []IInv
  <1>1. IInv /\ [Next]_vars => IInv'
    BY ControlStep, SessionStep, GuessStep, SecretStep, OnceStep, EntitledStep DEF IInv
  <1> QED
    BY <1>1, InitInv, PTL DEF Spec

\* Once a change of the password is complete no session from before it is left,
\* for any number of sessions, handlers and changes under way at the same time.
THEOREM SessionsEnd == Spec => []NoSessionSurvivesPasswordChange
  <1>1. IInv => NoSessionSurvivesPasswordChange
    <2> SUFFICES ASSUME IInv, NEW s \in Sessions, session[s].is = "live"
                 PROVE  session[s].pw >= purged
      BY DEF NoSessionSurvivesPasswordChange
    <2>1. purged <= session[s].pw /\ purged \in Nat /\ session[s].pw \in Nat
      BY DEF IInv, SessionInv, Control, Typed, StoreTyped, Stored
    <2> QED
      BY <2>1
  <1> QED
    BY <1>1, Invariance, PTL

\* However many handlers check a password at the same time, they overshoot the
\* lockout threshold by fewer than their number.
THEOREM GuessingBounded == Spec => []GuessesBounded
  <1>1. IInv => GuessesBounded
    <2> SUFFICES ASSUME IInv PROVE GuessesBounded
      OBVIOUS
    <2>t. guesses \in Nat /\ failures \in 0..MaxFailedLogins /\ MaxFailedLogins \in Nat \ {0}
      BY PolicyAssumption DEF IInv, Control, Typed, StoreTyped
    <2>f. Cardinality(Recording) \in Nat /\ Cardinality(Handlers) \in Nat
      <3>1. Recording \in SUBSET Handlers
        BY DEF Recording
      <3> QED
        BY <3>1, FS_Subset, FS_CardinalityType, HandlersAssumption
    <2>1. CASE locked
      <3>1. guesses + Cardinality(Recording) < MaxFailedLogins + Cardinality(Handlers)
        BY <2>1 DEF IInv, GuessInv
      <3> QED
        BY <2>t, <2>f, <3>1 DEF GuessesBounded
    <2>2. CASE ~locked
      <3>1. guesses = 0 \/ (guesses <= failures /\ failures < MaxFailedLogins)
        BY <2>2 DEF IInv, GuessInv
      <3> QED
        BY <2>t, <2>f, <3>1 DEF GuessesBounded
    <2> QED
      BY <2>1, <2>2
  <1> QED
    BY <1>1, Invariance, PTL

\* A recovery code, a password link and a passkey ceremony take effect once.
THEOREM WorkOnce == Spec => []OneTimeThingsWorkOnce
  <1>1. IInv => OneTimeThingsWorkOnce
    BY DEF IInv, OnceInv, OneTimeThingsWorkOnce
  <1> QED
    BY <1>1, Invariance, PTL

\* A session is created only for a sign-in whose factors fitted the account at
\* one instant of it.
THEOREM Entitlement == Spec => []SignInWasEntitled
  <1>1. IInv => SignInWasEntitled
    BY DEF IInv, EntitledInv, SignInWasEntitled
  <1> QED
    BY <1>1, Invariance, PTL

\* While MFA is on, the user has confirmed the stored secret with a code.
THEOREM SecretConfirmed == Spec => []EnabledSecretWasConfirmed
  <1>1. IInv => EnabledSecretWasConfirmed
    BY DEF IInv, SecretInv, EnabledSecretWasConfirmed
  <1> QED
    BY <1>1, Invariance, PTL
=============================================================================
