-------------------------- MODULE DeviceGrantProofs --------------------------
(***************************************************************************)
(* What DeviceGrant promises, for every set of codes, users, devices and   *)
(* handlers: a code is exchanged at most once, for the user who approved   *)
(* it, and the first decision stands.  The last part is about the client   *)
(* that polls for the code, whose timing is in DevicePolling.              *)
(***************************************************************************)
EXTENDS DeviceGrant, DevicePolling, TLAPS

\* Init satisfies the inductive invariant.
LEMMA InitOK == Init => IInv
  BY NullAssumption
  DEF Init, IInv, TypeOK, DecidersNamed, ExchangedOnce, TokensOnlyForApprover,
      WinnersConsumed, Statuses, PCs, Polling, Request, Params, NoParams

\* Requests a handler is given or keeps are well-typed.
LEMMA RequestTypes ==
    /\ NoParams \in Request
    /\ \A c \in Codes, u \in Users \cup {NoUser}, d \in Devices \cup {NoDevice},
          t \in {"idle", "allow", "deny"} : Params(c, u, d, t) \in Request
  BY DEF NoParams, Params, Request

\* Every step preserves the type invariant.
LEMMA TypeStep == TypeOK /\ [Next]_vars => TypeOK'
<1> SUFFICES ASSUME TypeOK, [Next]_vars PROVE TypeOK'
  OBVIOUS
<1> USE DEF TypeOK
<1>0. CASE UNCHANGED vars
  BY <1>0 DEF vars
<1>1. ASSUME Next PROVE clear' \in [Handlers -> BOOLEAN]
  BY <1>1 DEF Next, Remember
<1>2. ASSUME NEW c \in Codes, NEW d \in Devices \cup {NoDevice}, Next, DeviceAuthorization(c, d)
      PROVE TypeOK'
  BY <1>1, <1>2 DEF DeviceAuthorization, world, Statuses
<1>3. ASSUME NEW h \in Handlers, NEW c \in Codes, NEW d \in Devices \cup {NoDevice}, Next,
             PollRead(h, c, d)
      PROVE TypeOK'
  <2>1. Params(c, approver[c], d, "idle") \in Request /\ Params(c, approver[c], d, "idle").code = c
    BY RequestTypes DEF Params
  <2> QED
    BY <1>1, <1>3, <2>1 DEF PollRead, Become, world, PCs
<1>4. ASSUME NEW h \in Handlers, NEW c \in Codes, NEW u \in Users, NEW a \in {"allow", "deny"},
             Next, ConfirmRead(h, c, u, a)
      PROVE TypeOK'
  <2>1. Params(c, u, NoDevice, a) \in Request /\ Params(c, u, NoDevice, a).code = c
    BY RequestTypes DEF Params
  <2> QED
    BY <1>1, <1>4, <2>1 DEF ConfirmRead, Become, world, PCs
<1>5. ASSUME NEW h \in Handlers, Next,
             PollDevice(h) \/ PollUser(h) \/ Abandon(h)
      PROVE TypeOK'
  BY <1>1, <1>5, RequestTypes DEF PollDevice, PollUser, Abandon, Goto, Return, Become, world, PCs
<1>6. ASSUME NEW h \in Handlers, Next, ConfirmOwner(h) \/ ConfirmOwnerFails(h)
      PROVE TypeOK'
  <2>1. pc[h] = "owner" /\ req[h].then \in {"idle", "allow", "deny"}
    BY <1>6 DEF ConfirmOwner, ConfirmOwnerFails, Request
  <2> QED
    BY <1>1, <1>6, <2>1 DEF ConfirmOwner, ConfirmOwnerFails, Goto, world, PCs
<1>7. ASSUME NEW h \in Handlers, Next, ConsumeDeviceCode(h)
      PROVE TypeOK'
  BY <1>1, <1>7, RequestTypes DEF ConsumeDeviceCode, Goto, Return, Become, world, PCs, Statuses
<1>8. ASSUME NEW h \in Handlers, Next, Answer(h)
      PROVE TypeOK'
  BY <1>1, <1>8, RequestTypes DEF Answer, Return, Become, world, PCs
<1>9. ASSUME NEW h \in Handlers, Next, ApproveDeviceCode(h)
      PROVE TypeOK'
  <2>1. req[h].user \in Users \cup {NoUser}
    BY <1>9 DEF Request
  <2> QED
    BY <1>1, <1>9, <2>1, RequestTypes DEF ApproveDeviceCode, Return, Become, world, PCs, Statuses
<1>10. ASSUME NEW h \in Handlers, Next, DenyDeviceCode(h)
       PROVE TypeOK'
  BY <1>1, <1>10, RequestTypes DEF DenyDeviceCode, Return, Become, world, PCs, Statuses
<1>11. ASSUME NEW c \in Codes, Next, Expire(c)
       PROVE TypeOK'
  BY <1>1, <1>11 DEF Expire, world
<1>12. ASSUME Next, Sweep PROVE TypeOK'
  BY <1>1, <1>12 DEF Sweep, world, Statuses
<1>13. ASSUME NEW u \in Users, Next, ToggleUser(u) PROVE TypeOK'
  BY <1>1, <1>13 DEF ToggleUser
<1>14. ASSUME NEW d \in Devices, Next, RevokeDevice(d) \/ SetOwnerOnly(d) PROVE TypeOK'
  BY <1>1, <1>14 DEF RevokeDevice, SetOwnerOnly
<1> QED
  BY <1>0, <1>2, <1>3, <1>4, <1>5, <1>6, <1>7, <1>8, <1>9, <1>10, <1>11, <1>12, <1>13, <1>14
  DEF Next, Step

\* Every step keeps the code of a winner consumed and its poll the only one.
LEMMA OnceStep ==
    IInv /\ [Next]_vars =>
        DecidersNamed' /\ ExchangedOnce' /\ WinnersConsumed' /\ TokensOnlyForApprover'
<1> SUFFICES ASSUME IInv, [Next]_vars
             PROVE  DecidersNamed' /\ ExchangedOnce' /\ WinnersConsumed' /\ TokensOnlyForApprover'
  OBVIOUS
<1> DEFINE Good == DecidersNamed /\ ExchangedOnce /\ WinnersConsumed /\ TokensOnlyForApprover
<1>t. /\ status \in [Codes -> Statuses]
      /\ approver \in [Codes -> Users \cup {NoUser}]
      /\ pc \in [Handlers -> PCs]
      /\ req \in [Handlers -> Request]
      /\ \A h \in Handlers : pc[h] # "idle" => req[h].code \in Codes
      /\ answered \in [Codes -> Nat]
  BY DEF IInv, TypeOK
<1>g. Good
  BY DEF IInv
<1> USE <1>t, <1>g
        DEF DecidersNamed, ExchangedOnce, WinnersConsumed, TokensOnlyForApprover, Polling, world
<1>0. CASE UNCHANGED vars
  BY <1>0 DEF vars
<1>1. ASSUME NEW c \in Codes, NEW d \in Devices \cup {NoDevice}, DeviceAuthorization(c, d)
      PROVE Good'
  BY <1>1, NullAssumption DEF DeviceAuthorization
<1>2. ASSUME NEW h \in Handlers, NEW c \in Codes, NEW d \in Devices \cup {NoDevice},
             PollRead(h, c, d)
      PROVE Good'
  <2>1. /\ pc' \in [Handlers -> {"device", "user"} \cup PCs] /\ pc'[h] \in {"device", "user"}
        /\ req'[h].code = c /\ req'[h].user = approver[c]
        /\ \A k \in Handlers \ {h} : pc'[k] = pc[k] /\ req'[k] = req[k]
    BY <1>2 DEF PollRead, Become, Params
  <2> QED
    BY <1>2, <2>1 DEF PollRead
<1>3. ASSUME NEW h \in Handlers, NEW c \in Codes, NEW u \in Users, NEW a \in {"allow", "deny"},
             ConfirmRead(h, c, u, a)
      PROVE Good'
  <2>1. /\ pc'[h] \in {"owner", "allow", "deny"}
        /\ req'[h].user \in Users /\ req'[h].then = a
        /\ \A k \in Handlers \ {h} : pc'[k] = pc[k] /\ req'[k] = req[k]
    BY <1>3 DEF ConfirmRead, Become, Params
  <2> QED
    BY <1>3, <2>1 DEF ConfirmRead
<1>4. ASSUME NEW h \in Handlers,
             PollDevice(h) \/ PollUser(h) \/ ConfirmOwner(h) \/ ConfirmOwnerFails(h) \/ Abandon(h)
      PROVE Good'
  <2>1. /\ \/ pc'[h] = "idle"
           \/ pc[h] = "owner" /\ pc'[h] \in {"deny", "allow"} /\ req'[h] = req[h]
           \/ pc[h] \in Polling /\ pc'[h] \in {"user", "consume"} /\ req'[h] = req[h]
        /\ \A k \in Handlers \ {h} : pc'[k] = pc[k] /\ req'[k] = req[k]
    BY <1>4 DEF PollDevice, PollUser, ConfirmOwner, ConfirmOwnerFails, Abandon, Goto, Return,
                Become, Request
  <2>2. UNCHANGED <<status, approver, answered>>
    BY <1>4 DEF PollDevice, PollUser, ConfirmOwner, ConfirmOwnerFails, Abandon
  <2> QED
    BY <2>1, <2>2
<1>5. ASSUME NEW h \in Handlers, ConsumeDeviceCode(h)
      PROVE Good'
  <2>1. /\ pc[h] = "consume" /\ req[h].code \in Codes
        /\ \A k \in Handlers \ {h} : pc'[k] = pc[k] /\ req'[k] = req[k]
        /\ UNCHANGED <<approver, answered>>
    BY <1>5 DEF ConsumeDeviceCode, Goto, Return, Become
  <2>2. CASE status[req[h].code] = "approved"
    <3>1. /\ status' = [status EXCEPT ![req[h].code] = "consumed"]
          /\ pc'[h] = "answer" /\ req'[h] = req[h]
      BY <1>5, <2>2 DEF ConsumeDeviceCode, Goto
    <3> QED
      BY <2>1, <2>2, <3>1
  <2>3. CASE status[req[h].code] # "approved"
    <3>1. UNCHANGED status /\ pc'[h] = "idle"
      BY <1>5, <2>3 DEF ConsumeDeviceCode, Return, Become
    <3> QED
      BY <2>1, <3>1
  <2> QED
    BY <2>2, <2>3
<1>6. ASSUME NEW h \in Handlers, Answer(h)
      PROVE Good'
  <2>1. /\ pc[h] = "answer" /\ req[h].code \in Codes
        /\ pc'[h] = "idle"
        /\ \A k \in Handlers \ {h} : pc'[k] = pc[k] /\ req'[k] = req[k]
        /\ answered' = [answered EXCEPT ![req[h].code] = @ + 1]
        /\ UNCHANGED <<status, approver>>
    BY <1>6 DEF Answer, Return, Become
  <2>2. answered[req[h].code] = 0 /\ answered'[req[h].code] = 1
    BY <2>1
  <2> QED
    BY <2>1, <2>2
<1>7. ASSUME NEW h \in Handlers, ApproveDeviceCode(h)
      PROVE Good'
  <2>1. /\ pc'[h] = "idle" /\ req[h].code \in Codes
        /\ \A k \in Handlers \ {h} : pc'[k] = pc[k] /\ req'[k] = req[k]
        /\ UNCHANGED answered
    BY <1>7 DEF ApproveDeviceCode, Return, Become
  <2>2. CASE status[req[h].code] = "pending"
    <3>1. /\ status' = [status EXCEPT ![req[h].code] = "approved"]
          /\ approver' = [approver EXCEPT ![req[h].code] = req[h].user]
      BY <1>7, <2>2 DEF ApproveDeviceCode
    <3>2. req[h].user \in Users /\ approver[req[h].code] = NoUser
      BY <1>7, <2>1, <2>2 DEF ApproveDeviceCode
    <3> QED
      BY <2>1, <2>2, <3>1, <3>2, NullAssumption
  <2>3. CASE status[req[h].code] # "pending"
    <3>1. UNCHANGED <<status, approver>>
      BY <1>7, <2>3 DEF ApproveDeviceCode
    <3> QED
      BY <2>1, <3>1
  <2> QED
    BY <2>2, <2>3
<1>8. ASSUME NEW h \in Handlers, DenyDeviceCode(h)
      PROVE Good'
  <2>1. /\ pc'[h] = "idle" /\ req[h].code \in Codes
        /\ \A k \in Handlers \ {h} : pc'[k] = pc[k] /\ req'[k] = req[k]
        /\ UNCHANGED <<approver, answered>>
        /\ IF status[req[h].code] = "pending"
           THEN status' = [status EXCEPT ![req[h].code] = "denied"] ELSE UNCHANGED status
    BY <1>8 DEF DenyDeviceCode, Return, Become
  <2> QED
    BY <2>1, NullAssumption
<1>9. ASSUME Sweep PROVE Good'
  BY <1>9 DEF Sweep
<1>10. ASSUME NEW c \in Codes, Expire(c) PROVE Good'
  BY <1>10 DEF Expire
<1>11. ASSUME NEW u \in Users, ToggleUser(u) PROVE Good'
  BY <1>11 DEF ToggleUser
<1>12. ASSUME NEW d \in Devices, RevokeDevice(d) \/ SetOwnerOnly(d) PROVE Good'
  BY <1>12 DEF RevokeDevice, SetOwnerOnly
<1> QED
  BY <1>0, <1>1, <1>2, <1>3, <1>4, <1>5, <1>6, <1>7, <1>8, <1>9, <1>10, <1>11, <1>12
  DEF Next, Step

\* The inductive invariant holds throughout.
THEOREM Inductive == Spec => []IInv
<1>1. IInv /\ [Next]_vars => IInv'
  <2>1. IInv => TypeOK
    BY DEF IInv
  <2> QED
    BY <2>1, TypeStep, OnceStep DEF IInv
<1> QED
  BY InitOK, <1>1, PTL DEF Spec

\* A device code is exchanged at most once, and while the poll that won it is at
\* work no other poll has it (ConsumeDeviceCode against concurrent polls, the
\* sweeper and late decisions).
THEOREM CodeExchangedOnce == Spec => []ExchangedOnce
<1>1. IInv => ExchangedOnce
  BY DEF IInv
<1> QED
  BY Inductive, <1>1, PTL

\* A poll signs in the user who approved the grant and nobody else; a denied
\* grant has no approver and no answer (ApproveDeviceCode, DenyDeviceCode).
THEOREM ApproverGetsTokens == Spec => []TokensOnlyForApprover
<1>1. IInv => TokensOnlyForApprover
  BY DEF IInv
<1> QED
  BY Inductive, <1>1, PTL

\* A denied grant is never approved or exchanged, an approved one keeps its
\* approver, an exchanged one stays so until it is swept: every UPDATE of the
\* status is conditional on the status it replaces.
THEOREM FirstDecisionStands == Spec => DecisionIsFinal
<1> DEFINE Kept ==
      \A c \in Codes :
         /\ status[c] = "denied" => status'[c] \in {"denied", "gone"}
         /\ status[c] = "approved" => status'[c] \in {"approved", "consumed", "gone"}
         /\ status[c] = "consumed" => status'[c] \in {"consumed", "gone"}
         /\ approver[c] # NoUser => approver'[c] = approver[c]
<1>1. ASSUME IInv, [Next]_vars PROVE [Kept]_vars
  <2> SUFFICES ASSUME Next PROVE Kept
    BY <1>1
  <2>t. /\ status \in [Codes -> Statuses]
        /\ approver \in [Codes -> Users \cup {NoUser}]
        /\ \A h \in Handlers : pc[h] # "idle" => req[h].code \in Codes
        /\ \A c \in Codes : status[c] = "pending" => approver[c] = NoUser
    BY <1>1 DEF IInv, TypeOK, WinnersConsumed
  <2>1. ASSUME NEW c \in Codes, NEW d \in Devices \cup {NoDevice}, DeviceAuthorization(c, d)
        PROVE Kept
    BY <2>t, <2>1 DEF DeviceAuthorization
  <2>2. ASSUME NEW h \in Handlers, ConsumeDeviceCode(h) PROVE Kept
    BY <2>t, <2>2 DEF ConsumeDeviceCode
  <2>3. ASSUME NEW h \in Handlers, ApproveDeviceCode(h) PROVE Kept
    <3>1. req[h].code \in Codes
      BY <2>t, <2>3 DEF ApproveDeviceCode
    <3> QED
      BY <2>t, <2>3, <3>1 DEF ApproveDeviceCode
  <2>4. ASSUME NEW h \in Handlers, DenyDeviceCode(h) PROVE Kept
    BY <2>t, <2>4 DEF DenyDeviceCode
  <2>5. ASSUME Sweep PROVE Kept
    BY <2>t, <2>5 DEF Sweep
  <2>6. CASE UNCHANGED <<status, approver>>
    BY <2>t, <2>6
  <2> QED
    BY <2>1, <2>2, <2>3, <2>4, <2>5, <2>6
    DEF Next, Step, PollRead, PollDevice, PollUser, Answer, ConfirmRead, ConfirmOwner,
        ConfirmOwnerFails, Abandon, Expire, ToggleUser, RevokeDevice, SetOwnerOnly
<1> QED
  BY Inductive, <1>1, PTL DEF Spec, DecisionIsFinal

\* A poll passes the device check only if, at an instant while it ran, the device
\* of the grant was active and, if owner-only, the approver was its owner
\* (authenticateDeviceRequest in grantDeviceCode).
THEOREM DeviceWasAdmissible == Spec => []DeviceAdmissibleAtExchange
<1>1. Init => DeviceAdmissibleAtExchange
  BY DEF Init, DeviceAdmissibleAtExchange
<1>2. ASSUME IInv, DeviceAdmissibleAtExchange, [Next]_vars
      PROVE  DeviceAdmissibleAtExchange'
  <2>0. CASE UNCHANGED vars
    BY <1>2, <2>0 DEF vars, DeviceAdmissibleAtExchange
  <2>t. /\ pc \in [Handlers -> PCs]
        /\ req \in [Handlers -> Request]
        /\ bound \in [Codes -> Devices \cup {NoDevice}]
    BY <1>2 DEF IInv, TypeOK
  <2> SUFFICES ASSUME Next, NEW h \in Handlers, pc'[h] \in {"user", "consume", "answer"}
               PROVE  clear'[h]
    BY <1>2, <2>0 DEF DeviceAdmissibleAtExchange
  <2> DEFINE Passed ==
        \/ pc[h] \in {"user", "consume", "answer"}
        \/ bound'[req'[h].code] = NoDevice
        \/ Admissible(bound[req[h].code], req[h].user)'
  <2>1. Passed
    <3>1. ASSUME NEW k \in Handlers, NEW c \in Codes, NEW d \in Devices \cup {NoDevice},
                 PollRead(k, c, d)
          PROVE  Passed
      BY <2>t, <3>1 DEF PollRead, Become, Params
    <3>2. ASSUME NEW k \in Handlers, PollDevice(k) PROVE Passed
      BY <2>t, <3>2 DEF PollDevice, Goto, Return, Become, Admissible, world
    <3>3. ASSUME NEW k \in Handlers, NEW c \in Codes, NEW u \in Users,
                 NEW a \in {"allow", "deny"}, ConfirmRead(k, c, u, a)
          PROVE  Passed
      BY <2>t, <3>3 DEF ConfirmRead, Become
    <3>4. ASSUME NEW k \in Handlers,
                 PollUser(k) \/ ConsumeDeviceCode(k) \/ Answer(k) \/ ApproveDeviceCode(k)
                 \/ DenyDeviceCode(k) \/ Abandon(k)
          PROVE  Passed
      BY <2>t, <3>4 DEF PollUser, ConsumeDeviceCode, Answer, ApproveDeviceCode,
         DenyDeviceCode, Abandon, Goto, Return, Become
    <3>5. ASSUME NEW k \in Handlers, ConfirmOwner(k) \/ ConfirmOwnerFails(k) PROVE Passed
      BY <1>2, <2>t, <3>5 DEF ConfirmOwner, ConfirmOwnerFails, Goto, IInv, DecidersNamed
    <3>6. CASE UNCHANGED pc
      BY <2>t, <3>6
    <3> QED
      BY <3>1, <3>2, <3>3, <3>4, <3>5, <3>6
      DEF Next, Step, DeviceAuthorization, Expire, Sweep, ToggleUser, RevokeDevice, SetOwnerOnly
  <2> QED
    BY <1>2, <2>1 DEF Next, Remember, DeviceAdmissibleAtExchange, Polling
<1> QED
  BY Inductive, <1>1, <1>2, PTL DEF Spec

-----------------------------------------------------------------------------
(* The polling client: DevicePolling, for every interval, lifetime and     *)
(* delay.                                                                  *)

\* A poll asks no sooner than an interval after the one before.
Spaced ==
    /\ at = "sleeping" /\ lastPolled # Never => lastPolled + Interval <= due
    /\ at = "sending" /\ lastPolled # Never => lastPolled + Interval <= clock

\* When the next poll reaches the server at the latest: within an interval and
\* two messages of the last, or of the beginning.
Prompt ==
    /\ at # "done" => clock <= due
    /\ at = "start" => due = MaxDelay
    /\ at = "sending" =>
          IF lastPolled = Never THEN due <= 2 * MaxDelay
                                     ELSE due <= lastPolled + Interval + 2 * MaxDelay
    /\ at = "replying" /\ reply = "authorization_pending" =>
          lastPolled # Never /\ due <= lastPolled + MaxDelay
    /\ at = "sleeping" => lastPolled # Never /\ due <= lastPolled + Interval + MaxDelay

\* The client may yet be told of an approval.
Waiting ==
    \/ at \in {"start", "sending", "sleeping"}
    \/ at = "replying" /\ reply = "authorization_pending"

\* The code has expired, and an approval came too late to be collected.
Overdue == clock > TTL /\ (approvedAt # Never =>
                              approvedAt + Interval + 2 * MaxDelay > TTL)

\* An approval that was not collected came after the last poll.
PollInv ==
    /\ clock \in Nat /\ clock <= MaxTime
    /\ lastPolled \in Nat /\ (lastPolled # Never => lastPolled <= clock)
    /\ approvedAt \in Nat /\ (approvedAt # Never => approvedAt <= clock)
    /\ due \in Nat /\ deadline \in Nat /\ interval = Interval
    /\ at \in {"start", "sending", "replying", "sleeping", "done"}
    /\ at \notin {"start", "done"} => deadline >= TTL
    /\ reply \in {"none", "authorization_pending", "tokens", "access_denied", "invalid_grant",
                 "expired_token"}
    /\ at = "start" => lastPolled = Never
    /\ codeStatus = "pending" => approvedAt = Never
    /\ Spaced /\ Prompt
    /\ Waiting /\ lastPolled # Never /\ approvedAt # Never
          => lastPolled <= approvedAt
    /\ (at = "replying" /\ reply = "expired_token") \/ outcome \in {"expired_token", "deadline"}
          => Overdue

\* It holds when the device has its code.
LEMMA PollBegins == ASSUME PollInit PROVE PollInv
  BY TimeAssumption DEF PollInit, PollInv, Spaced, Prompt, Waiting, Overdue, Never

\* Every step of the client, the server, the user and the clock keeps it.
LEMMA PollStep == ASSUME PollInv, [PollNext]_pollVars PROVE PollInv'
  <1> USE TimeAssumption DEF PollInv, Spaced, Prompt, Waiting, Overdue, Never
  <1>1. CASE Start
    BY <1>1 DEF Start, server
  <1>2. CASE ServePoll
    BY <1>2 DEF ServePoll, server, Respond
  <1>3. CASE Receive
    BY <1>3 DEF Receive, server, Stop, SleepFrom, Patience
  <1>4. CASE Wake
    BY <1>4 DEF Wake, server
  <1>5. CASE Lose
    BY <1>5 DEF Lose, server, Stop
  <1>6. CASE Tick
    BY <1>6 DEF Tick, server
  <1>7. ASSUME NEW d \in {"approved", "denied"}, Decide(d) PROVE PollInv'
    BY <1>7 DEF Decide
  <1>8. CASE UNCHANGED pollVars
    BY <1>8 DEF pollVars
  <1> QED
    BY <1>1, <1>2, <1>3, <1>4, <1>5, <1>6, <1>7, <1>8 DEF PollNext

LEMMA PollInvariant == PollSpec => []PollInv
  <1>1. PollInit => PollInv
    BY PollBegins
  <1>2. PollInv /\ [PollNext]_pollVars => PollInv'
    BY PollStep
  <1> QED
    BY <1>1, <1>2, PTL DEF PollSpec

\* A client that sleeps its interval from the reply on (WaitForDeviceCode) is
\* never told to slow down by grantDeviceCode, however long or short its
\* messages travel.
THEOREM NeverTooFast == PollSpec => []NeverSlowedDown
  <1>1. PollInv => NeverSlowedDown
    BY DEF PollInv, NeverSlowedDown
  <1> QED
    BY <1>1, PollInvariant, PTL

\* If WaitForDeviceCode gives up on a code that was approved, the approval came
\* less than an interval and two messages before the end of the code's life.
THEOREM ApprovalsCollected == PollSpec => []ApprovedInTimeIsCollected
  <1>1. PollInv => ApprovedInTimeIsCollected
    BY DEF PollInv, ApprovedInTimeIsCollected, Overdue
  <1> QED
    BY <1>1, PollInvariant, PTL
=============================================================================
