---------------------------- MODULE DeviceGrant ----------------------------
(***************************************************************************)
(* The OAuth device authorization grant (RFC 8628): a device asks for a    *)
(* code, a user approves or denies it on /device, and the device polls the *)
(* token endpoint until the code can be exchanged.                         *)
(*                                                                         *)
(* Polls and decisions run concurrently; each store call is a step.  What  *)
(* a handler read of a row may be stale by the time it writes: the         *)
(* UPDATEs of the store are conditional on the status for that reason.     *)
(* How often a device polls is the subject of DevicePolling.               *)
(***************************************************************************)
EXTENDS Naturals

CONSTANTS
    Codes,              \* rows of device_codes
    Users, Devices,
    Owner,              \* the user each device belongs to
    Handlers,
    NoUser, NoDevice, NoCode

ASSUME OwnerAssumption == Owner \in [Devices -> Users]
ASSUME NullAssumption ==
    NoUser \notin Users /\ NoDevice \notin Devices /\ NoCode \notin Codes

VARIABLES
    status,             \* the status column; "new" and "gone" are no row
    bound,              \* the enrolled device that asked, or NoDevice
    approver,           \* user_id
    expired,            \* rows whose expires_at has passed
    disabledUsers,
    revokedDevices,
    ownerOnly,          \* devices that admit only their owner
    pc, req,            \* handlers in flight
    answered,           \* history: token responses per code
    clear               \* history: polls during which the device was admissible

world == <<disabledUsers, revokedDevices, ownerOnly>>
vars == <<status, bound, approver, expired, disabledUsers, revokedDevices,
          ownerOnly, pc, req, answered, clear>>

Statuses == {"new", "pending", "approved", "denied", "consumed", "gone"}

PCs == {"idle", "device", "user", "consume", "answer",
        "owner", "allow", "deny"}

\* The handlers of a poll that found the code approved.
Polling == {"device", "user", "consume", "answer"}

\* code: the row; user: who the poll would sign in, or who decides; device:
\* the device that authenticated the poll, then: the decision on the form.
Params(c, u, d, t) == [code |-> c, user |-> u, device |-> d, then |-> t]
NoParams == Params(NoCode, NoUser, NoDevice, "idle")
Request == [code : Codes \cup {NoCode}, user : Users \cup {NoUser},
            device : Devices \cup {NoDevice}, then : {"idle", "allow", "deny"}]

Init ==
    /\ status = [c \in Codes |-> "new"]
    /\ bound = [c \in Codes |-> NoDevice]
    /\ approver = [c \in Codes |-> NoUser]
    /\ expired = {}
    /\ disabledUsers = {}
    /\ revokedDevices = {}
    /\ ownerOnly \in SUBSET Devices
    /\ pc = [h \in Handlers |-> "idle"]
    /\ req = [h \in Handlers |-> NoParams]
    /\ answered = [c \in Codes |-> 0]
    /\ clear = [h \in Handlers |-> FALSE]

Goto(h, l) == pc' = [pc EXCEPT ![h] = l] /\ UNCHANGED req
Become(h, l, q) == pc' = [pc EXCEPT ![h] = l] /\ req' = [req EXCEPT ![h] = q]
Return(h) == Become(h, "idle", NoParams)

-----------------------------------------------------------------------------
(* The device.                                                             *)

\* handleDeviceAuthorization: anonymous, or authenticated by an active device.
DeviceAuthorization(c, d) ==
    /\ status[c] = "new"
    /\ d \notin revokedDevices
    /\ status' = [status EXCEPT ![c] = "pending"]
    /\ bound' = [bound EXCEPT ![c] = d]
    /\ UNCHANGED <<approver, expired, world, pc, req, answered>>

\* grantDeviceCode up to the switch on the status it read, for the status that
\* lets it go on.  d is the device whose token the poll carries.
PollRead(h, c, d) ==
    /\ pc[h] = "idle"
    /\ status[c] = "approved"
    /\ c \notin expired
    /\ Become(h, IF bound[c] = NoDevice THEN "user" ELSE "device",
              Params(c, approver[c], d, "idle"))
    /\ UNCHANGED <<status, bound, approver, expired, world, answered>>

Admissible(d, u) == d \notin revokedDevices /\ (d \in ownerOnly => Owner[d] = u)

\* Mutant: owner_only was looked at when the user approved, so not again here.
PollDeviceOnce(h) ==
    LET q == req[h] IN
    /\ pc[h] = "device"
    /\ IF q.device = bound[q.code] /\ q.device \notin revokedDevices
       THEN Goto(h, "user") ELSE Return(h)
    /\ UNCHANGED <<status, bound, approver, expired, world, answered>>

\* authenticateDeviceRequest: the device of the grant, active, and if it is
\* owner-only, for its owner.
PollDevice(h) ==
    LET q == req[h] IN
    /\ pc[h] = "device"
    /\ IF q.device = bound[q.code] /\ Admissible(q.device, q.user)
       THEN Goto(h, "user") ELSE Return(h)
    /\ UNCHANGED <<status, bound, approver, expired, world, answered>>

\* GetUserByID.
PollUser(h) ==
    /\ pc[h] = "user"
    /\ IF req[h].user \in disabledUsers THEN Return(h) ELSE Goto(h, "consume")
    /\ UNCHANGED <<status, bound, approver, expired, world, answered>>

\* Mutant: ConsumeDeviceCode without the condition on the status.
ConsumeDeviceCodeBlind(h) ==
    /\ pc[h] = "consume"
    /\ status' = [status EXCEPT ![req[h].code] = "consumed"]
    /\ Goto(h, "answer")
    /\ UNCHANGED <<bound, approver, expired, world, answered>>

\* ConsumeDeviceCode: approved to consumed, for one of the polls.
ConsumeDeviceCode(h) ==
    /\ pc[h] = "consume"
    /\ IF status[req[h].code] = "approved"
       THEN /\ status' = [status EXCEPT ![req[h].code] = "consumed"]
            /\ Goto(h, "answer")
       ELSE Return(h) /\ UNCHANGED status
    /\ UNCHANGED <<bound, approver, expired, world, answered>>

\* Tokens are signed, the refresh token stored and the response written.
Answer(h) ==
    /\ pc[h] = "answer"
    /\ answered' = [answered EXCEPT ![req[h].code] = @ + 1]
    /\ Return(h)
    /\ UNCHANGED <<status, bound, approver, expired, world>>

-----------------------------------------------------------------------------
(* The user on /device.                                                    *)

\* lookupUserCode in handleDeviceConfirm: the row is pending and not expired.
ConfirmRead(h, c, u, action) ==
    /\ pc[h] = "idle"
    /\ u \notin disabledUsers
    /\ status[c] = "pending"
    /\ c \notin expired
    /\ Become(h, IF bound[c] = NoDevice THEN action ELSE "owner",
              Params(c, u, NoDevice, action))
    /\ UNCHANGED <<status, bound, approver, expired, world, answered>>

\* GetDevice: anyone but the owner of an owner-only device denies the grant,
\* whatever button was pressed.
ConfirmOwner(h) ==
    LET q == req[h]
        d == bound[q.code] IN
    /\ pc[h] = "owner"
    /\ Goto(h, IF d \in ownerOnly /\ Owner[d] # q.user THEN "deny" ELSE q.then)
    /\ UNCHANGED <<status, bound, approver, expired, world, answered>>

\* GetDevice fails: the decision of the form goes through unchecked.
ConfirmOwnerFails(h) ==
    /\ pc[h] = "owner"
    /\ Goto(h, req[h].then)
    /\ UNCHANGED <<status, bound, approver, expired, world, answered>>

\* Mutant: ApproveDeviceCode without the condition on the status.
ApproveDeviceCodeBlind(h) ==
    /\ pc[h] = "allow"
    /\ status' = [status EXCEPT ![req[h].code] = "approved"]
    /\ approver' = [approver EXCEPT ![req[h].code] = req[h].user]
    /\ Return(h)
    /\ UNCHANGED <<bound, expired, world, answered>>

\* ApproveDeviceCode: only a pending grant; its expiry is not looked at again.
ApproveDeviceCode(h) ==
    /\ pc[h] = "allow"
    /\ IF status[req[h].code] = "pending"
       THEN /\ status' = [status EXCEPT ![req[h].code] = "approved"]
            /\ approver' = [approver EXCEPT ![req[h].code] = req[h].user]
       ELSE UNCHANGED <<status, approver>>
    /\ Return(h)
    /\ UNCHANGED <<bound, expired, world, answered>>

\* DenyDeviceCode: only a pending grant; the error of a late denial is ignored.
DenyDeviceCode(h) ==
    /\ pc[h] = "deny"
    /\ IF status[req[h].code] = "pending"
       THEN status' = [status EXCEPT ![req[h].code] = "denied"]
       ELSE UNCHANGED status
    /\ Return(h)
    /\ UNCHANGED <<bound, approver, expired, world, answered>>

-----------------------------------------------------------------------------
(* Time, failures and the administrator.                                   *)

\* expires_at passes.
Expire(c) ==
    /\ status[c] # "new"
    /\ c \notin expired
    /\ expired' = expired \cup {c}
    /\ UNCHANGED <<status, bound, approver, world, pc, req, answered>>

\* DeleteExpiredDeviceCodes, from the sweeper, while requests are in flight.
Sweep ==
    /\ \E c \in expired : status[c] # "gone"
    /\ status' = [c \in Codes |-> IF c \in expired THEN "gone" ELSE status[c]]
    /\ UNCHANGED <<bound, approver, expired, world, pc, req, answered>>

\* A store call or signing fails, or the peer hangs up.
Abandon(h) ==
    /\ pc[h] # "idle"
    /\ Return(h)
    /\ UNCHANGED <<status, bound, approver, expired, world, answered>>

ToggleUser(u) ==
    /\ disabledUsers' = IF u \in disabledUsers THEN disabledUsers \ {u}
                                               ELSE disabledUsers \cup {u}
    /\ UNCHANGED <<status, bound, approver, expired, revokedDevices, ownerOnly,
                   pc, req, answered>>

RevokeDevice(d) ==
    /\ d \notin revokedDevices
    /\ revokedDevices' = revokedDevices \cup {d}
    /\ UNCHANGED <<status, bound, approver, expired, disabledUsers, ownerOnly,
                   pc, req, answered>>

\* SetDeviceOwnerOnly, either way.
SetOwnerOnly(d) ==
    /\ d \notin revokedDevices
    /\ ownerOnly' = IF d \in ownerOnly THEN ownerOnly \ {d} ELSE ownerOnly \cup {d}
    /\ UNCHANGED <<status, bound, approver, expired, disabledUsers, revokedDevices,
                   pc, req, answered>>

Step ==
    \/ \E c \in Codes, d \in Devices \cup {NoDevice} : DeviceAuthorization(c, d)
    \/ \E h \in Handlers :
        \/ \E c \in Codes :
            \/ \E d \in Devices \cup {NoDevice} : PollRead(h, c, d)
            \/ \E u \in Users, action \in {"allow", "deny"} : ConfirmRead(h, c, u, action)
        \/ PollDevice(h)
        \/ PollUser(h)
        \/ ConsumeDeviceCode(h)
        \/ Answer(h)
        \/ ConfirmOwner(h)
        \/ ConfirmOwnerFails(h)
        \/ ApproveDeviceCode(h)
        \/ DenyDeviceCode(h)
        \/ Abandon(h)
    \/ \E c \in Codes : Expire(c)
    \/ Sweep
    \/ \E u \in Users : ToggleUser(u)
    \/ \E d \in Devices : RevokeDevice(d) \/ SetOwnerOnly(d)

\* History: clear[h] once the device of poll h has been admissible.
Remember ==
    clear' = [h \in Handlers |->
                /\ pc'[h] \in Polling
                /\ \/ pc[h] \in Polling /\ clear[h]
                   \/ bound'[req'[h].code] = NoDevice
                   \/ Admissible(bound[req[h].code], req[h].user)']

Next == Step /\ Remember

Spec == Init /\ [][Next]_vars

-----------------------------------------------------------------------------
(* Properties.                                                             *)

TypeOK ==
    /\ status \in [Codes -> Statuses]
    /\ bound \in [Codes -> Devices \cup {NoDevice}]
    /\ approver \in [Codes -> Users \cup {NoUser}]
    /\ expired \subseteq Codes
    /\ disabledUsers \subseteq Users
    /\ revokedDevices \subseteq Devices
    /\ ownerOnly \subseteq Devices
    /\ pc \in [Handlers -> PCs]
    /\ req \in [Handlers -> Request]
    /\ \A h \in Handlers : pc[h] # "idle" => req[h].code \in Codes
    /\ answered \in [Codes -> Nat]
    /\ clear \in [Handlers -> BOOLEAN]

\* A device code is exchanged exactly once at most: however many polls saw it
\* approved, one of them answers, and none while a winner is still at work.
ExchangedOnce ==
    /\ \A c \in Codes : answered[c] <= 1
    /\ \A h1, h2 \in Handlers :
         /\ pc[h1] = "answer"
         => /\ answered[req[h1].code] = 0
            /\ pc[h2] = "answer" /\ req[h2].code = req[h1].code => h1 = h2

\* The first decision stands: a denied grant is never approved or exchanged, an
\* approved one keeps its approver, and an exchanged one stays exchanged until
\* the sweeper deletes it.
DecisionIsFinal ==
    [][\A c \in Codes :
         /\ status[c] = "denied" => status'[c] \in {"denied", "gone"}
         /\ status[c] = "approved" => status'[c] \in {"approved", "consumed", "gone"}
         /\ status[c] = "consumed" => status'[c] \in {"consumed", "gone"}
         /\ approver[c] # NoUser => approver'[c] = approver[c]]_vars

\* Tokens are for the user who approved the grant, and a grant nobody approved
\* or somebody denied is answered with none.
TokensOnlyForApprover ==
    /\ \A h \in Handlers : pc[h] \in Polling =>
         /\ req[h].user \in Users
         /\ req[h].user = approver[req[h].code]
    /\ \A c \in Codes : status[c] = "denied" =>
         /\ answered[c] = 0
         /\ approver[c] = NoUser

\* A poll gets past the device check only if, while the poll ran, the device of
\* the grant was active and, if owner-only, the approver was its owner: what the
\* approval page saw of the device earlier is not enough.
DeviceAdmissibleAtExchange ==
    \A h \in Handlers : pc[h] \in {"user", "consume", "answer"} => clear[h]

\* What makes ExchangedOnce inductive: the code of a winner, and of an answer,
\* is consumed or swept.
WinnersConsumed ==
    /\ \A h \in Handlers : pc[h] = "answer" =>
         status[req[h].code] \in {"consumed", "gone"}
    /\ \A c \in Codes : answered[c] > 0 => status[c] \in {"consumed", "gone"}
    /\ \A c \in Codes : status[c] \in {"new", "pending", "denied"} => approver[c] = NoUser
    /\ \A c \in Codes : status[c] = "approved" => approver[c] \in Users

\* A decision under way is somebody's.
DecidersNamed ==
    \A h \in Handlers : pc[h] \in {"owner", "allow", "deny"} =>
        req[h].user \in Users /\ req[h].then \in {"allow", "deny"}

\* The inductive invariant.
IInv ==
    /\ TypeOK
    /\ DecidersNamed
    /\ ExchangedOnce
    /\ TokensOnlyForApprover
    /\ WinnersConsumed
=============================================================================
