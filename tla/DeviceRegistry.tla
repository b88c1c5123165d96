--------------------------- MODULE DeviceRegistry ---------------------------
(***************************************************************************)
(* The registry of enrolled devices and the guard against replayed proofs. *)
(*                                                                         *)
(* A device is enrolled with the key of a DPoP proof, may have to wait for *)
(* an administrator, buys device tokens with assertions signed by its key, *)
(* replaces its key, and is revoked and at last deleted.  Each store call  *)
(* is a step; what a handler read of a row may be out of date when it      *)
(* writes.                                                                 *)
(*                                                                         *)
(* Proofs and assertions may be presented any number of times.  Time is    *)
(* the age of each: "valid" while it can be verified, "over" once its row  *)
(* in device_assertion_jtis is past its expiry.  A DPoP proof is verified  *)
(* until iat + skew and remembered until iat + 2 * skew: in between it is  *)
(* "stale".  An assertion is verified until exp + skew and remembered for  *)
(* exactly as long.  Signatures, device tokens and their DPoP binding are  *)
(* checked without state and appear as a request that is made or not.      *)
(***************************************************************************)
EXTENDS Naturals

CONSTANTS
    Devices,            \* rows of devices
    Keys, Handlers,
    Proofs,             \* DPoP proofs and assertions
    Use,                \* what each of them is for
    None

Uses == {"enroll", "grant", "rotate"}
ASSUME UseAssumption == Use \in [Proofs -> Uses]
ASSUME NoneAssumption == None \notin Devices \cup Keys \cup Proofs

VARIABLES
    status,             \* of a device; "new" and "deleted" are no row
    key, previous,      \* fingerprint, previous_fingerprint
    tokens,             \* devices with a device token that has not expired
    made,               \* the signed proofs
    age,
    seen,               \* rows of device_assertion_jtis
    pc, req,            \* handlers in flight
    accepted,           \* history: proofs that passed the guard
    again,              \* history: those that passed twice before they were over
    admitted            \* history: devices that were active at some time

registry == <<status, key, previous, admitted>>
guard == <<made, age, seen, accepted, again>>
vars == <<status, key, previous, tokens, made, age,
          seen, pc, req, accepted, again, admitted>>

Statuses == {"new", "pending", "active", "revoked", "deleted"}
Ages == {"unmade", "valid", "stale", "over"}
PCs == {"idle", "device", "jti", "inUse", "create", "rotate", "issue", "revoke"}

\* A proof of key; an assertion that names a device; for a rotation, the key
\* it replaces.
Proof == [key : Keys, dev : Devices \cup {None}, old : Keys \cup {None}]
Unmade == [key |-> None, dev |-> None, old |-> None]

\* op: the handler; dev: the device it is about; proof: what it presents.
Params(op, d, p) == [op |-> op, dev |-> d, proof |-> p]
NoParams == Params("none", None, None)
Request == [op : Uses \cup {"unenroll", "none"}, dev : Devices \cup {None},
            proof : Proofs \cup {None}]

Init ==
    /\ status = [d \in Devices |-> "new"]
    /\ key = [d \in Devices |-> None]
    /\ previous = [d \in Devices |-> None]
    /\ tokens = {}
    /\ made = [p \in Proofs |-> Unmade]
    /\ age = [p \in Proofs |-> "unmade"]
    /\ seen = {}
    /\ pc = [h \in Handlers |-> "idle"]
    /\ req = [h \in Handlers |-> NoParams]
    /\ accepted = {} /\ again = {}
    /\ admitted = {}

Goto(h, l) == pc' = [pc EXCEPT ![h] = l] /\ UNCHANGED req
Become(h, l, q) == pc' = [pc EXCEPT ![h] = l] /\ req' = [req EXCEPT ![h] = q]
Return(h) == Become(h, "idle", NoParams)

Rows == {d \in Devices : status[d] \in {"pending", "active", "revoked"}}
KeyOf(h) == made[req[h].proof].key

-----------------------------------------------------------------------------
(* Clients and time.                                                       *)

\* NewProof with any key; NewAssertion with the key of the device, or for a
\* rotation with a new one in place of it.
Sign(p, f) ==
    /\ age[p] = "unmade"
    /\ \/ Use[p] = "enroll" /\ f.dev = None /\ f.old = None
       \/ Use[p] = "grant" /\ f.dev \in Rows /\ f.key = key[f.dev] /\ f.old = None
       \/ Use[p] = "rotate" /\ f.dev \in Rows /\ f.old = key[f.dev] /\ f.key # f.old
    /\ made' = [made EXCEPT ![p] = f]
    /\ age' = [age EXCEPT ![p] = "valid"]
    /\ UNCHANGED <<registry, tokens, seen, pc, req, accepted, again>>

\* VerifyProof and VerifyAssertion, as far as time goes.
Verifies(p) == age[p] = "valid"

\* The clock passes a limit of p.  No request needs the five minutes between
\* the last verification of a DPoP proof and the expiry of its row to get from
\* one to the other.
Age(p) ==
    /\ \/ /\ age[p] = "valid"
          /\ age' = [age EXCEPT ![p] = IF Use[p] = "enroll" THEN "stale" ELSE "over"]
       \/ /\ age[p] = "stale"
          /\ ~\E h \in Handlers : pc[h] = "jti" /\ req[h].proof = p
          /\ age' = [age EXCEPT ![p] = "over"]
    /\ UNCHANGED <<registry, tokens, made, seen, pc, req, accepted, again>>

\* Mutant: the row of a DPoP proof is kept until iat + skew only.
ExpiredEarly(p) == age[p] # "valid"

\* Rows that ConsumeJTI and the sweeper delete.
Expired(p) == age[p] = "over"

\* SweepExpired.
Sweep ==
    /\ \E p \in seen : Expired(p)
    /\ seen' = {p \in seen : ~Expired(p)}
    /\ UNCHANGED <<registry, tokens, made, age, pc, req, accepted, again>>

TokenExpires(d) ==
    /\ d \in tokens
    /\ tokens' = tokens \ {d}
    /\ UNCHANGED <<registry, guard, pc, req>>

-----------------------------------------------------------------------------
(* Requests.                                                               *)

\* handleEnrollDevice up to VerifyProof.
EnrollDevice(h, p) ==
    /\ pc[h] = "idle"
    /\ Use[p] = "enroll" /\ Verifies(p)
    /\ Become(h, "jti", Params("enroll", None, p))
    /\ UNCHANGED <<registry, guard, tokens>>

\* grantJWTBearer: GetDevice, its status, and the assertion under its key.
GrantJWTBearer(h, p) ==
    LET d == made[p].dev IN
    /\ pc[h] = "idle"
    /\ Use[p] = "grant" /\ Verifies(p)
    /\ status[d] = "active"
    /\ key[d] = made[p].key
    /\ Become(h, "jti", Params("grant", d, p))
    /\ UNCHANGED <<registry, guard, tokens>>

\* requireDevice: resourceToken, for the handlers that change the registry.
RequireDevice(h, d, op) ==
    /\ pc[h] = "idle"
    /\ d \in tokens
    /\ Become(h, "device", Params(op, d, None))
    /\ UNCHANGED <<registry, guard, tokens>>

\* Mutant: the subject of the new key's proof is not compared.
AuthenticateDeviceAny(h, p) ==
    LET d == req[h].dev IN
    /\ pc[h] = "device"
    /\ IF status[d] # "active" THEN Return(h)
       ELSE IF req[h].op = "unenroll" THEN Goto(h, "revoke")
       ELSE IF Use[p] = "rotate" /\ Verifies(p) /\ made[p].old = key[d]
       THEN Become(h, "jti", Params("rotate", d, p))
       ELSE Return(h)
    /\ UNCHANGED <<registry, guard, tokens>>

\* authenticateDeviceRequest: GetDevice; for a rotation then the proof of the
\* new key, which names the device and its key as they were read.
AuthenticateDevice(h, p) ==
    LET d == req[h].dev IN
    /\ pc[h] = "device"
    /\ IF status[d] # "active" THEN Return(h)
       ELSE IF req[h].op = "unenroll" THEN Goto(h, "revoke")
       ELSE IF Use[p] = "rotate" /\ Verifies(p) /\ made[p].dev = d /\ made[p].old = key[d]
       THEN Become(h, "jti", Params("rotate", d, p))
       ELSE Return(h)
    /\ UNCHANGED <<registry, guard, tokens>>

\* ConsumeJTI: prune, insert unless present.  The owner is looked up next: one
\* who is missing or disabled is a way to Abandon.
ConsumeJTI(h) ==
    LET p == req[h].proof
        kept == {x \in seen : ~Expired(x)} IN
    /\ pc[h] = "jti"
    /\ seen' = kept \cup {p}
    /\ IF p \in kept
       THEN Return(h) /\ UNCHANGED <<accepted, again>>
       ELSE /\ Goto(h, IF req[h].op = "grant" THEN "issue" ELSE "inUse")
            /\ accepted' = accepted \cup {p}
            /\ again' = IF p \in accepted /\ age[p] # "over" THEN again \cup {p} ELSE again
    /\ UNCHANGED <<registry, tokens, made, age>>

FingerprintInUse(h) ==
    /\ pc[h] = "inUse"
    /\ IF \E d \in Rows : KeyOf(h) \in {key[d], previous[d]}
       THEN Return(h)
       ELSE Goto(h, IF req[h].op = "rotate" THEN "rotate" ELSE "create")
    /\ UNCHANGED <<registry, guard, tokens>>

\* Mutant: no constraint, FingerprintInUse has looked.
UniqueAssumed(k, d) == TRUE

\* The UNIQUE constraint on fingerprint, for a row other than d.
Unique(k, d) == \A x \in Rows \ {d} : key[x] # k

\* CreateDevice with a new id d; approval is the setting as it is now.
CreateDevice(h, d, approval) ==
    /\ pc[h] = "create"
    /\ status[d] = "new"
    /\ IF Unique(KeyOf(h), d)
       THEN /\ status' = [status EXCEPT ![d] = IF approval THEN "pending" ELSE "active"]
            /\ key' = [key EXCEPT ![d] = KeyOf(h)]
            /\ admitted' = IF approval THEN admitted ELSE admitted \cup {d}
       ELSE UNCHANGED <<status, key, admitted>>
    /\ Return(h)
    /\ UNCHANGED <<previous, guard, tokens>>

\* Mutant: without the condition on the status.
RotateDeviceKeyBlind(h) ==
    LET d == req[h].dev IN
    /\ pc[h] = "rotate"
    /\ IF Unique(KeyOf(h), d)
       THEN /\ previous' = [previous EXCEPT ![d] = key[d]]
            /\ key' = [key EXCEPT ![d] = KeyOf(h)]
       ELSE UNCHANGED <<previous, key>>
    /\ Return(h)
    /\ UNCHANGED <<status, admitted, guard, tokens>>

\* RotateDeviceKey: of an active device, whatever its key is by now.
RotateDeviceKey(h) ==
    LET d == req[h].dev IN
    /\ pc[h] = "rotate"
    /\ IF status[d] = "active" /\ Unique(KeyOf(h), d)
       THEN /\ previous' = [previous EXCEPT ![d] = key[d]]
            /\ key' = [key EXCEPT ![d] = KeyOf(h)]
       ELSE UNCHANGED <<previous, key>>
    /\ Return(h)
    /\ UNCHANGED <<status, admitted, guard, tokens>>

IssueDeviceToken(h) ==
    /\ pc[h] = "issue"
    /\ tokens' = tokens \cup {req[h].dev}
    /\ Return(h)
    /\ UNCHANGED <<registry, guard>>

\* RevokeDevice, of a row that is not revoked.
Revoke(d) == status' = IF d \in Rows THEN [status EXCEPT ![d] = "revoked"] ELSE status

\* handleDeviceUnenroll.
Unenroll(h) ==
    /\ pc[h] = "revoke"
    /\ Revoke(req[h].dev)
    /\ Return(h)
    /\ UNCHANGED <<key, previous, admitted, guard, tokens>>

\* A store call fails, a check the model leaves out refuses, the peer is gone.
Abandon(h) ==
    /\ pc[h] # "idle"
    /\ Return(h)
    /\ UNCHANGED <<registry, guard, tokens>>

-----------------------------------------------------------------------------
(* The administrator and the owner.                                        *)

\* handleAdminRevokeDevice, handleAccountRevokeDevice.
RevokeDevice(d) ==
    /\ status[d] \in {"pending", "active"}
    /\ Revoke(d)
    /\ UNCHANGED <<key, previous, admitted, guard, tokens, pc, req>>

ApproveDevice(d) ==
    /\ status[d] = "pending"
    /\ status' = [status EXCEPT ![d] = "active"]
    /\ admitted' = admitted \cup {d}
    /\ UNCHANGED <<key, previous, guard, tokens, pc, req>>

DeleteDevice(d) ==
    /\ status[d] = "revoked"
    /\ status' = [status EXCEPT ![d] = "deleted"]
    /\ UNCHANGED <<key, previous, admitted, guard, tokens, pc, req>>

Next ==
    \/ \E p \in Proofs :
        \/ \E f \in Proof : Sign(p, f)
        \/ Age(p)
    \/ Sweep
    \/ \E h \in Handlers :
        \/ \E p \in Proofs :
            EnrollDevice(h, p) \/ GrantJWTBearer(h, p) \/ AuthenticateDevice(h, p)
        \/ \E d \in Devices :
            \/ \E op \in {"rotate", "unenroll"} : RequireDevice(h, d, op)
            \/ \E approval \in BOOLEAN : CreateDevice(h, d, approval)
        \/ ConsumeJTI(h) \/ FingerprintInUse(h)
        \/ RotateDeviceKey(h) \/ IssueDeviceToken(h) \/ Unenroll(h)
        \/ Abandon(h)
    \/ \E d \in Devices :
        TokenExpires(d) \/ RevokeDevice(d) \/ ApproveDevice(d) \/ DeleteDevice(d)

Spec == Init /\ [][Next]_vars

-----------------------------------------------------------------------------
(* Properties.                                                             *)

TypeOK ==
    /\ status \in [Devices -> Statuses]
    /\ key \in [Devices -> Keys \cup {None}]
    /\ previous \in [Devices -> Keys \cup {None}]
    /\ tokens \subseteq Devices
    /\ made \in [Proofs -> Proof \cup {Unmade}]
    /\ age \in [Proofs -> Ages]
    /\ seen \subseteq Proofs
    /\ pc \in [Handlers -> PCs]
    /\ req \in [Handlers -> Request]
    /\ accepted \subseteq Proofs /\ again \subseteq accepted
    /\ admitted \subseteq Devices
    /\ \A d \in Rows : key[d] \in Keys

\* No two devices have the same key, whatever enrollments and rotations check
\* for it at the same time.
OneDevicePerKey == \A d, e \in Rows : key[d] = key[e] => d = e

\* A proof or assertion is accepted once, however often and by whomever it is
\* presented: no row of the replay guard goes while what it stands for still
\* verifies, or while a request that verified a DPoP proof is on its way to the
\* table.  (An assertion verified in its last instant may come too late.)
AcceptedOnce == again = {}

\* A revoked device is never active again and keeps its last key, also when a
\* rotation, an approval or another revocation was under way; a device waiting
\* for approval cannot change its key; ids are not used again.
RevokedIsFinal ==
    [][\A d \in Devices :
         /\ status[d] = "revoked" => status'[d] \in {"revoked", "deleted"}
         /\ status[d] = "deleted" => status'[d] = "deleted"
         /\ status[d] \in {"pending", "revoked", "deleted"} =>
              key'[d] = key[d] /\ previous'[d] = previous[d]]_vars

\* A device token is only ever issued to a device that was admitted: enrolled
\* when no approval was required, or approved.
TokensOnlyForAdmitted == tokens \subseteq admitted

\* The key of a device was proved by its holder, in an accepted enrollment or
\* an accepted rotation of this device: it can always sign the next assertion.
KeyProvenForDevice ==
    \A d \in Rows : \E p \in accepted :
        /\ made[p].key = key[d]
        /\ Use[p] = "enroll" \/ (Use[p] = "rotate" /\ made[p].dev = d)

\* What makes AcceptedOnce inductive: an accepted proof is remembered until it
\* is over.
AcceptedIsRemembered == \A p \in accepted : age[p] # "over" => p \in seen

\* What makes the others inductive: a handler presents a proof of its kind,
\* about its device, and has had it accepted once it is past the guard; only
\* admitted devices are active or ask for tokens.
HandlersTrue ==
    /\ \A d \in Devices : status[d] = "active" => d \in admitted
    /\ \A h \in Handlers :
         LET q == req[h] IN
         /\ pc[h] = "device" => q.op \in {"rotate", "unenroll"}
         /\ pc[h] \in {"device", "rotate", "issue", "revoke"} => q.dev \in Devices
         /\ pc[h] \in {"jti", "inUse", "create", "rotate", "issue"} =>
              q.proof \in Proofs /\ Use[q.proof] = q.op /\ age[q.proof] # "unmade"
         /\ pc[h] \in {"inUse", "create", "rotate", "issue"} =>
              q.proof \in accepted
         /\ pc[h] \in {"jti", "inUse", "rotate"} /\ q.op = "rotate" =>
              q.dev \in Devices /\ made[q.proof].dev = q.dev
         /\ pc[h] \in {"jti", "issue"} /\ q.op = "grant" =>
              q.dev \in Devices /\ q.dev \in admitted
         /\ pc[h] = "inUse" => q.op \in {"rotate", "enroll"}
         /\ pc[h] = "create" => q.op = "enroll"
         /\ pc[h] = "rotate" => q.op = "rotate"
         /\ pc[h] = "issue" => q.op = "grant"
    /\ \A p \in accepted : age[p] # "unmade"
    /\ \A p \in Proofs : age[p] # "unmade" =>
         made[p].key \in Keys /\ (Use[p] # "enroll" => made[p].dev \in Devices)

\* The inductive invariant.
IInv ==
    /\ TypeOK
    /\ OneDevicePerKey
    /\ AcceptedOnce /\ AcceptedIsRemembered
    /\ TokensOnlyForAdmitted
    /\ KeyProvenForDevice
    /\ HandlersTrue
=============================================================================
