------------------------ MODULE DeviceRegistryProofs ------------------------
(***************************************************************************)
(* Theorems about DeviceRegistry, for every set of devices, keys, proofs   *)
(* and handlers.                                                           *)
(***************************************************************************)
EXTENDS DeviceRegistry, TLAPS

\* The initial state satisfies the inductive invariant.
LEMMA InitOK == Init => IInv
  BY DEF Init, IInv, TypeOK, OneDevicePerKey, AcceptedOnce, AcceptedIsRemembered,
         TokensOnlyForAdmitted, KeyProvenForDevice, HandlersTrue, Rows, Statuses, Ages, PCs,
         Unmade, Request, NoParams, Params, Uses

\* Every step keeps the types.
LEMMA TypeStep == ASSUME IInv, [Next]_vars PROVE TypeOK'
  <1> USE DEF TypeOK, Goto, Become, Return, registry, guard
  <1>i. TypeOK /\ HandlersTrue /\ AcceptedOnce
    BY DEF IInv
  <1>n. /\ NoParams \in Request
        /\ \A d \in Devices \cup {None}, p \in Proofs \cup {None},
              op \in {"enroll", "grant", "rotate", "unenroll"} : Params(op, d, p) \in Request
    BY DEF NoParams, Params, Request, Uses
  <1>1. ASSUME NEW p \in Proofs, NEW f \in Proof, Sign(p, f) PROVE TypeOK'
    BY <1>i, <1>1 DEF Sign, Ages, Rows
  <1>2. ASSUME NEW p \in Proofs, Age(p) PROVE TypeOK'
    BY <1>i, <1>2 DEF Age, Ages, Rows
  <1>3. CASE Sweep
    BY <1>i, <1>3 DEF Sweep, Rows
  <1>4. ASSUME NEW h \in Handlers, NEW p \in Proofs,
               EnrollDevice(h, p) \/ GrantJWTBearer(h, p) \/ AuthenticateDevice(h, p)
        PROVE TypeOK'
    <2>1. made[p].dev \in Devices \cup {None}
      BY <1>i DEF Proof, Unmade
    <2>2. CASE EnrollDevice(h, p)
      BY <1>i, <1>n, <2>2 DEF EnrollDevice, PCs, Rows
    <2>3. CASE GrantJWTBearer(h, p)
      BY <1>i, <1>n, <2>1, <2>3 DEF GrantJWTBearer, PCs, Rows
    <2>4. CASE AuthenticateDevice(h, p)
      <3>1. req[h].dev \in Devices
        BY <1>i, <2>4 DEF AuthenticateDevice, HandlersTrue
      <3> QED
        BY <1>i, <1>n, <2>4, <3>1 DEF AuthenticateDevice, PCs, Rows
    <2> QED
      BY <1>4, <2>2, <2>3, <2>4
  <1>5. ASSUME NEW h \in Handlers, NEW d \in Devices, NEW op \in {"rotate", "unenroll"},
               RequireDevice(h, d, op)
        PROVE TypeOK'
    BY <1>i, <1>n, <1>5 DEF RequireDevice, PCs, Rows
  <1>6. ASSUME NEW h \in Handlers, NEW d \in Devices, NEW a \in BOOLEAN, CreateDevice(h, d, a)
        PROVE TypeOK'
    <2>1. KeyOf(h) \in Keys
      BY <1>i, <1>6 DEF CreateDevice, HandlersTrue, KeyOf
    <2> QED
      BY <1>i, <1>n, <1>6, <2>1 DEF CreateDevice, PCs, Rows, Statuses
  <1>7. ASSUME NEW h \in Handlers, ConsumeJTI(h) PROVE TypeOK'
    <2>1. req[h].proof \in Proofs
      BY <1>i, <1>7 DEF ConsumeJTI, HandlersTrue
    <2> QED
      BY <1>i, <1>n, <1>7, <2>1 DEF ConsumeJTI, PCs, Rows
  <1>8. ASSUME NEW h \in Handlers, FingerprintInUse(h) \/ Abandon(h) PROVE TypeOK'
    BY <1>i, <1>n, <1>8 DEF FingerprintInUse, Abandon, PCs, Rows
  <1>9. ASSUME NEW h \in Handlers, RotateDeviceKey(h) PROVE TypeOK'
    <2>1. KeyOf(h) \in Keys /\ req[h].dev \in Devices
      BY <1>i, <1>9 DEF RotateDeviceKey, HandlersTrue, KeyOf
    <2> QED
      BY <1>i, <1>n, <1>9, <2>1 DEF RotateDeviceKey, PCs, Rows
  <1>10. ASSUME NEW h \in Handlers, IssueDeviceToken(h) PROVE TypeOK'
    <2>1. req[h].dev \in Devices
      BY <1>i, <1>10 DEF IssueDeviceToken, HandlersTrue
    <2> QED
      BY <1>i, <1>n, <1>10, <2>1 DEF IssueDeviceToken, PCs, Rows
  <1>11. ASSUME NEW h \in Handlers, Unenroll(h) PROVE TypeOK'
    BY <1>i, <1>n, <1>11 DEF Unenroll, Revoke, PCs, Rows, Statuses
  <1>12. ASSUME NEW d \in Devices,
                TokenExpires(d) \/ RevokeDevice(d) \/ ApproveDevice(d) \/ DeleteDevice(d)
         PROVE TypeOK'
    BY <1>i, <1>12 DEF TokenExpires, RevokeDevice, Revoke, ApproveDevice, DeleteDevice, Rows,
                       Statuses
  <1>13. CASE UNCHANGED vars
    BY <1>i, <1>13 DEF vars, Rows
  <1> QED
    BY <1>1, <1>2, <1>3, <1>4, <1>5, <1>6, <1>7, <1>8, <1>9, <1>10, <1>11, <1>12, <1>13
    DEF Next

\* Every step keeps what the handlers rely on.
LEMMA HandlersStep == ASSUME IInv, [Next]_vars PROVE HandlersTrue'
  <1> USE DEF Goto, Become, Return, registry, guard, HandlersTrue
  <1>i. TypeOK /\ HandlersTrue
    BY DEF IInv
  <1>t. /\ status \in [Devices -> Statuses]
        /\ made \in [Proofs -> Proof \cup {Unmade}]
        /\ age \in [Proofs -> Ages]
        /\ pc \in [Handlers -> PCs]
        /\ req \in [Handlers -> Request]
        /\ accepted \subseteq Proofs
    BY <1>i DEF TypeOK
  <1> USE <1>i, <1>t
  <1>1. ASSUME NEW p \in Proofs, NEW f \in Proof, Sign(p, f) PROVE HandlersTrue'
    <2>1. /\ f.key \in Keys /\ (Use[p] # "enroll" => f.dev \in Devices)
          /\ \A h \in Handlers :
            pc[h] \in {"jti", "inUse", "create", "rotate", "issue"} => req[h].proof # p
      BY <1>1 DEF Sign, Proof, Rows
    <2> QED
      BY <1>1, <2>1 DEF Sign
  <1>2. ASSUME NEW p \in Proofs, Age(p) PROVE HandlersTrue'
    BY <1>2 DEF Age
  <1>3. CASE Sweep
    BY <1>3 DEF Sweep
  <1>4. ASSUME NEW h \in Handlers, NEW p \in Proofs,
               EnrollDevice(h, p) \/ GrantJWTBearer(h, p) \/ AuthenticateDevice(h, p)
        PROVE HandlersTrue'
    <2>1. CASE EnrollDevice(h, p)
      BY <2>1 DEF EnrollDevice, Verifies, Params
    <2>2. CASE GrantJWTBearer(h, p)
      <3>1. made[p].dev \in Devices
        BY <2>2 DEF GrantJWTBearer, Verifies
      <3> QED
        BY <2>2, <3>1 DEF GrantJWTBearer, Verifies, Params
    <2>3. CASE AuthenticateDevice(h, p)
      BY <2>3 DEF AuthenticateDevice, Verifies, Params, NoParams
    <2> QED
      BY <1>4, <2>1, <2>2, <2>3
  <1>5. ASSUME NEW h \in Handlers, NEW d \in Devices, NEW op \in {"rotate", "unenroll"},
               RequireDevice(h, d, op)
        PROVE HandlersTrue'
    BY <1>5 DEF RequireDevice, Params
  <1>6. ASSUME NEW h \in Handlers, NEW d \in Devices, NEW a \in BOOLEAN, CreateDevice(h, d, a)
        PROVE HandlersTrue'
    BY <1>6 DEF CreateDevice
  <1>7. ASSUME NEW h \in Handlers, ConsumeJTI(h) PROVE HandlersTrue'
    BY <1>7, UseAssumption DEF ConsumeJTI, Uses
  <1>8. ASSUME NEW h \in Handlers, FingerprintInUse(h) PROVE HandlersTrue'
    BY <1>8 DEF FingerprintInUse
  <1>9. ASSUME NEW h \in Handlers,
               Abandon(h) \/ RotateDeviceKey(h) \/ IssueDeviceToken(h)
        PROVE HandlersTrue'
    BY <1>9 DEF Abandon, RotateDeviceKey, IssueDeviceToken
  <1>10. ASSUME NEW h \in Handlers, Unenroll(h) PROVE HandlersTrue'
    BY <1>10 DEF Unenroll, Revoke
  <1>11. ASSUME NEW d \in Devices,
                TokenExpires(d) \/ RevokeDevice(d) \/ ApproveDevice(d) \/ DeleteDevice(d)
         PROVE HandlersTrue'
    BY <1>11 DEF TokenExpires, RevokeDevice, Revoke, ApproveDevice, DeleteDevice
  <1>12. CASE UNCHANGED vars
    BY <1>12 DEF vars
  <1> QED
    BY <1>1, <1>2, <1>3, <1>4, <1>5, <1>6, <1>7, <1>8, <1>9, <1>10, <1>11, <1>12 DEF Next

\* No two rows come to have the same key.
LEMMA UniqueStep == ASSUME IInv, [Next]_vars PROVE OneDevicePerKey'
  <1> USE DEF OneDevicePerKey, registry, Rows
  <1>t. /\ status \in [Devices -> Statuses]
        /\ key \in [Devices -> Keys \cup {None}]
        /\ OneDevicePerKey
    BY DEF IInv, TypeOK
  <1>1. ASSUME NEW h \in Handlers, NEW d \in Devices, NEW a \in BOOLEAN, CreateDevice(h, d, a)
        PROVE OneDevicePerKey'
    BY <1>t, <1>1 DEF CreateDevice, Unique
  <1>2. ASSUME NEW h \in Handlers, RotateDeviceKey(h) PROVE OneDevicePerKey'
    BY <1>t, <1>2 DEF RotateDeviceKey, Unique
  <1>3. ASSUME NEW h \in Handlers, Unenroll(h) PROVE OneDevicePerKey'
    BY <1>t, <1>3 DEF Unenroll, Revoke
  <1>4. ASSUME NEW d \in Devices, RevokeDevice(d) \/ ApproveDevice(d) \/ DeleteDevice(d)
        PROVE OneDevicePerKey'
    BY <1>t, <1>4 DEF RevokeDevice, Revoke, ApproveDevice, DeleteDevice
  <1>5. CASE UNCHANGED <<status, key>>
    BY <1>t, <1>5
  <1> QED
    BY <1>1, <1>2, <1>3, <1>4, <1>5
    DEF Next, vars, Sign, Age, Sweep, EnrollDevice, GrantJWTBearer, AuthenticateDevice,
        RequireDevice, ConsumeJTI, FingerprintInUse, IssueDeviceToken, Abandon, TokenExpires

\* The guard forgets a proof only when it is over, so it lets it pass once.
LEMMA GuardStep ==
    ASSUME IInv, [Next]_vars PROVE AcceptedIsRemembered' /\ AcceptedOnce'
  <1> USE DEF AcceptedIsRemembered, AcceptedOnce, guard, Expired
  <1>t. /\ age \in [Proofs -> Ages]
        /\ accepted \subseteq Proofs
        /\ AcceptedIsRemembered /\ AcceptedOnce
    BY DEF IInv, TypeOK
  <1>1. ASSUME NEW p \in Proofs, NEW f \in Proof, Sign(p, f)
        PROVE AcceptedIsRemembered' /\ AcceptedOnce'
    BY <1>t, <1>1 DEF Sign
  <1>2. ASSUME NEW p \in Proofs, Age(p) PROVE AcceptedIsRemembered' /\ AcceptedOnce'
    BY <1>t, <1>2 DEF Age
  <1>3. CASE Sweep
    BY <1>t, <1>3 DEF Sweep
  <1>4. ASSUME NEW h \in Handlers, ConsumeJTI(h) PROVE AcceptedIsRemembered' /\ AcceptedOnce'
    BY <1>t, <1>4 DEF ConsumeJTI
  <1>5. CASE UNCHANGED <<age, seen, accepted, again>>
    BY <1>t, <1>5
  <1> QED
    BY <1>1, <1>2, <1>3, <1>4, <1>5
    DEF Next, vars, EnrollDevice, GrantJWTBearer, AuthenticateDevice, RequireDevice,
        CreateDevice, FingerprintInUse, RotateDeviceKey, IssueDeviceToken, Unenroll, Abandon,
        TokenExpires, RevokeDevice, ApproveDevice, DeleteDevice

\* Tokens go to admitted devices.
LEMMA TokensStep == ASSUME IInv, [Next]_vars PROVE TokensOnlyForAdmitted'
  <1> USE DEF TokensOnlyForAdmitted, registry
  <1>t. TokensOnlyForAdmitted /\ HandlersTrue
    BY DEF IInv
  <1>1. ASSUME NEW h \in Handlers, IssueDeviceToken(h) PROVE TokensOnlyForAdmitted'
    BY <1>t, <1>1 DEF IssueDeviceToken, HandlersTrue
  <1>2. ASSUME NEW d \in Devices, TokenExpires(d) \/ ApproveDevice(d)
        PROVE TokensOnlyForAdmitted'
    BY <1>t, <1>2 DEF TokenExpires, ApproveDevice
  <1>3. ASSUME NEW h \in Handlers, NEW d \in Devices, NEW a \in BOOLEAN, CreateDevice(h, d, a)
        PROVE TokensOnlyForAdmitted'
    BY <1>t, <1>3 DEF CreateDevice
  <1>4. CASE UNCHANGED <<tokens, admitted>>
    BY <1>t, <1>4
  <1> QED
    BY <1>1, <1>2, <1>3, <1>4
    DEF Next, vars, Sign, Age, Sweep, EnrollDevice, GrantJWTBearer, AuthenticateDevice,
        RequireDevice, ConsumeJTI, FingerprintInUse, RotateDeviceKey, Unenroll, Abandon,
        RevokeDevice, DeleteDevice

\* A row's key stays proven, for a proof once accepted is neither forgotten by
\* the history nor signed anew.
LEMMA ProvenStep == ASSUME IInv, [Next]_vars PROVE KeyProvenForDevice'
  <1> USE DEF KeyProvenForDevice, registry, guard, Rows
  <1>t. /\ status \in [Devices -> Statuses]
        /\ key \in [Devices -> Keys \cup {None}]
        /\ made \in [Proofs -> Proof \cup {Unmade}]
        /\ accepted \subseteq Proofs
        /\ KeyProvenForDevice /\ HandlersTrue
    BY DEF IInv, TypeOK
  <1>1. ASSUME NEW p \in Proofs, NEW f \in Proof, Sign(p, f) PROVE KeyProvenForDevice'
    <2>1. p \notin accepted
      BY <1>t, <1>1 DEF Sign, HandlersTrue
    <2> QED
      BY <1>t, <1>1, <2>1 DEF Sign
  <1>2. ASSUME NEW h \in Handlers, ConsumeJTI(h) PROVE KeyProvenForDevice'
    BY <1>t, <1>2 DEF ConsumeJTI
  <1>3. ASSUME NEW h \in Handlers, NEW d \in Devices, NEW a \in BOOLEAN, CreateDevice(h, d, a)
        PROVE KeyProvenForDevice'
    BY <1>t, <1>3 DEF CreateDevice, HandlersTrue, KeyOf
  <1>4. ASSUME NEW h \in Handlers, RotateDeviceKey(h) PROVE KeyProvenForDevice'
    BY <1>t, <1>4 DEF RotateDeviceKey, HandlersTrue, KeyOf
  <1>5. ASSUME NEW h \in Handlers, Unenroll(h) PROVE KeyProvenForDevice'
    BY <1>t, <1>5 DEF Unenroll, Revoke
  <1>6. ASSUME NEW d \in Devices, RevokeDevice(d) \/ ApproveDevice(d) \/ DeleteDevice(d)
        PROVE KeyProvenForDevice'
    BY <1>t, <1>6 DEF RevokeDevice, Revoke, ApproveDevice, DeleteDevice
  <1>7. CASE UNCHANGED <<status, key, made, accepted>>
    BY <1>t, <1>7
  <1> QED
    BY <1>1, <1>2, <1>3, <1>4, <1>5, <1>6, <1>7
    DEF Next, vars, Age, Sweep, EnrollDevice, GrantJWTBearer, AuthenticateDevice,
        RequireDevice, FingerprintInUse, IssueDeviceToken, Abandon, TokenExpires

\* The inductive invariant holds throughout.
THEOREM Inductive == Spec => []IInv
<1>1. ASSUME IInv, [Next]_vars PROVE IInv'
  BY <1>1, TypeStep, HandlersStep, UniqueStep, GuardStep, TokensStep, ProvenStep DEF IInv
<1> QED
  BY InitOK, <1>1, PTL DEF Spec

\* No two devices share a key: the UNIQUE constraint holds where two requests
\* have both found the key free (FingerprintInUse before CreateDevice and
\* RotateDeviceKey).
THEOREM KeysAreUnique == Spec => []OneDevicePerKey
<1>1. IInv => OneDevicePerKey
  BY DEF IInv
<1> QED
  BY Inductive, <1>1, PTL

\* The replay guard lets a DPoP proof or an assertion pass once (ConsumeJTI, its
\* pruning and the sweeper).
THEOREM NoReplay == Spec => []AcceptedOnce
<1>1. IInv => AcceptedOnce
  BY DEF IInv
<1> QED
  BY Inductive, <1>1, PTL

\* A device token is issued only to a device that was admitted (grantJWTBearer).
THEOREM ApprovalComesFirst == Spec => []TokensOnlyForAdmitted
<1>1. IInv => TokensOnlyForAdmitted
  BY DEF IInv
<1> QED
  BY Inductive, <1>1, PTL

\* The key of every row was proved by its holder for that device
\* (handleEnrollDevice, handleDeviceRotateKey).
THEOREM KeysAreProven == Spec => []KeyProvenForDevice
<1>1. IInv => KeyProvenForDevice
  BY DEF IInv
<1> QED
  BY Inductive, <1>1, PTL

\* Revocation is final and freezes the key; a pending device keeps its key
\* (the conditions of RevokeDevice, ApproveDevice, RotateDeviceKey, DeleteDevice).
THEOREM RevocationIsFinal == Spec => RevokedIsFinal
<1> DEFINE Kept ==
      \A d \in Devices :
         /\ status[d] = "revoked" => status'[d] \in {"revoked", "deleted"}
         /\ status[d] = "deleted" => status'[d] = "deleted"
         /\ status[d] \in {"pending", "revoked", "deleted"} =>
              key'[d] = key[d] /\ previous'[d] = previous[d]
<1>1. ASSUME IInv, [Next]_vars PROVE [Kept]_vars
  <2> SUFFICES ASSUME Next PROVE Kept
    BY <1>1
  <2>t. /\ status \in [Devices -> Statuses]
        /\ key \in [Devices -> Keys \cup {None}]
        /\ previous \in [Devices -> Keys \cup {None}]
    BY <1>1 DEF IInv, TypeOK
  <2> USE DEF registry
  <2>1. ASSUME NEW h \in Handlers, NEW d \in Devices, NEW a \in BOOLEAN, CreateDevice(h, d, a)
        PROVE Kept
    BY <2>t, <2>1 DEF CreateDevice
  <2>2. ASSUME NEW h \in Handlers, RotateDeviceKey(h) PROVE Kept
    BY <2>t, <2>2 DEF RotateDeviceKey
  <2>3. ASSUME NEW h \in Handlers, Unenroll(h) PROVE Kept
    BY <2>t, <2>3 DEF Unenroll, Revoke, Rows
  <2>4. ASSUME NEW d \in Devices, RevokeDevice(d) \/ ApproveDevice(d) \/ DeleteDevice(d)
        PROVE Kept
    BY <2>t, <2>4 DEF RevokeDevice, Revoke, Rows, ApproveDevice, DeleteDevice
  <2>5. CASE UNCHANGED <<status, key, previous>>
    BY <2>t, <2>5
  <2> QED
    BY <2>1, <2>2, <2>3, <2>4, <2>5
    DEF Next, Sign, Age, Sweep, EnrollDevice, GrantJWTBearer, AuthenticateDevice,
        RequireDevice, ConsumeJTI, FingerprintInUse, IssueDeviceToken, Abandon, TokenExpires
<1> QED
  BY Inductive, <1>1, PTL DEF Spec, RevokedIsFinal
=============================================================================
