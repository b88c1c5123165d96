------------------------- MODULE TokenGrantsProofs -------------------------
(***************************************************************************)
(* Theorems about TokenGrants, for every set of users, clients, devices,   *)
(* keys, tokens and concurrent requests, and for both drivers unless the   *)
(* theorem says otherwise.  The last part is about CodeRedemption.         *)
(***************************************************************************)
EXTENDS TokenGrants, CodeRedemption, TLAPS

\* The columns of an id without a row are not those of a row.
LEMMA NoRowIsNoRow == NoRow \notin Row
  BY NullAssumption DEF NoRow, Row

LEMMA NoParamsTyped == NoParams \in Request
  BY DEF NoParams, Params, Request

\* The initial state satisfies the inductive invariant.
LEMMA InitIInv == Init => IInv
  <1> SUFFICES ASSUME Init PROVE IInv
    OBVIOUS
  <1> USE DEF Init
  <1>1. TypeOK
    BY NoRowIsNoRow, NoParamsTyped DEF TypeOK, PCs
  <1>2. OneLivePerChain /\ ChainsRooted /\ ChainsUniform
    BY DEF OneLivePerChain, ChainsRooted, ChainsUniform, Live
  <1>3. ASSUME NEW r \in Requests PROVE SnapshotTrue(r) /\ EntitlementSeen(r)
    BY DEF SnapshotTrue, EntitlementSeen, Refreshing, NoParams, Params
  <1> QED
    BY <1>1, <1>2, <1>3 DEF IInv

\* Every step keeps the types.
LEMMA StepType == ASSUME IInv, Step, Remember, UNCHANGED driver PROVE TypeOK'
  <1> USE DEF TypeOK, table, switches, Become, Return, Goto
  <1> TypeOK /\ ChainsRooted /\ \A r \in Requests : SnapshotTrue(r)
    BY DEF IInv
  <1>0. legit' \in [Requests -> BOOLEAN]
    BY DEF Remember
  <1>1. ASSUME NEW r \in Requests, NEW t \in TokenIds,
               NEW k \in Keys \cup {NoKey}, RefreshRead(r, t, k)
        PROVE  TypeOK'
    <2>1. rt[t] \in Row
      BY <1>1 DEF RefreshRead
    <2>2. Params(t, rt[t].user, rt[t].client, rt[t].device, k, {}) \in Request
      BY <2>1 DEF Row, Request, Params
    <2> QED
      BY <1>0, <1>1, <2>2 DEF RefreshRead, PCs
  <1>2. ASSUME NEW r \in Requests, NEW t \in TokenIds, RefreshReuse(r, t)
        PROVE  TypeOK'
    <2>1. rt[t] \in Row
      BY <1>2 DEF RefreshReuse
    <2>2. Params(NoToken, rt[t].user, rt[t].client, NoDevice, NoKey, {}) \in Request
      BY <2>1 DEF Row, Request, Params
    <2> QED
      BY <1>0, <1>2, <2>2 DEF RefreshReuse, PCs
  <1>3. ASSUME NEW r \in Requests, RefreshUser(r)
        PROVE  TypeOK'
    <2>1. pc' \in [Requests -> PCs]
      BY <1>3 DEF RefreshUser, PCs
    <2>2. req' \in [Requests -> Request]
      BY <1>3, NoParamsTyped DEF RefreshUser
    <2> QED
      BY <1>0, <1>3, <2>1, <2>2 DEF RefreshUser
  <1>4. ASSUME NEW r \in Requests, RefreshDevice(r)
        PROVE  TypeOK'
    <2>1. pc' \in [Requests -> PCs]
      BY <1>4 DEF RefreshDevice, PCs
    <2>2. req' \in [Requests -> Request]
      BY <1>4, NoParamsTyped DEF RefreshDevice
    <2> QED
      BY <1>0, <1>4, <2>1, <2>2 DEF RefreshDevice
  <1>5. ASSUME NEW r \in Requests, NEW id \in TokenIds, NEW s \in SUBSET Scopes,
               Rotate(r, id, s)
        PROVE  TypeOK'
    <2> DEFINE q == req[r]
    <2>1. /\ q \in Request /\ q.tok \in issued /\ q.user = rt[q.tok].user
          /\ q.client = rt[q.tok].client /\ q.device = rt[q.tok].device
      BY <1>5 DEF Rotate, SnapshotTrue, Refreshing
    <2>2. rt[q.tok] \in Row
      BY <2>1
    <2>3. Replacement(q, s) \in Row
      BY <2>1, <2>2 DEF Replacement, Row, Request
    <2> QED
      BY <1>0, <1>5, <2>1, <2>2, <2>3 DEF Rotate, PCs
  <1>6. ASSUME NEW r \in Requests, RotateLast(r)
        PROVE  TypeOK'
    BY <1>0, <1>6, NoParamsTyped DEF RotateLast, SnapshotTrue, Refreshing, Request, Params, PCs
  <1>7. ASSUME NEW r \in Requests, RotateLost(r)
        PROVE  TypeOK'
    BY <1>0, <1>7, NoParamsTyped DEF RotateLost, Request, Params, PCs
  <1>8. ASSUME NEW r \in Requests, Respond(r)
        PROVE  TypeOK'
    BY <1>0, <1>8, NoParamsTyped DEF Respond, Request, Params, PCs
  <1>9. ASSUME NEW r \in Requests, RevokeUserClient(r)
        PROVE  TypeOK'
    <2> DEFINE S == OfUserClient(req[r].user, req[r].client)
    <2>1. S \subseteq issued /\ FamiliesOf(S) \subseteq TokenIds
      BY DEF OfUserClient, FamiliesOf, ChainsRooted
    <2>2. Params(NoToken, req[r].user, req[r].client, NoDevice, NoKey, S)
            \in Request
      BY <2>1 DEF Params, Request
    <2> HIDE DEF S
    <2> QED
      BY <1>0, <1>9, <2>1, <2>2, NoParamsTyped DEF RevokeUserClient, S, PCs
  <1>10. ASSUME NEW r \in Requests, RevokeApply(r)
        PROVE  TypeOK'
    <2>1. FamiliesOf(req[r].ids) \subseteq TokenIds /\ req[r].ids \subseteq issued
      BY DEF FamiliesOf, ChainsRooted, SnapshotTrue
    <2> QED
      BY <1>0, <1>10, <2>1, NoParamsTyped DEF RevokeApply, PCs
  <1>11. ASSUME NEW r \in Requests, NEW u \in Users, NEW c \in Clients, Logout(r, u, c)
        PROVE  TypeOK'
    BY <1>0, <1>11, NoParamsTyped DEF Logout, Request, Params, PCs
  <1>12. ASSUME NEW r \in Requests, NEW d \in Devices, RevokeDevice(r, d)
        PROVE  TypeOK'
    <2>1. OfDevice(d) \subseteq issued /\ FamiliesOf(OfDevice(d)) \subseteq TokenIds
      BY DEF OfDevice, FamiliesOf, ChainsRooted
    <2>2. Params(NoToken, NoUser, NoClient, d, NoKey, OfDevice(d)) \in Request
      BY <2>1 DEF Params, Request
    <2> QED
      BY <1>0, <1>12, <2>1, <2>2 DEF RevokeDevice, PCs
  <1>13. ASSUME NEW r \in Requests, RevokeDeviceCommit(r)
        PROVE  TypeOK'
    <2>1. /\ FamiliesOf(req[r].ids) \subseteq TokenIds /\ req[r].ids \subseteq issued
          /\ req[r].device \in Devices
      BY <1>13 DEF FamiliesOf, ChainsRooted, SnapshotTrue, RevokeDeviceCommit
    <2> QED
      BY <1>0, <1>13, <2>1, NoParamsTyped DEF RevokeDeviceCommit, PCs
  <1>14. ASSUME NEW r \in Requests, NEW u \in Users, NEW c \in Clients,
               NEW k \in Keys \cup {NoKey}, CodeGrant(r, u, c, k)
        PROVE  TypeOK'
    BY <1>0, <1>14, NoParamsTyped DEF CodeGrant, Request, Params, PCs
  <1>15. ASSUME NEW r \in Requests, NEW u \in Users, NEW c \in Clients,
               NEW k \in Keys \cup {NoKey}, NEW d \in Devices,
               DeviceGrant(r, u, c, d, k)
        PROVE  TypeOK'
    BY <1>0, <1>15, NoParamsTyped DEF DeviceGrant, Request, Params, PCs
  <1>16. ASSUME NEW r \in Requests, GrantUser(r)
        PROVE  TypeOK'
    BY <1>0, <1>16, NoParamsTyped DEF GrantUser, Request, Params, PCs
  <1>17. ASSUME NEW r \in Requests, NEW id \in TokenIds, NEW s \in SUBSET Scopes,
               CreateRefreshToken(r, id, s)
        PROVE  TypeOK'
    <2> DEFINE q == req[r]
    <2>1. /\ q \in Request /\ q.tok = NoToken
          /\ q.user \in Users /\ q.client \in Clients
      BY <1>17 DEF CreateRefreshToken, SnapshotTrue
    <2>2. Replacement(q, s) \in Row
      BY <2>1 DEF Replacement, Row, Request
    <2> QED
      BY <1>0, <1>17, <2>1, <2>2, NoParamsTyped DEF CreateRefreshToken, PCs
  <1>18. ASSUME NEW r \in Requests, Abandon(r)
        PROVE  TypeOK'
    BY <1>0, <1>18, NoParamsTyped DEF Abandon, Request, Params, PCs
  <1>19. ASSUME NEW t \in TokenIds, RevokeToken(t)
        PROVE  TypeOK'
    BY <1>0, <1>19, NoParamsTyped DEF RevokeToken, Request, Params, PCs
  <1>20. ASSUME NEW t \in TokenIds, Expire(t)
        PROVE  TypeOK'
    BY <1>0, <1>20, NoParamsTyped DEF Expire, Request, Params, PCs
  <1>21. ASSUME NEW u \in Users, ToggleUser(u)
        PROVE  TypeOK'
    BY <1>0, <1>21, NoParamsTyped DEF ToggleUser, Request, Params, PCs
  <1>22. ASSUME NEW c \in Clients, ToggleClient(c)
        PROVE  TypeOK'
    BY <1>0, <1>22, NoParamsTyped DEF ToggleClient, Request, Params, PCs
  <1> QED
    BY <1>1, <1>2, <1>3, <1>4, <1>5, <1>6, <1>7, <1>8, <1>9, <1>10, <1>11, <1>12,
       <1>13, <1>14, <1>15, <1>16, <1>17, <1>18, <1>19, <1>20, <1>21, <1>22 DEF Step

\* The table only grows: rows keep their columns and their chain, a revoked
\* row and a revoked device stay revoked.
LEMMA StepGrows ==
  ASSUME IInv, Step
  PROVE  /\ issued \subseteq issued'
         /\ revoked \subseteq revoked'
         /\ revokedDevices \subseteq revokedDevices'
         /\ \A t \in issued : rt'[t] = rt[t] /\ family'[t] = family[t]
  <1> USE DEF table, switches
  <1> TypeOK
    BY DEF IInv
  <1>1. ASSUME NEW r \in Requests, NEW id \in TokenIds, NEW s \in SUBSET Scopes,
               Rotate(r, id, s) \/ CreateRefreshToken(r, id, s)
        PROVE  /\ issued \subseteq issued'
               /\ revoked \subseteq revoked'
               /\ revokedDevices \subseteq revokedDevices'
               /\ \A t \in issued : rt'[t] = rt[t] /\ family'[t] = family[t]
    BY <1>1 DEF Rotate, CreateRefreshToken, TypeOK
  <1>2. \/ \E r \in Requests, id \in TokenIds, s \in SUBSET Scopes :
              Rotate(r, id, s) \/ CreateRefreshToken(r, id, s)
        \/ /\ UNCHANGED <<issued, rt, family>>
           /\ revoked \subseteq revoked'
           /\ revokedDevices \subseteq revokedDevices'
    BY DEF Step, RefreshRead, RefreshReuse, RefreshUser, RefreshDevice, RotateLast,
           RotateLost, Respond, RevokeUserClient, RevokeApply, Logout, RevokeDevice,
           RevokeDeviceCommit, CodeGrant, DeviceGrant, GrantUser, RevokeToken,
           ToggleUser, ToggleClient, Expire, Abandon
  <1> QED
    BY <1>1, <1>2

\* What a step can do to request p: leave it alone, end it, or be one of its
\* own steps.
LEMMA Moves ==
  ASSUME IInv, Step, NEW p \in Requests
  PROVE  \/ pc'[p] = pc[p] /\ req'[p] = req[p]
         \/ pc'[p] = "idle" /\ req'[p] = NoParams
         \/ \E t \in TokenIds, k \in Keys \cup {NoKey} : RefreshRead(p, t, k)
         \/ \E t \in TokenIds : RefreshReuse(p, t)
         \/ RefreshUser(p) /\ Goto(p, IF req[p].device = NoDevice THEN "rotate" ELSE "device")
         \/ RefreshDevice(p) /\ Goto(p, "rotate")
         \/ \E id \in TokenIds, s \in SUBSET Scopes : Rotate(p, id, s)
         \/ RotateLast(p)
         \/ RotateLost(p)
         \/ RevokeUserClient(p) /\ driver = "postgres"
         \/ \E u \in Users, c \in Clients : Logout(p, u, c)
         \/ \E d \in Devices : RevokeDevice(p, d) /\ driver = "postgres"
         \/ \E u \in Users, c \in Clients, k \in Keys \cup {NoKey} :
                \/ CodeGrant(p, u, c, k)
                \/ \E d \in Devices : DeviceGrant(p, u, c, d, k)
         \/ GrantUser(p) /\ Goto(p, "create")
  <1> pc \in [Requests -> PCs] /\ req \in [Requests -> Request]
    BY DEF IInv, TypeOK
  <1> USE DEF Become, Return, Goto
  <1>1. CASE \E r \in Requests :
               \/ \E t \in TokenIds :
                    \/ \E k \in Keys \cup {NoKey} : RefreshRead(r, t, k)
                    \/ RefreshReuse(r, t)
               \/ RefreshUser(r) \/ RefreshDevice(r)
    BY <1>1 DEF RefreshRead, RefreshReuse, RefreshUser, RefreshDevice
  <1>2. CASE \E r \in Requests :
               \/ \E id \in TokenIds, s \in SUBSET Scopes : Rotate(r, id, s)
               \/ RotateLast(r) \/ RotateLost(r) \/ Respond(r)
    BY <1>2 DEF Rotate, RotateLast, RotateLost, Respond
  <1>3. CASE \E r \in Requests :
               \/ RevokeUserClient(r) \/ RevokeApply(r)
               \/ \E u \in Users, c \in Clients : Logout(r, u, c)
               \/ \E d \in Devices : RevokeDevice(r, d)
               \/ RevokeDeviceCommit(r)
    BY <1>3 DEF RevokeUserClient, RevokeApply, Logout, RevokeDevice, RevokeDeviceCommit
  <1>4. CASE \E r \in Requests :
               \/ \E u \in Users, c \in Clients, k \in Keys \cup {NoKey} :
                    \/ CodeGrant(r, u, c, k)
                    \/ \E d \in Devices : DeviceGrant(r, u, c, d, k)
               \/ GrantUser(r)
               \/ \E id \in TokenIds, s \in SUBSET Scopes : CreateRefreshToken(r, id, s)
               \/ Abandon(r)
    BY <1>4 DEF CodeGrant, DeviceGrant, GrantUser, CreateRefreshToken, Abandon
  <1>5. CASE \/ \E t \in TokenIds : RevokeToken(t) \/ Expire(t)
             \/ \E u \in Users : ToggleUser(u)
             \/ \E c \in Clients : ToggleClient(c)
    BY <1>5 DEF RevokeToken, Expire, ToggleUser, ToggleClient
  <1> QED
    BY <1>1, <1>2, <1>3, <1>4, <1>5 DEF Step

\* A step inserts at most one row: the replacement of a live token, in that
\* token's chain, or the first token of a chain of its own.
LEMMA StepInserts ==
  ASSUME IInv, Step
  PROVE  \/ issued' = issued
         \/ \E r \in Requests, id \in TokenIds, s \in SUBSET Scopes : Rotate(r, id, s)
         \/ \E r \in Requests, id \in TokenIds, s \in SUBSET Scopes :
                CreateRefreshToken(r, id, s)
  BY DEF Step, RefreshRead, RefreshReuse, RefreshUser, RefreshDevice, RotateLast,
         RotateLost, Respond, RevokeUserClient, RevokeApply, Logout, RevokeDevice,
         RevokeDeviceCommit, CodeGrant, DeviceGrant, GrantUser, RevokeToken,
         ToggleUser, ToggleClient, Expire, Abandon, table, switches

\* Every step keeps the facts about rotation chains.
LEMMA StepChains ==
  ASSUME IInv, Step
  PROVE  OneLivePerChain' /\ ChainsRooted' /\ ChainsUniform'
  <1> TypeOK /\ OneLivePerChain /\ ChainsRooted /\ ChainsUniform
    BY DEF IInv
  <1> USE DEF OneLivePerChain, ChainsRooted, ChainsUniform, Live
  <1>1. CASE issued' = issued
    BY <1>1, StepGrows
  <1>2. ASSUME NEW r \in Requests, NEW id \in TokenIds, NEW s \in SUBSET Scopes,
               Rotate(r, id, s)
        PROVE  OneLivePerChain' /\ ChainsRooted' /\ ChainsUniform'
    <2> DEFINE q == req[r]
    <2>1. /\ q.tok \in issued /\ q.user = rt[q.tok].user
          /\ q.client = rt[q.tok].client /\ q.device = rt[q.tok].device
      BY <1>2 DEF IInv, SnapshotTrue, Refreshing, Rotate
    <2>2. /\ issued' = issued \cup {id} /\ id \notin issued
          /\ q.tok \notin revoked /\ revoked' = revoked \cup {q.tok}
          /\ family'[id] = family[q.tok]
          /\ rt'[id].user = q.user /\ rt'[id].client = q.client
          /\ rt'[id].device = q.device
      BY <1>2 DEF Rotate, TypeOK, Replacement
    <2>3. ChainsRooted'
      BY <2>1, <2>2, StepGrows
    <2>4. ChainsUniform'
      BY <2>1, <2>2, StepGrows
    <2>5. OneLivePerChain'
      BY <2>1, <2>2, StepGrows
    <2> QED
      BY <2>3, <2>4, <2>5
  <1>3. ASSUME NEW r \in Requests, NEW id \in TokenIds, NEW s \in SUBSET Scopes,
               CreateRefreshToken(r, id, s)
        PROVE  OneLivePerChain' /\ ChainsRooted' /\ ChainsUniform'
    <2>1. /\ issued' = issued \cup {id} /\ id \notin issued /\ revoked' = revoked
          /\ family'[id] = id
      BY <1>3 DEF CreateRefreshToken, TypeOK
    <2> QED
      BY <2>1, StepGrows
  <1> QED
    BY <1>1, <1>2, <1>3, StepInserts

\* Every step keeps what a request in flight knows of the rows it has read.
LEMMA StepSnapshots ==
  ASSUME IInv, Step, NEW p \in Requests
  PROVE  SnapshotTrue(p)'
  <1> TypeOK /\ SnapshotTrue(p)
    BY DEF IInv
  <1> req[p] \in Request /\ pc \in [Requests -> PCs] /\ req \in [Requests -> Request]
    BY DEF TypeOK
  <1>g. issued \subseteq issued' /\ \A t \in issued : rt'[t] = rt[t]
    BY StepGrows
  <1>1. CASE pc'[p] = pc[p] /\ req'[p] = req[p]
    BY <1>1, <1>g DEF SnapshotTrue, Refreshing
  <1>2. CASE pc'[p] = "idle" /\ req'[p] = NoParams
    BY <1>2 DEF SnapshotTrue, Refreshing, NoParams, Params
  <1>3. ASSUME NEW t \in TokenIds, NEW k \in Keys \cup {NoKey}, RefreshRead(p, t, k)
        PROVE  SnapshotTrue(p)'
    <2>1. /\ t \in issued /\ pc'[p] = "user" /\ rt[t].jkt \in {NoKey, k}
          /\ req'[p] = Params(t, rt[t].user, rt[t].client, rt[t].device, k, {})
      BY <1>3 DEF RefreshRead, Become
    <2> QED
      BY <2>1, <1>g DEF SnapshotTrue, Refreshing, Params
  <1>4. ASSUME NEW t \in TokenIds, RefreshReuse(p, t)
        PROVE  SnapshotTrue(p)'
    BY <1>4 DEF RefreshReuse, Become, SnapshotTrue, Refreshing, Params
  <1>5. CASE \/ RefreshUser(p) /\ Goto(p, IF req[p].device = NoDevice THEN "rotate" ELSE "device")
             \/ RefreshDevice(p) /\ Goto(p, "rotate")
             \/ \E id \in TokenIds, s \in SUBSET Scopes : Rotate(p, id, s)
             \/ RotateLast(p)
    <2>1. Refreshing(p) /\ req'[p] = req[p] /\ pc'[p] \in {"device", "rotate", "ok"}
      BY <1>5 DEF RefreshUser, RefreshDevice, Rotate, RotateLast, Goto, Refreshing
    <2> QED
      BY <2>1, <1>g DEF SnapshotTrue, Refreshing
  <1>6. CASE RotateLost(p) \/ \E u \in Users, c \in Clients : Logout(p, u, c)
    BY <1>6 DEF RotateLost, Logout, Become, SnapshotTrue, Refreshing, Params
  <1>7. CASE RevokeUserClient(p) /\ driver = "postgres"
    <2>1. /\ pc'[p] = "apply"
          /\ req'[p] = Params(NoToken, req[p].user, req[p].client, NoDevice, NoKey,
                              OfUserClient(req[p].user, req[p].client))
      BY <1>7 DEF RevokeUserClient, Become
    <2>2. OfUserClient(req[p].user, req[p].client) \subseteq issued
      BY DEF OfUserClient
    <2> QED
      BY <2>1, <2>2, <1>g DEF SnapshotTrue, Refreshing, Params
  <1>8. ASSUME NEW d \in Devices, RevokeDevice(p, d) /\ driver = "postgres"
        PROVE  SnapshotTrue(p)'
    <2>1. /\ pc'[p] = "applyDevice"
          /\ req'[p] = Params(NoToken, NoUser, NoClient, d, NoKey, OfDevice(d))
      BY <1>8 DEF RevokeDevice, Become
    <2>2. OfDevice(d) \subseteq issued
      BY DEF OfDevice
    <2> QED
      BY <2>1, <2>2, <1>g DEF SnapshotTrue, Refreshing, Params
  <1>9. ASSUME NEW u \in Users, NEW c \in Clients, NEW k \in Keys \cup {NoKey},
               \/ CodeGrant(p, u, c, k)
               \/ \E d \in Devices : DeviceGrant(p, u, c, d, k)
        PROVE  SnapshotTrue(p)'
    BY <1>9 DEF CodeGrant, DeviceGrant, Become, SnapshotTrue, Refreshing, Params
  <1>10. CASE GrantUser(p) /\ Goto(p, "create")
    BY <1>10, <1>g DEF GrantUser, Goto, SnapshotTrue, Refreshing
  <1> QED
    BY <1>1, <1>2, <1>3, <1>4, <1>5, <1>6, <1>7, <1>8, <1>9, <1>10, Moves

\* Every step keeps the bookkeeping that ties the three separate reads of a
\* refresh to one instant: a check that passed after the token, the user or the
\* device was lost can only be followed by a failing one.
LEMMA StepEntitlement ==
  ASSUME IInv, Step, Remember, NEW p \in Requests
  PROVE  EntitlementSeen(p)'
  <1> TypeOK /\ SnapshotTrue(p) /\ EntitlementSeen(p)
    BY DEF IInv
  <1> pc \in [Requests -> PCs] /\ req \in [Requests -> Request]
    BY DEF TypeOK
  <1>g. revoked \subseteq revoked' /\ revokedDevices \subseteq revokedDevices'
    BY StepGrows
  <1>0. legit'[p] = (Refreshing(p)' /\ ((Refreshing(p) /\ legit[p]) \/ Entitled(req[p])'))
    BY DEF Remember
  <1>a. Refreshing(p)' /\ Entitled(req[p])' => legit'[p]
    BY <1>0
  <1>1. CASE pc'[p] = pc[p] /\ req'[p] = req[p]
    BY <1>1, <1>0, <1>a, <1>g DEF EntitlementSeen, Refreshing
  <1>2. CASE pc'[p] \notin {"device", "rotate", "ok"}
    BY <1>2, <1>a DEF EntitlementSeen
  <1>3. CASE RefreshUser(p) /\ Goto(p, IF req[p].device = NoDevice THEN "rotate" ELSE "device")
    <2>1. req[p].user \notin disabledUsers
      BY <1>3 DEF RefreshUser, Goto, Return, Become, PCs
    <2>2. /\ pc[p] = "user" /\ req'[p] = req[p] /\ revoked' = revoked
          /\ revokedDevices' = revokedDevices
          /\ pc'[p] = IF req[p].device = NoDevice THEN "rotate" ELSE "device"
      BY <1>3 DEF RefreshUser, Goto, table, switches
    <2>3. \/ legit'[p]
          \/ req[p].tok \in revoked
          \/ req[p].device \in revokedDevices
      BY <2>1, <2>2, <1>0 DEF EntitlementSeen, Refreshing, Entitled, SnapshotTrue
    <2>4. NoDevice \notin revokedDevices
      BY NullAssumption DEF TypeOK
    <2> QED
      BY <2>2, <2>3, <2>4, <1>a DEF EntitlementSeen
  <1>4. CASE RefreshDevice(p) /\ Goto(p, "rotate")
    <2>1. /\ pc[p] = "device" /\ pc'[p] = "rotate" /\ req'[p] = req[p]
          /\ revoked' = revoked /\ req[p].device \notin revokedDevices
      BY <1>4 DEF RefreshDevice, Goto, Return, Become, table, PCs
    <2> QED
      BY <2>1, <1>0, <1>a DEF EntitlementSeen, Refreshing
  <1>5. CASE RotateLast(p) \/ \E id \in TokenIds, s \in SUBSET Scopes : Rotate(p, id, s)
    <2>1. /\ req[p].tok \notin revoked /\ pc[p] = "rotate" /\ pc'[p] = "ok"
      BY <1>5 DEF RotateLast, Rotate, Goto
    <2> QED
      BY <2>1, <1>0, <1>a DEF EntitlementSeen, Refreshing
  <1>6. \/ pc'[p] = pc[p] /\ req'[p] = req[p]
        \/ pc'[p] \notin {"device", "rotate", "ok"}
        \/ RefreshUser(p) /\ Goto(p, IF req[p].device = NoDevice THEN "rotate" ELSE "device")
        \/ RefreshDevice(p) /\ Goto(p, "rotate")
        \/ RotateLast(p) \/ \E id \in TokenIds, s \in SUBSET Scopes : Rotate(p, id, s)
    BY Moves DEF RefreshRead, RefreshReuse, RotateLost, RevokeUserClient, Logout,
         RevokeDevice, CodeGrant, DeviceGrant, GrantUser, Become, Goto
  <1> QED
    BY <1>1, <1>2, <1>3, <1>4, <1>5, <1>6

\* The inductive invariant holds in every reachable state.
THEOREM Inductive == Spec => []IInv
  <1>1. Init => IInv
    BY InitIInv
  <1>2. IInv /\ [Next]_vars => IInv'
    <2> SUFFICES ASSUME IInv, [Next]_vars PROVE IInv'
      OBVIOUS
    <2>1. CASE Next
      BY <2>1, StepType, StepChains, StepSnapshots, StepEntitlement DEF Next, IInv
    <2>2. CASE UNCHANGED vars
      BY <2>2 DEF vars, IInv, TypeOK, OneLivePerChain, Live, ChainsRooted,
           ChainsUniform, SnapshotTrue, EntitlementSeen, Refreshing, Entitled
    <2> QED
      BY <2>1, <2>2
  <1> QED
    BY <1>1, <1>2, PTL DEF Spec

\* Type correctness of the refresh-token table and of the requests in flight.
THEOREM TypeCorrect == Spec => []TypeOK
  <1>1. IInv => TypeOK
    BY DEF IInv
  <1> QED
    BY <1>1, Inductive, PTL

\* However many refreshes, revocations and logouts race, and on either driver,
\* a rotation chain never has two tokens that can be exchanged: the conditional
\* UPDATE of RotateRefreshToken is enough against double spending.
THEOREM NoDoubleSpend == Spec => []OneLivePerChain
  <1>1. IInv => OneLivePerChain
    BY DEF IInv
  <1> QED
    BY <1>1, Inductive, PTL

\* A refresh that is answered with tokens was entitled to them at one instant,
\* although grantRefreshToken reads token, user and device separately.
THEOREM RefreshEntitled == Spec => []AnsweredRefreshWasEntitled
  <1>1. IInv => AnsweredRefreshWasEntitled
    BY DEF IInv, AnsweredRefreshWasEntitled, EntitlementSeen
  <1> QED
    BY <1>1, Inductive, PTL

\* No interleaving of the store's statements brings a revoked token, or a chain
\* without a live token, back to life.
THEOREM RevocationFinal == Spec => RevocationIsFinal
  <1> DEFINE Final == /\ revoked \subseteq revoked'
                      /\ \A t \in issued :
                           (\A u \in issued : family[u] = family[t] => u \in revoked)
                           => (\A u \in issued' : family'[u] = family[t] => u \in revoked')
  <1>1. IInv /\ [Next]_vars => [Final]_vars
    <2> SUFFICES ASSUME IInv, Step PROVE Final
      BY DEF Next
    <2> TypeOK /\ ChainsRooted
      BY DEF IInv
    <2>1. CASE issued' = issued
      BY <2>1, StepGrows
    <2>2. ASSUME NEW r \in Requests, NEW id \in TokenIds, NEW s \in SUBSET Scopes,
                 Rotate(r, id, s)
          PROVE  Final
      <3>1. req[r].tok \in issued
        BY <2>2 DEF IInv, SnapshotTrue, Refreshing, Rotate
      <3>2. /\ issued' = issued \cup {id} /\ req[r].tok \notin revoked
            /\ family'[id] = family[req[r].tok]
        BY <2>2 DEF Rotate, TypeOK
      <3> QED
        BY <3>1, <3>2, StepGrows
    <2>3. ASSUME NEW r \in Requests, NEW id \in TokenIds, NEW s \in SUBSET Scopes,
                 CreateRefreshToken(r, id, s)
          PROVE  Final
      <3>1. issued' = issued \cup {id} /\ id \notin issued /\ family'[id] = id
        BY <2>3 DEF CreateRefreshToken, TypeOK
      <3> QED
        BY <3>1, StepGrows DEF ChainsRooted
    <2> QED
      BY <2>1, <2>2, <2>3, StepInserts
  <1> QED
    BY <1>1, Inductive, PTL DEF Spec, RevocationIsFinal

\* On SQLite a mass revocation is one statement: no request is ever between its
\* snapshot and its end, and the chains it covered are issued and revoked.
SqliteInv ==
    /\ \A r \in Requests : pc[r] \notin {"apply", "applyDevice"}
    /\ dead \subseteq issued
    /\ RevokedChainStaysDead

\* A chain with a token among the rows of a mass revocation has no other rows,
\* because the rows of a chain share user, client and device.
LEMMA MassRevocationIsWhole ==
  ASSUME IInv, NEW S \in SUBSET issued,
         \/ \E u, c : S = OfUserClient(u, c)
         \/ \E d : S = OfDevice(d)
  PROVE  \A t \in issued : family[t] \in FamiliesOf(S) => t \in S
  BY DEF IInv, ChainsUniform, OfUserClient, OfDevice, FamiliesOf

\* What a step does to the chains that are marked dead.
LEMMA StepDead ==
  ASSUME driver = "sqlite", IInv, SqliteInv, Step
  PROVE  SqliteInv'
  <1> TypeOK /\ ChainsRooted
    BY DEF IInv
  <1>g. /\ issued \subseteq issued' /\ revoked \subseteq revoked'
        /\ \A t \in issued : family'[t] = family[t]
    BY StepGrows
  <1>1. \A p \in Requests : pc'[p] \notin {"apply", "applyDevice"}
    <2> SUFFICES ASSUME NEW p \in Requests PROVE pc'[p] \notin {"apply", "applyDevice"}
      OBVIOUS
    <2> pc \in [Requests -> PCs]
      BY DEF TypeOK
    <2> QED
      BY Moves DEF SqliteInv, RefreshRead, RefreshReuse, RefreshUser, RefreshDevice,
           Rotate, RotateLast, RotateLost, Logout, CodeGrant, DeviceGrant, GrantUser,
           Become, Goto
  <1>2. \/ dead' = dead
        \/ /\ issued' = issued
           /\ \E S \in SUBSET issued :
                /\ \/ \E u, c : S = OfUserClient(u, c)
                   \/ \E d : S = OfDevice(d)
                /\ revoked' = revoked \cup S
                /\ dead' = dead \cup FamiliesOf(S)
    <2>1. ASSUME NEW r \in Requests, RevokeUserClient(r)
          PROVE  /\ issued' = issued
                 /\ \E S \in SUBSET issued :
                      /\ \E u, c : S = OfUserClient(u, c)
                      /\ revoked' = revoked \cup S
                      /\ dead' = dead \cup FamiliesOf(S)
      <3>1. OfUserClient(req[r].user, req[r].client) \subseteq issued
        BY DEF OfUserClient
      <3> QED
        BY <2>1, <3>1 DEF RevokeUserClient
    <2>2. ASSUME NEW r \in Requests, NEW d \in Devices, RevokeDevice(r, d)
          PROVE  /\ issued' = issued
                 /\ \E S \in SUBSET issued :
                      /\ \E e : S = OfDevice(e)
                      /\ revoked' = revoked \cup S
                      /\ dead' = dead \cup FamiliesOf(S)
      <3>1. OfDevice(d) \subseteq issued
        BY DEF OfDevice
      <3> QED
        BY <2>2, <3>1 DEF RevokeDevice
    <2> QED
      BY <2>1, <2>2 DEF Step, SqliteInv, RefreshRead, RefreshReuse, RefreshUser,
           RefreshDevice, Rotate, RotateLast, RotateLost, Respond, RevokeApply, Logout,
           RevokeDeviceCommit, CodeGrant, DeviceGrant, GrantUser, CreateRefreshToken,
           RevokeToken, ToggleUser, ToggleClient, Expire, Abandon
  <1>3. CASE dead' = dead
    <2>1. CASE issued' = issued
      BY <1>g, <1>1, <1>3, <2>1 DEF SqliteInv, RevokedChainStaysDead
    <2>2. ASSUME NEW r \in Requests, NEW id \in TokenIds, NEW s \in SUBSET Scopes,
                 Rotate(r, id, s)
          PROVE  SqliteInv'
      <3>1. req[r].tok \in issued
        BY <2>2 DEF IInv, SnapshotTrue, Refreshing, Rotate
      <3>2. /\ issued' = issued \cup {id} /\ req[r].tok \notin revoked
            /\ family'[id] = family[req[r].tok]
        BY <2>2 DEF Rotate, TypeOK
      <3> QED
        BY <1>g, <1>1, <1>3, <3>1, <3>2 DEF SqliteInv, RevokedChainStaysDead
    <2>3. ASSUME NEW r \in Requests, NEW id \in TokenIds, NEW s \in SUBSET Scopes,
                 CreateRefreshToken(r, id, s)
          PROVE  SqliteInv'
      <3>1. issued' = issued \cup {id} /\ id \notin issued /\ family'[id] = id
        BY <2>3 DEF CreateRefreshToken, TypeOK
      <3> QED
        BY <1>g, <1>1, <1>3, <3>1 DEF SqliteInv, RevokedChainStaysDead
    <2> QED
      BY <2>1, <2>2, <2>3, StepInserts
  <1>4. ASSUME issued' = issued, NEW S \in SUBSET issued,
               \/ \E u, c : S = OfUserClient(u, c)
               \/ \E d : S = OfDevice(d),
               revoked' = revoked \cup S,
               dead' = dead \cup FamiliesOf(S)
        PROVE  SqliteInv'
    <2>1. \A t \in issued : family[t] \in FamiliesOf(S) => t \in S
      BY <1>4, MassRevocationIsWhole
    <2>2. FamiliesOf(S) \subseteq issued
      BY DEF FamiliesOf, ChainsRooted
    <2> QED
      BY <1>g, <1>1, <1>4, <2>1, <2>2 DEF SqliteInv, RevokedChainStaysDead
  <1> QED
    BY <1>2, <1>3, <1>4

\* On SQLite, reuse detection, logout and device revocation kill the chains they
\* cover for good: no refresh in flight leaves a live replacement behind.
THEOREM DeadForGood == Spec => []SqliteChainsStayDead
  <1> DEFINE Inv == driver = "sqlite" => SqliteInv
  <1>1. Init => Inv
    BY DEF Init, SqliteInv, RevokedChainStaysDead
  <1>2. IInv /\ Inv /\ [Next]_vars => Inv'
    <2>1. ASSUME IInv, Inv, UNCHANGED vars PROVE Inv'
      BY <2>1 DEF vars, SqliteInv, RevokedChainStaysDead
    <2>2. ASSUME IInv, Inv, Next PROVE Inv'
      <3> SUFFICES ASSUME driver' = "sqlite" PROVE SqliteInv'
        OBVIOUS
      <3>1. driver = "sqlite" /\ Step
        BY <2>2 DEF Next
      <3> QED
        BY <2>2, <3>1, StepDead
    <2> QED
      BY <2>1, <2>2
  <1>3. Inv => SqliteChainsStayDead
    BY DEF SqliteInv, SqliteChainsStayDead
  <1> QED
    BY <1>1, <1>2, <1>3, Inductive, PTL DEF Spec

\* The first token of a chain names the chain, its own row included.
RootsNamed == \A t \in issued : family[family[t]] = family[t]

\* Every step keeps the lineage of the rows: the new row of a rotation is
\* compared with the row it was read from, every other row keeps its columns.
LEMMA StepLineage ==
  ASSUME IInv, LineageKept, RootsNamed, Step
  PROVE  LineageKept' /\ RootsNamed'
  <1> TypeOK /\ ChainsRooted
    BY DEF IInv
  <1> USE DEF LineageKept, RootsNamed, ChainsRooted
  <1>g. /\ issued \subseteq issued'
        /\ \A t \in issued : rt'[t] = rt[t] /\ family'[t] = family[t]
    BY StepGrows
  <1>1. CASE issued' = issued
    BY <1>1, <1>g
  <1>2. ASSUME NEW r \in Requests, NEW id \in TokenIds, NEW s \in SUBSET Scopes,
               Rotate(r, id, s)
        PROVE  LineageKept' /\ RootsNamed'
    <2> DEFINE q == req[r]
    <2>1. /\ q.tok \in issued /\ q.user = rt[q.tok].user
          /\ q.client = rt[q.tok].client /\ q.device = rt[q.tok].device
          /\ rt[q.tok].jkt \in {NoKey, q.jkt}
      BY <1>2 DEF IInv, SnapshotTrue, Refreshing, Rotate
    <2>2. /\ issued' = issued \cup {id} /\ id \notin issued
          /\ family'[id] = family[q.tok]
          /\ rt'[id] = Replacement(q, s) /\ s \subseteq rt[q.tok].scope
      BY <1>2 DEF Rotate, TypeOK
    <2>3. /\ rt'[id].user = q.user /\ rt'[id].client = q.client
          /\ rt'[id].device = q.device /\ rt'[id].jkt = q.jkt
          /\ rt'[id].scope = s /\ rt'[id].from = q.tok
      BY <2>2 DEF Replacement
    <2>4. RootsNamed'
      BY <2>1, <2>2, <1>g
    <2>5. LineageKept'
      BY <2>1, <2>2, <2>3, <1>g
    <2> QED
      BY <2>4, <2>5
  <1>3. ASSUME NEW r \in Requests, NEW id \in TokenIds, NEW s \in SUBSET Scopes,
               CreateRefreshToken(r, id, s)
        PROVE  LineageKept' /\ RootsNamed'
    <2>1. req[r].tok = NoToken
      BY <1>3 DEF IInv, SnapshotTrue, CreateRefreshToken
    <2>2. /\ issued' = issued \cup {id} /\ id \notin issued
          /\ family'[id] = id /\ rt'[id].from = NoToken
      BY <1>3, <2>1 DEF CreateRefreshToken, TypeOK, Replacement
    <2> QED
      BY <2>2, <1>g
  <1> QED
    BY <1>1, <1>2, <1>3, StepInserts

\* The lineage is kept along every chain and every chain is named by its first
\* token.
LEMMA Lineage == Spec => [](LineageKept /\ RootsNamed)
  <1>1. Init => LineageKept /\ RootsNamed
    BY DEF Init, LineageKept, RootsNamed
  <1>2. IInv /\ (LineageKept /\ RootsNamed) /\ [Next]_vars
        => (LineageKept /\ RootsNamed)'
    <2>1. ASSUME IInv, LineageKept, RootsNamed, UNCHANGED vars
          PROVE  LineageKept' /\ RootsNamed'
      BY <2>1 DEF vars, LineageKept, RootsNamed
    <2>2. ASSUME IInv, LineageKept, RootsNamed, Next
          PROVE  LineageKept' /\ RootsNamed'
      BY <2>2, StepLineage DEF Next
    <2> QED
      BY <2>1, <2>2
  <1> QED
    BY <1>1, <1>2, Inductive, PTL DEF Spec

\* A replacement keeps the user, client and device of the token it replaces,
\* gains no scope and keeps its DPoP binding, although grantRefreshToken builds
\* it from a row it read several store calls earlier.
THEOREM LineagePreserved == Spec => []LineageKept
  BY Lineage, PTL

-----------------------------------------------------------------------------
(* The table implements the rotation chains.                               *)

\* What the refinement mapping says of a chain: its holder is its one live
\* token.
HolderTrue ==
  \A f \in TokenIds :
    /\ f \notin issued \/ family[f] # f => Holder(f) = "unborn"
    /\ f \in issued /\ family[f] = f =>
         /\ \A t \in issued \ revoked : family[t] = f => Holder(f) = t
         /\ (\A t \in issued \ revoked : family[t] # f) => Holder(f) = "closed"

LEMMA HolderIs == IInv => HolderTrue
  <1> SUFFICES ASSUME IInv, NEW f \in TokenIds
               PROVE  /\ f \notin issued \/ family[f] # f => Holder(f) = "unborn"
                      /\ f \in issued /\ family[f] = f =>
                           /\ \A t \in issued \ revoked :
                                family[t] = f => Holder(f) = t
                           /\ (\A t \in issued \ revoked : family[t] # f)
                              => Holder(f) = "closed"
    BY DEF HolderTrue
  <1>1. ASSUME f \in issued, family[f] = f,
               NEW t \in issued \ revoked, family[t] = f
        PROVE  Holder(f) = t
    <2>1. \A u \in issued : (Live(u) /\ family[u] = f) <=> u = t
      BY <1>1 DEF IInv, OneLivePerChain, Live
    <2>2. (CHOOSE u \in issued : Live(u) /\ family[u] = f) = t
      BY <2>1
    <2> QED
      BY <1>1, <2>1, <2>2 DEF Holder
  <1> QED
    BY <1>1 DEF Holder, Live

\* The same in the next state.
LEMMA HolderIsNext == IInv' => HolderTrue'
  BY HolderIs, PTL

\* A step passes a chain on, opens one, closes some, or changes none.
LEMMA StepChain ==
  ASSUME IInv, RootsNamed, IInv', Step
  PROVE  [Chains!Next]_<<[f \in TokenIds |-> Holder(f)], issued>>
  <1> TypeOK /\ ChainsRooted
    BY DEF IInv
  <1> USE DEF RootsNamed, ChainsRooted
  <1> DEFINE H == [f \in TokenIds |-> Holder(f)]
  <1>g. /\ issued \subseteq issued' /\ revoked \subseteq revoked'
        /\ issued \subseteq TokenIds
        /\ \A t \in issued : family'[t] = family[t]
    BY StepGrows DEF TypeOK
  <1>h. \A f \in TokenIds :
          /\ f \notin issued \/ family[f] # f => H[f] = "unborn"
          /\ f \in issued /\ family[f] = f =>
               /\ \A t \in issued \ revoked : family[t] = f => H[f] = t
               /\ (\A t \in issued \ revoked : family[t] # f) => H[f] = "closed"
    BY HolderIs DEF HolderTrue
  <1>i. \A f \in TokenIds :
          /\ f \notin issued' \/ family'[f] # f => H'[f] = "unborn"
          /\ f \in issued' /\ family'[f] = f =>
               /\ \A t \in issued' \ revoked' : family'[t] = f => H'[f] = t
               /\ (\A t \in issued' \ revoked' : family'[t] # f) => H'[f] = "closed"
    BY HolderIsNext DEF HolderTrue
  <1>d. H = [f \in TokenIds |-> H[f]] /\ H' = [f \in TokenIds |-> H'[f]]
    OBVIOUS
  <1> HIDE DEF H
  <1>1. ASSUME issued' = issued
        PROVE  \E S \in SUBSET TokenIds :
                 /\ \A f \in S : H[f] \in TokenIds
                 /\ H' = [f \in TokenIds |-> IF f \in S THEN "closed" ELSE H[f]]
    <2> DEFINE S == {f \in TokenIds : H[f] \in TokenIds /\ H'[f] # H[f]}
    <2>1. ASSUME NEW f \in TokenIds
          PROVE  H'[f] = IF f \in S THEN "closed" ELSE H[f]
      <3>1. CASE f \notin issued \/ family[f] # f
        BY <1>1, <1>g, <1>h, <1>i, <3>1
      <3>2. CASE f \in issued /\ family[f] = f
        <4>1. CASE \A t \in issued \ revoked : family[t] # f
          BY <1>1, <1>g, <1>h, <1>i, <3>2, <4>1
        <4>2. ASSUME NEW t \in issued \ revoked, family[t] = f
              PROVE  H'[f] = IF f \in S THEN "closed" ELSE H[f]
          <5>1. H[f] = t /\ t \in TokenIds
            BY <1>g, <1>h, <3>2, <4>2
          <5>2. \A u \in issued \ revoked : family[u] = f => u = t
            BY <1>g, <1>h, <3>2, <5>1
          <5>3. CASE t \in revoked'
            <6>1. \A u \in issued' \ revoked' : family'[u] # f
              BY <1>1, <1>g, <5>2, <5>3
            <6> QED
              BY <1>1, <1>g, <1>i, <3>2, <5>1, <6>1
          <5>4. CASE t \notin revoked'
            BY <1>1, <1>g, <1>i, <3>2, <4>2, <5>1, <5>4
          <5> QED
            BY <5>3, <5>4
        <4> QED
          BY <4>1, <4>2
      <3> QED
        BY <3>1, <3>2
    <2>2. H' = [f \in TokenIds |-> IF f \in S THEN "closed" ELSE H[f]]
      BY <1>d, <2>1
    <2> QED
      BY <2>2
  <1>2. ASSUME NEW r \in Requests, NEW id \in TokenIds, NEW s \in SUBSET Scopes,
               Rotate(r, id, s)
        PROVE  \E f \in TokenIds :
                 /\ H[f] \in TokenIds /\ id \notin issued
                 /\ H' = [H EXCEPT ![f] = id] /\ H' # H
                 /\ issued' = issued \cup {id}
    <2> DEFINE p == req[r].tok
               f == family[p]
    <2>1. /\ p \in issued
          /\ issued' = issued \cup {id} /\ id \notin issued
          /\ p \notin revoked /\ revoked' = revoked \cup {p}
          /\ family'[id] = f
      BY <1>2 DEF IInv, SnapshotTrue, Refreshing, Rotate, TypeOK
    <2> HIDE DEF p
    <2>2. f \in issued /\ family[f] = f /\ f \in TokenIds /\ f # id
      BY <1>g, <2>1
    <2> HIDE DEF f
    <2>3. family[p] = f
      BY DEF f
    <2>4. H[f] = p /\ p \in TokenIds /\ p # id
      BY <1>g, <1>h, <2>1, <2>2, <2>3
    <2>5. revoked \subseteq issued
      BY DEF TypeOK
    <2>6. H'[f] = id
      BY <1>g, <1>i, <2>1, <2>2, <2>5
    <2>7. ASSUME NEW g \in TokenIds, g # f
          PROVE  H'[g] = H[g]
      <3>1. CASE g \notin issued \/ family[g] # g
        BY <1>g, <1>h, <1>i, <2>1, <2>2, <2>7, <3>1
      <3>2. CASE g \in issued /\ family[g] = g
        <4>1. \A t : t \in issued' \ revoked' /\ family'[t] = g
                     <=> t \in issued \ revoked /\ family[t] = g
          BY <1>g, <2>1, <2>3, <2>5, <2>7
        <4> QED
          BY <1>g, <1>h, <1>i, <3>2, <4>1
      <3> QED
        BY <3>1, <3>2
    <2>8. H' = [H EXCEPT ![f] = id]
      BY <1>d, <2>2, <2>6, <2>7
    <2> QED
      BY <2>1, <2>2, <2>4, <2>6, <2>8
  <1>3. ASSUME NEW r \in Requests, NEW id \in TokenIds, NEW s \in SUBSET Scopes,
               CreateRefreshToken(r, id, s)
        PROVE  /\ H[id] = "unborn" /\ id \notin issued
               /\ H' = [H EXCEPT ![id] = id] /\ H' # H
               /\ issued' = issued \cup {id}
    <2>1. /\ issued' = issued \cup {id} /\ id \notin issued
          /\ revoked' = revoked /\ family'[id] = id /\ revoked \subseteq issued
      BY <1>3 DEF CreateRefreshToken, TypeOK
    <2>2. H[id] = "unborn" /\ H'[id] = id /\ id # "unborn"
      BY <1>h, <1>i, <2>1, ChainAssumption
    <2>3. ASSUME NEW g \in TokenIds, g # id
          PROVE  H'[g] = H[g]
      <3>1. CASE g \notin issued \/ family[g] # g
        BY <1>g, <1>h, <1>i, <2>1, <2>3, <3>1
      <3>2. CASE g \in issued /\ family[g] = g
        <4>1. \A t : t \in issued' \ revoked' /\ family'[t] = g
                     <=> t \in issued \ revoked /\ family[t] = g
          BY <1>g, <2>1, <2>3
        <4> QED
          BY <1>g, <1>h, <1>i, <3>2, <4>1
      <3> QED
        BY <3>1, <3>2
    <2>4. H' = [H EXCEPT ![id] = id]
      BY <1>d, <2>2, <2>3
    <2> QED
      BY <2>1, <2>2, <2>4
  <1>4. CASE issued' = issued
    <2>1. CASE H' = H
      BY <1>4, <2>1 DEF H
    <2>2. CASE H' # H
      <3>1. PICK S \in SUBSET TokenIds :
                 /\ \A f \in S : H[f] \in TokenIds
                 /\ H' = [f \in TokenIds |-> IF f \in S THEN "closed" ELSE H[f]]
        BY <1>1, <1>4
      <3>2. Chains!Close(S)
        BY <1>4, <3>1 DEF Chains!Close, Chains!Held, H
      <3> QED
        BY <2>2, <3>2 DEF Chains!Next, H
    <2> QED
      BY <2>1, <2>2
  <1>5. CASE \E r \in Requests, id \in TokenIds, s \in SUBSET Scopes : Rotate(r, id, s)
    <2>1. PICK f \in TokenIds, id \in TokenIds :
                 /\ H[f] \in TokenIds /\ id \notin issued
                 /\ H' = [H EXCEPT ![f] = id] /\ H' # H
                 /\ issued' = issued \cup {id}
      BY <1>2, <1>5
    <2>2. Chains!Pass(f, id)
      BY <2>1 DEF Chains!Pass, Chains!Held, H
    <2> QED
      BY <2>1, <2>2 DEF Chains!Next, H
  <1>6. CASE \E r \in Requests, id \in TokenIds, s \in SUBSET Scopes :
               CreateRefreshToken(r, id, s)
    <2>1. PICK id \in TokenIds :
               /\ H[id] = "unborn" /\ id \notin issued
               /\ H' = [H EXCEPT ![id] = id] /\ H' # H
               /\ issued' = issued \cup {id}
      BY <1>3, <1>6
    <2>2. Chains!Open(id)
      BY <2>1 DEF Chains!Open, H
    <2> QED
      BY <2>1, <2>2 DEF Chains!Next, H
  <1> QED
    BY <1>4, <1>5, <1>6, StepInserts

\* The refresh-token table, under every interleaving of the requests and on
\* both drivers, implements the abstract chains: each has one holder, which is
\* only ever passed on to a fresh token or closed for good.
THEOREM Refinement == Spec => ImplementsChains
  <1>1. Init => Chains!Init
    BY DEF Init, Chains!Init, Holder
  <1>2. IInv /\ RootsNamed /\ IInv' /\ [Next]_vars
        => [Chains!Next]_<<[f \in TokenIds |-> Holder(f)], issued>>
    <2>1. ASSUME UNCHANGED vars
          PROVE  UNCHANGED <<[f \in TokenIds |-> Holder(f)], issued>>
      BY <2>1 DEF vars, Holder, Live
    <2>2. ASSUME IInv, RootsNamed, IInv', Next
          PROVE  [Chains!Next]_<<[f \in TokenIds |-> Holder(f)], issued>>
      BY <2>2, StepChain DEF Next
    <2> QED
      BY <2>1, <2>2
  <1> QED
    BY <1>1, <1>2, Inductive, Lineage, PTL DEF Spec, ImplementsChains, Chains!Spec

-----------------------------------------------------------------------------
(* The authorization codes that chains begin with: CodeRedemption, on the  *)
(* same database and with the same users and clients.                      *)

\* Every step keeps the types.
LEMMA RedeemType == ASSUME RedeemTypeOK, [RedeemNext]_redeemVars PROVE RedeemTypeOK'
  <1> USE DEF RedeemTypeOK, Stages, GoOn, EndRequest, history
  <1> driver' \in Drivers
    BY DEF RedeemNext, redeemVars
  <1>1. ASSUME NEW c \in Codes, IssueCode(c) \/ ExpireCode(c) PROVE RedeemTypeOK'
    BY <1>1 DEF IssueCode, ExpireCode
  <1>2. ASSUME NEW h \in Handlers, NEW f \in Form, Post(h, f) PROVE RedeemTypeOK'
    BY <1>2 DEF Post
  <1>3. ASSUME NEW h \in Handlers, ConsumeAuthCode(h) PROVE RedeemTypeOK'
    BY <1>3 DEF ConsumeAuthCode
  <1>4. ASSUME NEW h \in Handlers, ConsumeUpdate(h) PROVE RedeemTypeOK'
    BY <1>4 DEF ConsumeUpdate
  <1>5. ASSUME NEW h \in Handlers, Check(h) PROVE RedeemTypeOK'
    BY <1>5 DEF Check
  <1>6. ASSUME NEW h \in Handlers, CheckUser(h) PROVE RedeemTypeOK'
    BY <1>6 DEF CheckUser
  <1>7. ASSUME NEW h \in Handlers, Answer(h) PROVE RedeemTypeOK'
    <2>1. form[h] \in Form /\ form[h].code \in Codes
      BY <1>7 DEF Answer, Form
    <2> QED
      BY <1>7, <2>1 DEF Answer
  <1>8. ASSUME NEW h \in Handlers, AbandonRedemption(h) PROVE RedeemTypeOK'
    BY <1>8 DEF AbandonRedemption
  <1>9. ASSUME NEW u \in Users, ToggleOwner(u) PROVE RedeemTypeOK'
    BY <1>9 DEF ToggleOwner
  <1>10. CASE UNCHANGED redeemVars
    BY <1>10 DEF redeemVars
  <1> QED
    BY <1>1, <1>2, <1>3, <1>4, <1>5, <1>6, <1>7, <1>8, <1>9, <1>10 DEF RedeemNext, RedeemStep

\* On SQLite every step keeps the used flags true to the handlers and the
\* answers, and therefore a code has one holder or one answer.
LEMMA RedeemOnce ==
  ASSUME driver = "sqlite", OnceInv, [RedeemNext]_redeemVars
  PROVE  HeldCodesUsed' /\ RedeemedOnce'
  <1> USE DEF HeldCodesUsed, RedeemedOnce, GoOn, EndRequest, history,
         Holding
  <1> RedeemTypeOK /\ HeldCodesUsed /\ RedeemedOnce
    BY DEF OnceInv
  <1>t. /\ status \in [Codes -> {"new", "fresh", "used", "expired"}]
        /\ at \in [Handlers -> Stages]
        /\ form \in [Handlers -> Form \cup {NoForm}]
        /\ answered \in [Codes -> Nat]
        /\ \A h \in Handlers : at[h] # "idle" => form[h].code \in Codes
    BY DEF RedeemTypeOK, Form
  <1>1. ASSUME NEW c \in Codes, IssueCode(c) \/ ExpireCode(c)
        PROVE  HeldCodesUsed' /\ RedeemedOnce'
    BY <1>1, <1>t DEF IssueCode, ExpireCode
  <1>2. ASSUME NEW h \in Handlers, NEW f \in Form, Post(h, f)
        PROVE  HeldCodesUsed' /\ RedeemedOnce'
    BY <1>2, <1>t DEF Post
  <1>3. ASSUME NEW h \in Handlers, ConsumeAuthCode(h)
        PROVE  HeldCodesUsed' /\ RedeemedOnce'
    <2> DEFINE c == form[h].code
    <2>1. CASE status[c] # "fresh"
      BY <1>3, <1>t, <2>1 DEF ConsumeAuthCode
    <2>2. CASE status[c] = "fresh"
      <3>1. /\ c \in Codes /\ at' = [at EXCEPT ![h] = "check"] /\ form' = form
            /\ status' = [status EXCEPT ![c] = "used"] /\ answered' = answered
        BY <1>3, <1>t, <2>2 DEF ConsumeAuthCode
      <3>2. answered[c] = 0 /\ \A g \in Handlers : at[g] \in Holding => form[g].code # c
        BY <1>t, <2>2, <3>1
      <3> QED
        BY <1>t, <3>1, <3>2
    <2> QED
      BY <2>1, <2>2
  <1>4. ASSUME NEW h \in Handlers, ConsumeUpdate(h)
        PROVE  HeldCodesUsed' /\ RedeemedOnce'
    BY <1>4 DEF ConsumeUpdate
  <1>5. ASSUME NEW h \in Handlers, Check(h) \/ CheckUser(h) \/ AbandonRedemption(h)
        PROVE  HeldCodesUsed' /\ RedeemedOnce'
    BY <1>5, <1>t DEF Check, CheckUser, AbandonRedemption
  <1>6. ASSUME NEW h \in Handlers, Answer(h)
        PROVE  HeldCodesUsed' /\ RedeemedOnce'
    BY <1>6, <1>t DEF Answer
  <1>7. ASSUME NEW u \in Users, ToggleOwner(u)
        PROVE  HeldCodesUsed' /\ RedeemedOnce'
    BY <1>7 DEF ToggleOwner
  <1>8. CASE UNCHANGED redeemVars
    BY <1>8 DEF redeemVars
  <1> QED
    BY <1>1, <1>2, <1>3, <1>4, <1>5, <1>6, <1>7, <1>8 DEF RedeemNext, RedeemStep

\* On SQLite an authorization code is exchanged at most once, however many
\* requests race to redeem it.
THEOREM CodeRedeemedOnce == RedeemSpec => []SqliteRedeemedOnce
  <1>1. RedeemInit => OnceInv
    BY DEF RedeemInit, OnceInv, RedeemTypeOK, HeldCodesUsed, RedeemedOnce,
           Holding, Stages
  <1>2. OnceInv /\ [RedeemNext]_redeemVars => OnceInv'
    <2> SUFFICES ASSUME OnceInv, [RedeemNext]_redeemVars PROVE OnceInv'
      OBVIOUS
    <2>1. RedeemTypeOK'
      BY RedeemType DEF OnceInv
    <2>2. driver' = driver
      BY DEF RedeemNext, redeemVars
    <2> QED
      BY <2>1, <2>2, RedeemOnce DEF OnceInv
  <1>3. OnceInv => SqliteRedeemedOnce
    BY DEF OnceInv, SqliteRedeemedOnce
  <1> QED
    BY <1>1, <1>2, <1>3, PTL DEF RedeemSpec

\* On either driver a code that was spent or has expired never becomes fit to be
\* exchanged again.
THEOREM CodeSpentForGood == RedeemSpec => SpentForGood
  <1> DEFINE Good == \A c \in Codes :
                       /\ status[c] = "used" => status'[c] = "used"
                       /\ status[c] = "expired" => status'[c] \in {"expired", "used"}
  <1>1. RedeemInit => RedeemTypeOK
    BY DEF RedeemInit, RedeemTypeOK, Stages
  <1>2. RedeemTypeOK /\ [RedeemNext]_redeemVars => RedeemTypeOK'
    BY RedeemType
  <1>3. RedeemTypeOK /\ [RedeemNext]_redeemVars => [Good]_redeemVars
    BY DEF RedeemTypeOK, RedeemNext, RedeemStep, redeemVars, IssueCode, ExpireCode,
           Post, ConsumeAuthCode, ConsumeUpdate,
           Check, CheckUser, Answer, AbandonRedemption, ToggleOwner
  <1> QED
    BY <1>1, <1>2, <1>3, PTL DEF RedeemSpec, SpentForGood
=============================================================================
