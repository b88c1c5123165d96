---------------------------- MODULE TokenGrants ----------------------------
(***************************************************************************)
(* The refresh-token table of Omni Identity and every request that reads   *)
(* or writes it: the refresh_token grant (rotation and reuse detection),   *)
(* the creation of a first refresh token by the authorization_code and     *)
(* device_code grants, RFC 7009 revocation, RP-initiated logout, device    *)
(* revocation, and the administrator's switches for users and clients.     *)
(*                                                                         *)
(* A request is a sequence of store calls.  Each store call is one step,   *)
(* because other requests run between them: the store keeps no lock from   *)
(* one call to the next.  On SQLite a statement or transaction is atomic   *)
(* (the pool has one connection).  On Postgres, READ COMMITTED, an UPDATE  *)
(* over many rows works on the rows its snapshot saw: a row that another   *)
(* transaction inserts meanwhile is not updated.                           *)
(***************************************************************************)
EXTENDS Deployment, Naturals, FiniteSets

CONSTANTS
    Devices,
    Keys,               \* DPoP key thumbprints
    Scopes,             \* scope values
    OfflineAccess,      \* the scope value that grants a refresh token
    TokenIds,           \* identities of refresh-token rows
    Requests,           \* slots for requests in flight
    MaxChains,          \* bound: first tokens, granted or about to be
    MaxExpired,         \* bound: rows whose lifetime ends
    NoUser, NoClient, NoDevice, NoKey, NoToken

ASSUME BoundAssumption == MaxExpired \in Nat /\ MaxChains \in Nat
ASSUME ScopeAssumption == OfflineAccess \in Scopes
ASSUME NullAssumption ==
    /\ NoUser \notin Users
    /\ NoClient \notin Clients
    /\ NoDevice \notin Devices
    /\ NoKey \notin Keys
    /\ NoToken \notin TokenIds
ASSUME ChainAssumption == TokenIds \cap {"unborn", "closed"} = {}

VARIABLES
    issued,             \* ids of the rows of refresh_tokens
    rt,                 \* the immutable columns of each row
    revoked,            \* rows with revoked = TRUE
    expired,            \* rows whose expires_at has passed
    disabledClients,
    revokedDevices,     \* devices that are revoked (deleted ones included)
    pc,                 \* where each request is
    req,                \* what it has read or was given
    family,             \* history: the first token of the row's rotation chain
    dead,               \* history: chains a completed mass revocation covered
    legit               \* history: refreshes whose token was live, user enabled
                        \* and device active at one instant of the request

table   == <<issued, rt, revoked, expired>>
switches == <<disabledUsers, disabledClients, revokedDevices>>
vars    == <<driver, issued, rt, revoked, expired, disabledUsers, disabledClients,
             revokedDevices, pc, req, family, dead, legit>>

Row == [client : Clients, user : Users, device : Devices \cup {NoDevice},
        jkt : Keys \cup {NoKey}, scope : SUBSET Scopes,
        from : TokenIds \cup {NoToken}]

\* The columns of an id that names no row yet.
NoRow == [client |-> NoClient, user |-> NoUser, device |-> NoDevice,
          jkt |-> NoKey, scope |-> {}, from |-> NoToken]

PCs == {"idle", "user", "device", "rotate", "ok", "grantUser", "create",
        "revokeChain", "apply", "applyDevice"}

Request == [tok : TokenIds \cup {NoToken}, user : Users \cup {NoUser},
            client : Clients \cup {NoClient}, device : Devices \cup {NoDevice},
            jkt : Keys \cup {NoKey}, ids : SUBSET TokenIds]

Params(t, u, c, d, k, S) ==
    [tok |-> t, user |-> u, client |-> c, device |-> d, jkt |-> k, ids |-> S]

NoParams == Params(NoToken, NoUser, NoClient, NoDevice, NoKey, {})

Live(t) == t \in issued \ revoked

\* A request of refresh_token kind that has read a live row.
Refreshing(r) == pc[r] \in {"user", "device", "rotate", "ok"}

Init ==
    /\ driver \in Drivers
    /\ issued = {}
    /\ rt = [t \in TokenIds |-> NoRow]
    /\ revoked = {}
    /\ expired = {}
    /\ disabledUsers = {}
    /\ disabledClients = {}
    /\ revokedDevices = {}
    /\ pc = [r \in Requests |-> "idle"]
    /\ req = [r \in Requests |-> NoParams]
    /\ family = [t \in TokenIds |-> NoToken]
    /\ dead = {}
    /\ legit = [r \in Requests |-> FALSE]

Goto(r, l) == pc' = [pc EXCEPT ![r] = l] /\ UNCHANGED req
Become(r, l, q) == pc' = [pc EXCEPT ![r] = l] /\ req' = [req EXCEPT ![r] = q]
Return(r) == Become(r, "idle", NoParams)

-----------------------------------------------------------------------------
(* The refresh_token grant.                                                *)

\* Mutant: the DPoP binding of the token is not compared with the proof's key.
RefreshReadUnbound(r, t, k) ==
    /\ pc[r] = "idle"
    /\ t \in issued
    /\ rt[t].client \notin disabledClients
    /\ t \notin revoked
    /\ t \notin expired
    /\ Become(r, "user", Params(t, rt[t].user, rt[t].client, rt[t].device, k, {}))
    /\ UNCHANGED <<table, switches, family, dead>>

\* The client is authenticated and the presented token found and fit to be
\* exchanged: its own client's, not revoked, not expired and, when it is bound
\* to a DPoP key, presented with a proof of that key.
RefreshRead(r, t, k) ==
    /\ pc[r] = "idle"
    /\ t \in issued
    /\ rt[t].client \notin disabledClients
    /\ t \notin revoked
    /\ t \notin expired
    /\ rt[t].jkt \in {NoKey, k}
    /\ Become(r, "user", Params(t, rt[t].user, rt[t].client, rt[t].device, k, {}))
    /\ UNCHANGED <<table, switches, family, dead>>

\* The presented token is already revoked: the handler goes on to revoke the
\* tokens of its user and client.
RefreshReuse(r, t) ==
    /\ pc[r] = "idle"
    /\ t \in issued
    /\ rt[t].client \notin disabledClients
    /\ t \in revoked
    /\ Become(r, "revokeChain", Params(NoToken, rt[t].user, rt[t].client,
                                       NoDevice, NoKey, {}))
    /\ UNCHANGED <<table, switches, family, dead>>

\* GetUserByID: a disabled or deleted user ends the request.
RefreshUser(r) ==
    /\ pc[r] = "user"
    /\ IF req[r].user \in disabledUsers
       THEN Return(r)
       ELSE Goto(r, IF req[r].device = NoDevice THEN "rotate" ELSE "device")
    /\ UNCHANGED <<table, switches, family, dead>>

\* Mutant: the device of the token is not looked up again.
RefreshDeviceUnchecked(r) ==
    /\ pc[r] = "device"
    /\ Goto(r, "rotate")
    /\ UNCHANGED <<table, switches, family, dead>>

\* GetDevice: a device-bound token needs its device active.
RefreshDevice(r) ==
    /\ pc[r] = "device"
    /\ IF req[r].device \in revokedDevices THEN Return(r) ELSE Goto(r, "rotate")
    /\ UNCHANGED <<table, switches, family, dead>>

\* The row newRefreshToken builds as the replacement of request q's token.
Replacement(q, s) ==
    [client |-> q.client, user |-> q.user, device |-> q.device, jkt |-> q.jkt,
     scope |-> s, from |-> q.tok]

\* Mutant: the UPDATE of RotateRefreshToken without "AND revoked = FALSE".
RotateUnguarded(r, id, s) ==
    /\ pc[r] = "rotate"
    /\ id \notin issued
    /\ s \subseteq rt[req[r].tok].scope
    /\ OfflineAccess \in s
    /\ revoked' = revoked \cup {req[r].tok}
    /\ issued' = issued \cup {id}
    /\ rt' = [rt EXCEPT ![id] = Replacement(req[r], s)]
    /\ family' = [family EXCEPT ![id] = family[req[r].tok]]
    /\ Goto(r, "ok")
    /\ UNCHANGED <<expired, switches, dead>>

\* RotateRefreshToken with a replacement: the presented token is revoked, if
\* it still is not, and the replacement inserted, in one transaction.
Rotate(r, id, s) ==
    /\ pc[r] = "rotate"
    /\ id \notin issued
    /\ s \subseteq rt[req[r].tok].scope
    /\ OfflineAccess \in s
    /\ req[r].tok \notin revoked
    /\ revoked' = revoked \cup {req[r].tok}
    /\ issued' = issued \cup {id}
    /\ rt' = [rt EXCEPT ![id] = Replacement(req[r], s)]
    /\ family' = [family EXCEPT ![id] = family[req[r].tok]]
    /\ Goto(r, "ok")
    /\ UNCHANGED <<expired, switches, dead>>

\* RotateRefreshToken without a replacement: the request narrowed the scope
\* and left offline_access out.
RotateLast(r) ==
    /\ pc[r] = "rotate"
    /\ req[r].tok \notin revoked
    /\ revoked' = revoked \cup {req[r].tok}
    /\ Goto(r, "ok")
    /\ UNCHANGED <<issued, rt, expired, switches, family, dead>>

\* RotateRefreshToken changed no row: another request was first.  That is
\* reuse, and the handler goes on to revoke the tokens of user and client.
RotateLost(r) ==
    /\ pc[r] = "rotate"
    /\ req[r].tok \in revoked
    /\ Become(r, "revokeChain", Params(NoToken, req[r].user, req[r].client,
                                       NoDevice, NoKey, {}))
    /\ UNCHANGED <<table, switches, family, dead>>

\* The token response is written.
Respond(r) ==
    /\ pc[r] = "ok"
    /\ Return(r)
    /\ UNCHANGED <<table, switches, family, dead>>

-----------------------------------------------------------------------------
(* Mass revocation.                                                        *)

OfUserClient(u, c) == {t \in issued : rt[t].user = u /\ rt[t].client = c}
OfDevice(d) == {t \in issued : rt[t].device = d}
FamiliesOf(S) == {family[t] : t \in S}

\* RevokeRefreshTokensForUserClient.  On Postgres this step is the snapshot of
\* the UPDATE; RevokeApply is its end.
RevokeUserClient(r) ==
    /\ pc[r] = "revokeChain"
    /\ LET S == OfUserClient(req[r].user, req[r].client) IN
       \/ /\ driver = "sqlite"
          /\ revoked' = revoked \cup S
          /\ dead' = dead \cup FamiliesOf(S)
          /\ Return(r)
       \/ /\ driver = "postgres"
          /\ Become(r, "apply", Params(NoToken, req[r].user, req[r].client,
                                       NoDevice, NoKey, S))
          /\ UNCHANGED <<revoked, dead>>
    /\ UNCHANGED <<issued, rt, expired, switches, family>>

RevokeApply(r) ==
    /\ pc[r] = "apply"
    /\ revoked' = revoked \cup req[r].ids
    /\ dead' = dead \cup FamiliesOf(req[r].ids)
    /\ Return(r)
    /\ UNCHANGED <<issued, rt, expired, switches, family>>

\* handleLogoutPage with an id_token_hint that names user u and client c.
Logout(r, u, c) ==
    /\ pc[r] = "idle"
    /\ Become(r, "revokeChain", Params(NoToken, u, c, NoDevice, NoKey, {}))
    /\ UNCHANGED <<table, switches, family, dead>>

\* RevokeDevice: the device's status and its tokens in one transaction.  On
\* Postgres this step is the snapshot of the token UPDATE and the commit is
\* RevokeDeviceCommit.
RevokeDevice(r, d) ==
    /\ pc[r] = "idle"
    /\ d \notin revokedDevices
    /\ \/ /\ driver = "sqlite"
          /\ revokedDevices' = revokedDevices \cup {d}
          /\ revoked' = revoked \cup OfDevice(d)
          /\ dead' = dead \cup FamiliesOf(OfDevice(d))
          /\ UNCHANGED <<pc, req>>
       \/ /\ driver = "postgres"
          /\ Become(r, "applyDevice", Params(NoToken, NoUser, NoClient, d, NoKey,
                                             OfDevice(d)))
          /\ UNCHANGED <<revokedDevices, revoked, dead>>
    /\ UNCHANGED <<issued, rt, expired, disabledUsers, disabledClients, family>>

\* A second RevokeDevice of the device waits for the first one's row lock and
\* then changes no row: ErrNotFound, rolled back.
RevokeDeviceCommit(r) ==
    /\ pc[r] = "applyDevice"
    /\ IF req[r].device \in revokedDevices
       THEN UNCHANGED <<revokedDevices, revoked, dead>>
       ELSE /\ revokedDevices' = revokedDevices \cup {req[r].device}
            /\ revoked' = revoked \cup req[r].ids
            /\ dead' = dead \cup FamiliesOf(req[r].ids)
    /\ Return(r)
    /\ UNCHANGED <<issued, rt, expired, disabledUsers, disabledClients, family>>

-----------------------------------------------------------------------------
(* First refresh tokens, single revocation and the administrator.          *)

\* The bound on chains.
RoomForChain ==
    Cardinality({t \in issued : rt[t].from = NoToken}
                \cup {r \in Requests : pc[r] \in {"grantUser", "create"}}) < MaxChains

\* grantAuthorizationCode: the client is authenticated and the code consumed.
CodeGrant(r, u, c, k) ==
    /\ pc[r] = "idle" /\ RoomForChain
    /\ c \notin disabledClients
    /\ Become(r, "grantUser", Params(NoToken, u, c, NoDevice, k, {}))
    /\ UNCHANGED <<table, switches, family, dead>>

\* grantDeviceCode of a grant bound to device d: the client and the device
\* that polls are authenticated.
DeviceGrant(r, u, c, d, k) ==
    /\ pc[r] = "idle" /\ RoomForChain
    /\ c \notin disabledClients
    /\ d \notin revokedDevices
    /\ Become(r, "grantUser", Params(NoToken, u, c, d, k, {}))
    /\ UNCHANGED <<table, switches, family, dead>>

\* GetUserByID in either grant.
GrantUser(r) ==
    /\ pc[r] = "grantUser"
    /\ IF req[r].user \in disabledUsers THEN Return(r) ELSE Goto(r, "create")
    /\ UNCHANGED <<table, switches, family, dead>>

\* CreateRefreshToken: the first token of a new chain.
CreateRefreshToken(r, id, s) ==
    /\ pc[r] = "create"
    /\ id \notin issued
    /\ OfflineAccess \in s
    /\ issued' = issued \cup {id}
    /\ rt' = [rt EXCEPT ![id] = Replacement(req[r], s)]
    /\ family' = [family EXCEPT ![id] = id]
    /\ Return(r)
    /\ UNCHANGED <<revoked, expired, switches, dead>>

\* handleRevoke: RFC 7009 revocation of one token by its client.
RevokeToken(t) ==
    /\ t \in issued
    /\ rt[t].client \notin disabledClients
    /\ revoked' = revoked \cup {t}
    /\ UNCHANGED <<issued, rt, expired, switches, pc, req, family, dead>>

\* SetUserDisabled, either way.
ToggleUser(u) ==
    /\ disabledUsers' = IF u \in disabledUsers THEN disabledUsers \ {u}
                                             ELSE disabledUsers \cup {u}
    /\ UNCHANGED <<table, disabledClients, revokedDevices, pc, req, family, dead>>

ToggleClient(c) ==
    /\ disabledClients' = IF c \in disabledClients THEN disabledClients \ {c}
                                                 ELSE disabledClients \cup {c}
    /\ UNCHANGED <<table, disabledUsers, revokedDevices, pc, req, family, dead>>

\* expires_at of a row passes.
Expire(t) ==
    /\ t \in issued \ expired
    /\ Cardinality(expired) < MaxExpired
    /\ expired' = expired \cup {t}
    /\ UNCHANGED <<issued, rt, revoked, switches, pc, req, family, dead>>

\* A store call fails, the request's context is cancelled or a later check
\* (scope, signing) refuses: the handler returns and its open transaction, if
\* any, is rolled back.  The error of the chain revocation is ignored.
Abandon(r) ==
    /\ pc[r] # "idle"
    /\ Return(r)
    /\ UNCHANGED <<table, switches, family, dead>>

-----------------------------------------------------------------------------
Step ==
    \/ \E r \in Requests :
        \/ \E t \in TokenIds :
            \/ \E k \in Keys \cup {NoKey} : RefreshRead(r, t, k)
            \/ RefreshReuse(r, t)
        \/ RefreshUser(r)
        \/ RefreshDevice(r)
        \/ \E id \in TokenIds, s \in SUBSET Scopes : Rotate(r, id, s)
        \/ RotateLast(r)
        \/ RotateLost(r)
        \/ Respond(r)
        \/ RevokeUserClient(r)
        \/ RevokeApply(r)
        \/ \E u \in Users, c \in Clients : Logout(r, u, c)
        \/ \E d \in Devices : RevokeDevice(r, d)
        \/ RevokeDeviceCommit(r)
        \/ \E u \in Users, c \in Clients, k \in Keys \cup {NoKey} :
            \/ CodeGrant(r, u, c, k)
            \/ \E d \in Devices : DeviceGrant(r, u, c, d, k)
        \/ GrantUser(r)
        \/ \E id \in TokenIds, s \in SUBSET Scopes : CreateRefreshToken(r, id, s)
        \/ Abandon(r)
    \/ \E t \in TokenIds : RevokeToken(t) \/ Expire(t)
    \/ \E u \in Users : ToggleUser(u)
    \/ \E c \in Clients : ToggleClient(c)

\* The token of request q is live, its user enabled and its device, if it is
\* bound to one, active.
Entitled(q) ==
    /\ q.tok \in issued \ revoked
    /\ q.user \notin disabledUsers
    /\ q.device \notin revokedDevices

\* History: legit[r] from the step on after which r's token is entitled.
Remember ==
    legit' = [r \in Requests |->
                /\ Refreshing(r)'
                /\ \/ Refreshing(r) /\ legit[r]
                   \/ Entitled(req[r])']

Next == Step /\ Remember /\ UNCHANGED driver

Spec == Init /\ [][Next]_vars

-----------------------------------------------------------------------------
(* Properties.                                                             *)

\* Every variable has its type; the columns of an id are set exactly when the
\* row exists.
TypeOK ==
    /\ driver \in Drivers
    /\ issued \subseteq TokenIds
    /\ rt \in [TokenIds -> Row \cup {NoRow}]
    /\ \A t \in TokenIds : t \in issued <=> rt[t] \in Row
    /\ revoked \subseteq issued
    /\ expired \subseteq issued
    /\ disabledUsers \subseteq Users
    /\ disabledClients \subseteq Clients
    /\ revokedDevices \subseteq Devices
    /\ pc \in [Requests -> PCs]
    /\ req \in [Requests -> Request]
    /\ family \in [TokenIds -> TokenIds \cup {NoToken}]
    /\ dead \subseteq TokenIds
    /\ legit \in [Requests -> BOOLEAN]

\* However many refresh requests race on a rotation chain, it has at most one
\* token that can still be exchanged (RotateRefreshToken is safe against
\* concurrent double-spend).
OneLivePerChain ==
    \A t1, t2 \in issued :
        /\ Live(t1) /\ Live(t2)
        /\ family[t1] = family[t2]
        => t1 = t2

\* A replacement keeps the user, client and device of the token it replaces,
\* never gains scope, and never loses a DPoP binding.
LineageKept ==
    \A t \in issued :
        rt[t].from # NoToken
        => LET p == rt[t].from IN
           /\ p \in issued
           /\ family[t] = family[p]
           /\ rt[t].user = rt[p].user
           /\ rt[t].client = rt[p].client
           /\ rt[t].device = rt[p].device
           /\ rt[t].scope \subseteq rt[p].scope
           /\ rt[p].jkt # NoKey => rt[t].jkt = rt[p].jkt

\* Once reuse detection, a logout or a device revocation has revoked the chains
\* of a user and client or of a device, none of those chains comes back: a
\* refresh that was in flight cannot leave a live replacement behind.
RevokedChainStaysDead ==
    \A t \in issued : family[t] \in dead => t \in revoked

\* The same where a mass revocation is one atomic statement.
SqliteChainsStayDead == driver = "sqlite" => RevokedChainStaysDead

\* A refresh answered with tokens was entitled to them: at one instant of the
\* request its token was live, its user enabled and its device active, even
\* though the handler looks at the three in three separate reads.
AnsweredRefreshWasEntitled ==
    \A r \in Requests : pc[r] = "ok" => legit[r]

\* Revocation is final: no step makes a revoked token, or a chain without a
\* live token, live again.
RevocationIsFinal ==
    [][/\ revoked \subseteq revoked'
       /\ \A t \in issued :
            (\A u \in issued : family[u] = family[t] => u \in revoked)
            => (\A u \in issued' : family'[u] = family[t] => u \in revoked')]_vars

\* The inductive invariant behind the theorems of TokenGrantsProofs: chains
\* are rooted in issued rows and share user, client and device; a request that
\* has read a row still carries that row's columns; legit is never behind.
ChainsRooted ==
    \A t \in issued : family[t] \in issued
ChainsUniform ==
    \A t1, t2 \in issued :
        family[t1] = family[t2]
        => /\ rt[t1].user = rt[t2].user
           /\ rt[t1].client = rt[t2].client
           /\ rt[t1].device = rt[t2].device
SnapshotTrue(r) ==
    LET q == req[r] IN
    /\ Refreshing(r) => /\ q.tok \in issued
                        /\ q.user = rt[q.tok].user
                        /\ q.client = rt[q.tok].client
                        /\ q.device = rt[q.tok].device
                        /\ rt[q.tok].jkt \in {NoKey, q.jkt}
    /\ pc[r] \in {"grantUser", "create"} => /\ q.tok = NoToken
                                            /\ q.user \in Users
                                            /\ q.client \in Clients
    /\ pc[r] = "applyDevice" => q.device \in Devices
    /\ q.ids \subseteq issued
EntitlementSeen(r) ==
    LET q == req[r] IN
    /\ Refreshing(r) /\ Entitled(q) => legit[r]
    /\ pc[r] = "device" => \/ legit[r]
                           \/ q.tok \in revoked
                           \/ q.device \in revokedDevices
    /\ pc[r] = "rotate" => legit[r] \/ q.tok \in revoked
    /\ pc[r] = "ok" => legit[r]
IInv ==
    /\ TypeOK
    /\ OneLivePerChain
    /\ ChainsRooted
    /\ ChainsUniform
    /\ \A r \in Requests : SnapshotTrue(r) /\ EntitlementSeen(r)

-----------------------------------------------------------------------------
(* The rotation chains the table implements.                               *)

\* The token of chain f that can still be exchanged.
Holder(f) ==
    IF f \notin issued \/ family[f] # f THEN "unborn"
    ELSE IF \E t \in issued : Live(t) /\ family[t] = f
         THEN CHOOSE t \in issued : Live(t) /\ family[t] = f
         ELSE "closed"

Chains == INSTANCE RotationChain
              WITH Tokens <- TokenIds, Unborn <- "unborn", Closed <- "closed",
                   holder <- [f \in TokenIds |-> Holder(f)], used <- issued

\* The table, under every interleaving of the requests, behaves as a set of
\* chains of which each has one holder that is only ever passed on or closed.
ImplementsChains == Chains!Spec
=============================================================================
