# TLA+ models of Omni Identity

Omni Identity is an OpenID Connect provider with an administrator's UI, enrolled
devices and an endpoint agent that signs users in on Linux machines. It keeps
all its state in one SQL database, SQLite or Postgres, and serves every request
with a handler that makes a handful of store calls. The handlers take no lock
between those calls. Most of what can go wrong and is hard to test lies there:
in what one request has read when another one writes.

The modules in this directory model those handlers one store call per step, the
TLC configurations check them on small instances, and the `*Proofs` modules
prove the properties that matter most for every value of the constants.

## 1. Inventory

| Part | State | Operations | What makes it correct |
| --- | --- | --- | --- |
| Refresh tokens (`web/token_handler.go`, `store/refresh_tokens.go`) | `refresh_tokens`: owner, client, device, DPoP key, scope, revoked, expiry | refresh grant with rotation and reuse detection, first tokens from two grants, RFC 7009, logout, device revocation | a chain has one usable token; revocation is final; an answered refresh was entitled |
| Authorization endpoint (`web/authorize_handler.go`, `consent_handler.go`, `auth_handlers.go`) | `auth_requests`, `authorization_codes`, the session cookie | authorize, park, login, second factor, consent, deny, issue a code | a code names a real sign-in, has consent, goes to a registered address; a spent request stays spent |
| Code redemption (`web/token_handler.go`, `store/auth_codes.go`) | `authorization_codes.used` | the authorization_code grant | a code buys tokens once; an answered redemption fits the code |
| Login (`web/auth_handlers.go`, `mfa_handler.go`, `webauthn.go`, `auth/session.go`) | `users` (hash, failed logins, lock, MFA), `sessions`, `login_challenges`, `password_tokens`, recovery codes, passkeys, in-memory rate limiters | password, directory, TOTP, recovery code and passkey sign-in, reset link, change of password, sign-out | a session follows from credentials that were right; a reset or a disabling ends the sessions that exist; one-time things work once |
| Device code grant (`web/device_grant_handler.go`, `store/devices.go`) | `device_codes` | authorize, poll, confirm, approve, deny, exchange | exchanged once, by the approver, with an admissible device; the first decision stands |
| Polling client (`enrollment/client.go`) | its interval and deadline | poll, back off, stop | ends; never polls too fast; collects an approval that came in time |
| Device registry (`web/device_api.go`, `store/devices.go`, `pop/`) | `devices`, `device_assertion_jtis` | enroll, approve, rotate key, revoke, delete, assertions, DPoP proofs | one device per key; a proof is accepted once; a revoked device gets nothing |
| Endpoint agent (`enrollment/agent.go`, `ceremony.go`, `keystore.go`, `state.go`, `gui.go`, `enrollcli/cli.go`) | `device.json`, `status.json`, `device.key` or `device.tpm.json` | enroll, renew, rotate the key, unenroll, cancel, follow an issuer move | the record names a key the server took; a machine is enrolled or clean; the server's decision arrives |
| Linux login and broker (`enrollment/login.go`, `session.go`, `pamsock.go`, `nsssock.go`, `brokersock.go`) | `users/<name>.json` | PAM login, offline login, trust refresh, name lookup, token broker, signin, signout | a local password is its user's; offline login is backed by the server's word and ends with it; uids stay apart |
| Accounts and managed directory (`web/admin.go`, `admin_directory.go`, `store/users.go`, `ldap/ldap.go`) | `users`, directory entries | create, promote, edit, disable, delete, directory sign-in, setup | no account is taken over; a mirror has its entry; an administrator remains |
| Personal access tokens (`web/pat_handler.go`) | `personal_access_tokens`, the gateway's list | create, revoke, expire, list | tokens stop with their account and device; a rejection lasts |
| Settings, keys, secrets, migrations, sweeper, log shipping | `settings`, `signing_keys`, caches, queue | start, change, sweep, ship, close | outside these models, except for the sweeper's deletions |
| E-mail, formats, cryptography, UI | none of its own | network I/O, encoding | outside these models |

The parts meet in the database. A sign-in makes the session that the
authorization endpoint reads; the authorization endpoint makes the code that
redemption consumes; redemption and the device grant create the first refresh
token of a chain; the administrator's switches for users, clients and devices
are read by all of them, each time in a separate statement. The endpoint agent
meets the server through the device grant, assertions and refresh tokens, and
itself through its files, which several processes load, change and save whole.

What is hard: two requests on one row (double spend, decide twice); a value read
and used after it changed (user disabled, device revoked, client edited,
password replaced while the sign-in runs); statements of which one fails and
whose error is thrown away; two systems, the database and the directory, that no
transaction spans; files that are loaded, kept over a conversation with the
server and saved; a kill between the server's answer and the save; rows with a
lifetime, deleted by a sweeper under a
request's feet; replies that are lost; a client and a server that must agree on
an interval; and Postgres, where a statement works on a snapshot and the
single connection that protects SQLite is gone. `PROJECT.json` lists each hazard
with its line and the properties that watch it.

## 2. Plan

Order: what decides who gets a token first, then what a token request relies on,
then the machines, then the server around them.

| Step | Modules | Question | State |
| --- | --- | --- | --- |
| 1 | `TokenGrants`, `RotationChain`, `TokenGrantsProofs` | rotation chains under races, on both databases; the abstract chain they implement | done, proved, the refinement too |
| 2 | `AuthorizeFlow`, `AuthorizeFlowProofs` | from /authorize to a code | done, proved |
| 3 | `Deployment`, `CodeRedemption`, last part of `TokenGrantsProofs` | one code, one answer | done, proved |
| 4 | `DeviceGrant`, `DeviceGrantProofs`, `DevicePolling` | the device grant and its polling client | done, both proved |
| 5 | `LoginSession`, `LoginSessionProofs` | passwords, second factors, sessions and their end | done, proved |
| 6 | `DeviceRegistry`, `DeviceRegistryProofs` | keys, rotation, enrollment, assertions and the jti replay guard | done, proved |
| 7 | `EndpointAgent`, `EndpointAgentProofs` | the agent's files under overlapping operations, kills and lost replies | done, proved |
| 8 | `UserCache`, `UserCacheProofs` | Linux login, offline trust and the broker on shared files | done, proved |
| 9 | `Accounts`, `AccountsProofs` | accounts, the managed directory and personal access tokens | done, proved |

Left: nothing of the safety properties that the runs check is without a theorem.
What the models could still take in is listed in section 6; what stays with TLC is
at the end of section 5.

`TokenGrants` composes the grants through the rows they leave: what
`CodeRedemption` and `DeviceGrant` establish about a grant is the guard of the
actions `CodeGrant` and `DeviceGrant` there.

## 3. The modules

Every module follows one pattern. `pc` says where each request in flight is and
`req` what it has read or was given. An action is one store call (a statement or
a transaction) together with the branch that follows it; a handler's first read
and the checks before it are one action, because nothing else of the handler
happens before. `Abandon` is a store call that fails, a client that hangs up, or
a check outside the model that refuses: the handler returns and what it had
committed stays. Variables called history in the declarations are not in the
code; they record what a property needs to speak about the past.

### TokenGrants and RotationChain

`issued`, `rt`, `revoked` and `expired` are the table; `rt` holds the columns no
statement changes. `RefreshRead`, `RefreshReuse`, `RefreshUser`, `RefreshDevice`,
`Rotate`, `RotateLast`, `RotateLost` and `Respond` are `grantRefreshToken` in its
order. `RevokeUserClient` serves reuse detection and logout, `RevokeDevice` is
the administrator's or the owner's. `driver` is chosen in `Init` and never
changes: on `sqlite` an UPDATE over many rows is one step, on `postgres` it is
the step that takes the snapshot and the step (`RevokeApply`,
`RevokeDeviceCommit`) that writes the rows the snapshot saw. Token strings are
identities of rows: hashing is injective here. Scopes are sets, the token's own
scope bounds the new one.

`RotationChain` is what the table promises: a chain has at most one holder, which
is passed on to a token never used before, or closed for good.
`ImplementsChains` states that `TokenGrants`, under the mapping `Holder`,
behaves that way.

### AuthorizeFlow

A row of `auth_requests` is `parked[i]` with `row[i]`. Scope, state, nonce and
code challenge are copied together by every handler and are one value, the ask.
`Authorize`, `AuthorizeSession` and `Park` are the endpoint; `LoginForm`,
`LoginSubmit` with `Password`, `MFASubmit`, `PasskeyLoginFinish` and
`ConsentSubmit` are the handlers that resume, each loading the row (`LoadRow`)
and the client (`LoadClient`) again; `Drop` deletes the row and `IssueCode`
writes the code. `DropFails` is the ignored error of the delete.
`EditClient`/`UpdateClient` are the two halves of the client form, which writes
back the disabled flag it read.

### CodeRedemption

`grantAuthorizationCode`, with the SELECT and the UPDATE of `ConsumeAuthCode`
apart. On SQLite its transaction holds the only connection; on Postgres both
statements of two transactions interleave. Users, clients, the database and the
disabled users are in `Deployment`, which `TokenGrants` extends too; the names of
`CodeRedemption` and `DevicePolling` (`RedeemNext`, `PollSpec`) let one proof module
extend two components.

### LoginSession

One local account and everything that signs in to it or changes it. `LoginSubmit`,
`LookUp`, `RecordFailedLogin` and `ResetFailedLogins` are the password;
`CreateLoginChallenge`, `MFASubmit`, `MFAUser`, `ConsumeRecoveryCode` and
`DeleteLoginChallenge` the second factor; `NewCeremony` to `PasskeyUsed` the
passkey; `DeleteSession` and `CreateSession` the two statements of
`sessions.Issue`. The changes of the account are a link (`SetPasswordSubmit`), the
administrator's forms and the handlers of the account page, which start with
`RequireUser` and `Owner`, the two reads of `requireUser`. A password, a TOTP
secret or a set of recovery codes is the number of the change that wrote it.
Whether what the browser sent is right is a free choice at the step that compares
it with what was read. `fit` and `keyed` remember whether the row matched the
factors of a sign-in at some instant of it, `purged` the newest password whose
change is complete; an ignored error is the alternative in which nothing is
written.

### DeviceGrant and DevicePolling

`DeviceGrant` has the races: polls, approvals, denials, the device check, the
sweeper and the administrator. `DevicePolling` has the time: `WaitForDeviceCode`
with its interval, back-off and deadline against the server's interval and
expiry, messages that take up to `MaxDelay` or are lost.

### DeviceRegistry

Rows of `devices` with their status and keys, and the rows of
`device_assertion_jtis`. A request verifies what it was given (`EnrollDevice`,
`GrantJWTBearer`, or `RequireDevice` and `AuthenticateDevice` for the device API),
records its jti (`ConsumeJTI`), looks whether the key is taken
(`FingerprintInUse`) and writes (`CreateDevice`, `RotateDeviceKey`,
`IssueDeviceToken`, `Unenroll`), each a statement of its own. `Unique` is the
constraint of the table that catches what the look missed. A signed proof or
assertion never goes away and may be presented by anyone at any time; `Age` is the
clock. What is verified is "valid"; a DPoP proof is then "stale", no longer
verified but still remembered, since its row lives one leeway longer; "over" is
what the replay guard has forgotten. An assertion goes from "valid" to "over" at
once, its row having no such margin. The model assumes that no request takes the
five minutes a DPoP proof is stale to get from its verification to the table.
The owner's account, posture and the key a device token is bound to are left out:
a token here is a request that may be made.

### EndpointAgent

`record`, `file`, `blob` and `runtime` are `device.json`, `device.key`,
`device.tpm.json` and `status.json`; `server` is the server's row of each device
with the keys it ever accepted for it. The processes are the daemon and the
commands, of which the page's buttons are some; `proc` holds what an operation
loaded, because the code keeps the whole record in memory while it talks to the
server and writes it back whole. `Renew`, `RotateKeyTo`, `Unenroll` and
`BeginEnrollment` begin the operations. `FollowIssuerMove`, `DeviceToken`,
`Unreachable` and `ServerError` are the exchange they share: an error the server
answers with, a 5xx included, is a refusal for the client, and only a transport
error is not. A lost reply is the `heard` or `reached` of an exchange that took
place. `Kill` ends an operation between any two steps. `DaemonPanics` is the nil
record the renewal loop dereferences when `Open` fails.

### UserCache

`users` is the directory of cache files. PAM conversations (`Login`,
`OfflineLogin`, `EmptyPassword`, `onlineLogin`, `LoginSave`), the trust refresh
(`RenewHeard` to `RefreshDone`), lookups (`NSS`), the broker, `signin` and
`signout` read an entry, talk, and write the whole entry. The server is
abstracted to who has a name, who is enabled, whether the machine is honoured,
and its refresh-token chains, which behave as `RotationChain` says: a token
presented twice kills its chain. An entry's time stamps are ages that saturate at
`Expired`, so liveness is checked without a bound on time. `named` has the name of
every user there ever was: the server does not use an id again, so a name that
`Reassign` gives away goes to a user who is new. `FreeUids` are the uids that
`allocateUID` would take; where none is left the lookup or the sign-in fails.
`trouble` is the history of what may lock a user out or confuse uids: a lost or
garbled reply, a crash, two uids allocated at once or for one entry, and signin or
signout changing an entry that another operation has read. The properties say that
nothing else does.

### Accounts

Each request is the sequence of database statements and directory calls of its
handler (`work[r].at`), and `Cut` ends it anywhere, as a database error, a refusal
of the directory or a crash would; nothing is rolled back. `Bind`, `Upsert`,
`Mirror` and `Insert` are a directory sign-in; `DirCreate`, `DirSetPassword`,
`LookupDN`, `Link`, `DirUpdate` and `DirDelete` the managed directory;
`SetUserDisabled` and `RevokeTokens`, `DeleteTokens` and `DeleteUser` the two
statements of the store's functions; `CreatePAT` and `InsertToken` the handler of
a personal access token before and after it signs. `EditOutside` is the
directory's own tool. `cause` records the ways in which a property may
legitimately end: each is a finding or a decision of the directory.

## 4. The runs

| Run | Instance | Shows |
| --- | --- | --- |
| `refresh` | a chain of up to three rows, a device, a DPoP key, two requests, both drivers | one live token per chain, revoked chains stay dead on SQLite, an answered refresh was entitled, replacements keep their lineage, the table implements `RotationChain` |
| `authorize` | one browser and user, a trusted and an untrusted client, two handlers, two sign-ins | consent is not bypassed, a code names a real sign-in, no code is late or goes astray |
| `redeem` | three redemptions, both drivers | a code buys tokens once on SQLite |
| `signin` | one account, two handlers, two sessions, a challenge, a link, two changes of the password | a completed change of password leaves no older session, the lockout is overshot only by requests in flight, a link works once |
| `factors` | the same with a passkey ceremony, two changes of MFA, passkeys or the disabled flag | a sign-in was entitled at one instant, recovery codes and ceremonies work once, an enabled secret was confirmed |
| `devicegrant` | one code, two users, one device, three handlers | exchanged once, by the approver, with an admissible device; the first decision stands |
| `polling` | discrete time | the wait ends, never too fast, approvals in time are collected |
| `registry` | two devices, keys, enrollments and handlers, one assertion, one rotation | one device per key, proofs pass once, keys are proven, revocation is final |
| `agent` | the daemon and a command, two keys, two devices | the record names an accepted key, sequential use is clean, orphans need a fault, the server's decision reaches `status.json` |
| `cache` | two names with one uid hash, a conversation, two operations at a time besides the daemon | no lock-out without a cause, distinct uids, offline logins are backed |
| `lockout` | one name and two users, a crash, one operation at a time | a local password is its user's; who stays turned away loses offline login |
| `accounts` | three ids, two names, one token, two requests, one fault | no takeover, mirrors have entries, tokens stop with the account, an administrator remains, a rejection lasts |

Bounds. Three rows let a chain rotate twice, so a replacement can be replayed
after it was replaced, and two requests that race on one token both find a row to
insert; `MaxChains` = 1, because the mass revocations treat the rows of one chain
and of several alike (the theorems have any number). Two handlers suffice for the
authorization races because every handler reads and writes one row and the
properties relate at most two of them; the second sign-in is what replaces a
session under a consent page. Three polls let a loser, a winner and a decision
coexist. A sign-in races with one change, and two changes with each other, so two
handlers and `MaxEdits` = 2 reach the orders that matter in `LoginSession`;
`InPlay` splits the changes over two runs, and a threshold (`MaxFailedLogins`) of
one makes the lock reachable while a second guess is in flight. `MaxExpired`,
`MaxLogins`, `Edited`, `MaxDelay`, `MaxTime`, `MaxGen`, `MaxBusy`, `MaxCrashes`
and `MaxFaults` are the other named bounds; `MaxTime` lies beyond the end of every
wait. Symmetry is used for interchangeable handlers, rows and codes, and only in
runs without liveness.

In `registry` two enrollments with two keys and two rows let both the look and the
constraint fail, and the one rotation can aim at the key of either device; one
assertion is enough, because nothing relates two.

In `agent` two keys are an enrollment and a rotation, or two enrollments with an
unenrollment between them; a record of one operation can meet the key of another.
The daemon and one command overlap in every way, and what a third process could
add is the same overlap again. `rotate-key --backend file` is left out of
`BackendArgs` because of the finding below, and the old issuer is not kept as an
alias, the harder case. In `cache` both names hash to one uid, so allocation has
to probe; one of them only ever is looked up. `Validity` = 0 puts the end of the
offline window one tick away and `MaxGen` = 1 lets a spent token be presented
again. `signin` runs as uid 0, the only one that may write the state directory of
a system-wide agent, so the broker, which refuses uid 0, serves only entries of
PAM logins. `lockout` adds the reassigned name and the crash, which liveness would
make too large with two names. In `accounts` two requests and one fault, from
every table with up to three accounts, reach the last administrator, the deleted
entry and the overtaken insertion; a third request would only repeat one of them.

Each module has a `TypeOK`. It is proved where there is a proof module and is not
among the properties of the runs; adding it to any of the configurations above is
a check of the model, not of the code.

Deadlock checking is off: a server at rest with its bounded rows used up is not
an error.

Fairness. In `DevicePolling`, clocks run, `time.After` fires, a
request in flight is served or fails, and the client's loop has no other way to
stop. That is what the Go runtime and an HTTP client with a timeout give. Nothing
is assumed of the user, who may never decide, and messages may be lost. In
`EndpointAgent` the daemon's loop goes on (WF of `DaemonStep`: a ticker) and in
`UserCache` so does the trust refresh (WF of `Refresh`); exchanges with the server
are strongly fair, since the loop repeats them for ever and the machine is not cut
off for good. Commands, logins, users, administrators and restarts of a daemon that
stopped are never assumed to happen: `StatusFollowsServer` speaks of a daemon that
is up and a record that opens from some time on.

## 5. What is proved

`TokenGrantsProofs`, for every set of users, clients, devices, keys, scopes, rows
and requests and for both drivers. The invariant `IInv` adds to the property
`OneLivePerChain` that chains are rooted in issued rows and share user, client
and device, that a request still carries the columns of the row it read, and
that the history `legit` is never behind. Without the second a rotation could
leave its chain; without the third the token a request is about to revoke need
not be the one whose chain it extends. From it: `TypeCorrect`, `NoDoubleSpend`,
`RefreshEntitled`, `RevocationFinal`; with the dead chains of SQLite,
`DeadForGood`; with `RootsNamed` (a chain is named by its first token),
`LineagePreserved`. `Refinement` shows `Spec => ImplementsChains`: `HolderTrue`
computes the refinement mapping (the one live token of a chain, or "closed"), and
each step of the table that writes is a `RotationChain` step of one chain, or
leaves every holder alone. A mass revocation closes several chains at once, which
`RotationChain` allows.

`AuthorizeFlowProofs`: `ConsentNeeded`, `SignInNamed` and `NoneLateOrStray`, for
every set of browsers, users, clients, parked requests and handlers. A handler
carries its request across half a dozen store calls, so `IInv` says for each step
what it may rely on (`HandlerTrue`): once it is past the consent page, the consent
of that user for that row exists; once it carries a user, that sign-in happened in
its browser. `SpentIsGone` and `HistoryTrue` are why no handler that is late gets
past the loading of its row.

`LoginSessionProofs`: `SessionsEnd`, `GuessingBounded`, `WorkOnce`, `Entitlement`
and `SecretConfirmed`, for every finite set of handlers and any number of sessions,
links, challenges and ceremonies. `Control` types what a handler carries at each
step. On it stand five invariants that do not need each other: `SessionInv` (no
copy of a password number is newer than the stored one, and a session kept through
a change has the new one), `GuessInv` (a wrong password that is yet to be recorded
was read while the account was open; the count of those handlers is the overshoot),
`SecretInv`, `OnceInv` (whatever was used is gone from its table, and two setups
never write the same recovery codes) and `EntitledInv`. The numbers of passwords
are unbounded here; `password \in Versions` in `TypeOK` is a bound for TLC.

`EndpointAgentProofs`: `RecordKeyAccepted` for any number of commands beside the
daemon, from `Control` and `AcceptedInv` (records in memory, not only on disk, name
accepted keys: what was loaded before a rotation is still written back after it).
`SequentialClean` and `OrphansNeedFaults` have the hypothesis that "file" is not
among `BackendArgs`, that is, `rotate-key --backend file` is not used; the finding
below shows that the code does not keep them otherwise. `SequentialInv` says that
without an overlap at most one operation is under way and how the files look at each
of its steps (`Shape`); `OrphanInv` which rows the server honours then.

`AccountsProofs`: `NoAccountTaken`, `EntryBehindMirror`, `TokensStop`,
`AdministratorStays` and `RejectionStays`, for every set of accounts, names, tokens
and requests and any number of faults. `Fits` is what a request carries at each
step, `BoundInv` that names are unique and an account that was loaded keeps its name
as long as it exists (an id is never used again), `TakeoverInv`, `EntryInv` and
`TokenInv` extend the properties to requests that have read and not yet written, and
`GatewayInv` ties the gateway's list to the table. The proof of `EntryBehindMirror`
failed at first: a deletion names the directory's entry, not the account, so with
three requests it can take the entry of a successor (see the findings). The two
requests of the run do not reach that.

The last part of `TokenGrantsProofs` is about `CodeRedemption`, which
it also extends: `CodeRedeemedOnce` on SQLite and `CodeSpentForGood` on both, from the
invariant that a redemption past the UPDATE owns the row.

`DeviceGrantProofs`: `CodeExchangedOnce`, `ApproverGetsTokens`,
`FirstDecisionStands` and `DeviceWasAdmissible`, for every set of codes, users,
devices and handlers. `IInv` adds that the code of a winner, and of an answer, is
consumed or swept (`WinnersConsumed`: otherwise a second poll could still win),
that an undecided row has no approver (otherwise an approval could replace one),
and that a decision under way is somebody's (`DecidersNamed`). Its last part is
about `DevicePolling`, for every lifetime, interval and delay that `TimeAssumption`
admits: `NeverTooFast`, and `ApprovalsCollected`, where `PollInv` bounds how
far the client's next poll can lie from the server's last one.

`DeviceRegistryProofs`: `KeysAreUnique`, `NoReplay`, `ApprovalComesFirst`,
`KeysAreProven` and `RevocationIsFinal`, for every set of devices, keys, proofs and
handlers. `IInv` adds that an accepted proof has a row until it is over
(`AcceptedIsRemembered`: without it a proof could be accepted again) and what a
handler at each step has established about its proof and its device
(`HandlersTrue`: without it the writes at the end could be about another one).

`UserCacheProofs`, for every set of names, users, conversations, uids and grants,
every validity window and any number of crashes: `SecretsAreOwn`, `UidsStayApart`,
`LockedOutOnlyForCause` and the action property `OfflineLoginsAreBacked`. Every
operation carries a copy of an entry over a conversation with the server and writes
it back whole, so each part of `IInv` speaks of the copies as well as of the files:
`Control` says what is carried at each step, `NamedInv` that a copy is of a user who
had that name (so two names never share a user), `AgeInv` that it is no younger than
the server's last word for that user, `UidInv` that its uid is the entry's or one
that nobody else has been given, `ChainInv` that a grant belongs to one name (so a
rotation or a revocation spends no token but its own), `SpentInv` that without
trouble the tokens that will be presented are the ones the server expects, except
between the two halves of a refresh or of a signout, and `MarkInv` that a mark has a
reason. The proof asked for two things the model left open: that an id is not used
again (`named`), and that an entry which two operations create one after the other
counts as trouble, since the second write replaces a uid.

The proofs assume only the named assumptions of the modules: the null values are
outside their sets (the `NullAssumption` of five modules, `CodeAssumption`,
`RecordAssumption`, and `ChainAssumption`, which keeps "unborn" and "closed" from
being tokens), the drivers are the two there are, the bounds are natural numbers, the
directory gives no user two names and the caller of signin is outside the range of
allocated uids and no conversation has the name of the lookups (`CacheAssumption`),
the times of the device grant fit (`TimeAssumption`), and there are finitely many
requests at a time where they are counted (`HandlersAssumption`). TLC evaluates each
of them on the instance of its run.

Every inductive invariant was an invariant of a TLC run before it was proved.

Only model-checked: the three liveness properties `WaitEnds`, `StatusFollowsServer`
and `RevocationReachesMachine`, since reasoning from fairness is out of this prover's
reach. The safety properties of every run are theorems.

## 6. What is not modelled

Cryptography and encodings (JWT, DPoP, TOTP, Argon2id) enter as their outcome, and
the LDAP protocol as the answer of each operation. E-mail is fire and forget. The
in-memory rate limiters and the slots for password verification can only refuse a
request, which `Abandon` covers; the signature counter of a passkey, the lookup
budget and the negative cache of the NSS socket likewise. Settings, signing keys,
branding and the application's secret are single rows behind one mutex or a UNIQUE
index; migrations and backups run alone; log shipping drops records at a full
queue. Introspection and userinfo are reads. `internal/config` is parsing of the
environment. Templates, the design system and the C shims for PAM and NSS hold no
state of the protocol.

## 7. Findings

`PROJECT.json` quotes each with its lines. The models contain the behaviour; where
a property would be refuted by it, the property names the exception, or the stronger
form is a definition of the module that no configuration lists:

| Finding | How to see it |
| --- | --- |
| On Postgres a mass revocation misses a replacement that commits meanwhile | `RevokedChainStaysDead` as invariant of `MCTokenGrants_refresh.cfg` |
| On Postgres two redemptions of one code are both answered | `RedeemedOnce` in `MCCodeRedemption_redeem.cfg` |
| prompt=login is satisfied by a session older than the request | `FreshLoginWhenDemanded` in `MCAuthorizeFlow_authorize.cfg` |
| `rotate-key --backend file` on a TPM device leaves a machine that no longer opens | `BackendArgs = {"", "file", "tpm"}` in `MCEndpointAgent_agent.cfg` refutes `SequentialUseIsClean` |
| the daemon panics when `Open` fails in its loop | action `DaemonPanics` |
| "revoked" is not sticky, against two comments (and must not be) | mutant `RenewedSticky` |
| a lost or garbled reply to a trust refresh locks the user out | `LockedOutForCause` without `~trouble` |
| an edit of a directory user undoes a disabling that came meanwhile | `AdministratorRemains`, `TokensStopWithAccount` without "overtaken" |
| deleting an account takes its tokens off the revoked list | `RejectionIsFinal` without the exception for `Gone` |
| a directory sign-in that bound before the deletion re-creates the account | `MirrorHasEntry` without "revived" |
| a deletion overtaken by another and by a new account of that name takes the successor's directory entry | `MirrorHasEntry` without "stale", with three requests |
| a failed initial password leaves a directory entry without the page the message refers to | `DirSetPassword`, then `Cut` |
| introspection calls revoked personal access tokens active | not in a model |

Not contradicted by a document, and modelled as the code has it: a key can be
registered again once its revoked device was deleted; a rotation replaces whatever
key the device has by then, not the one its proof named; the replay row of an
assertion has no margin beyond the leeway; two submissions of one login challenge
both sign in; saving the client form turns a client on that was disabled meanwhile.
