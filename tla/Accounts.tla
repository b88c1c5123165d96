------------------------------ MODULE Accounts ------------------------------
(***************************************************************************)
(* Administration of accounts: the users table, the managed directory      *)
(* behind it, and the personal access tokens that hang on both.            *)
(*                                                                         *)
(* Every handler is a request of its own whose database statements and     *)
(* directory calls are separate steps, so requests interleave between any  *)
(* two of them: no handler here runs in a transaction, except RevokeDevice.*)
(* A fault cuts a request short (a database error or a crash), makes the   *)
(* directory refuse a call, or changes the directory behind Omni's back.   *)
(***************************************************************************)
EXTENDS Naturals, FiniteSets

CONSTANTS
    Users,      \* ids of rows of the users table; an id is never reused
    Names,      \* usernames, which also name directory entries (userDN)
    Tokens,     \* ids (jti) of personal access tokens
    Requests,   \* requests to the server, each handled once
    MaxFaults,  \* bound: faults and outside changes in a behaviour
    None,       \* no row, no entry
    Gone        \* a row that was deleted, a token row deleted or expired

VARIABLES
    users,      \* the users table
    entries,    \* the directory: username -> entry
    sessions,   \* sessions: the account, and the credential that opened it
    device,     \* the enrolled device: [status, owner]
    grants,     \* users whose refresh token is bound to the device
    pats,       \* personal_access_tokens
    gateway,    \* tokens the gateway rejects: the list as it fetched it last
    work,       \* the requests
    faults,     \* faults so far
    cause       \* history: why an administrator, a revocation or an entry was lost

vars == <<users, entries, sessions, device, grants, pats, gateway, work,
          faults, cause>>

Row == [name : Names, admin : BOOLEAN, disabled : BOOLEAN, local : BOOLEAN]

Entry == [pw : BOOLEAN, admin : BOOLEAN]

Session == [user : Users, directory : BOOLEAN]

\* A recorded token; "crossed": its request was overtaken by a revocation.
Pat == [user : Users, revoked : BOOLEAN, crossed : BOOLEAN]

Ops == {"toggle", "create", "createDirectory", "promote", "edit", "delete",
        "signIn", "setup", "createPat"}

Steps == {"start", "setDisabled", "revokeTokens", "dropSessions", "insert",
          "dirCreate", "dirPassword", "upsert", "mirror", "load", "lookup",
          "link", "dirUpdate", "writeBack", "count", "dirDelete",
          "deleteTokens", "deleteUser", "bind", "session", "insertToken",
          "done", "cut"}

\* A request: what it is, where it stands, for whom it acts and on what.
\* "row" is the row it read or will insert; "flag" what the form asks for;
\* "crossed" whether a revocation, or the deletion of the directory entry, passed
\* between its check and its insert.
Request == [op : Ops \cup {None}, at : Steps, actor : Users \cup {None},
            user : Users \cup {None}, name : Names \cup {None},
            row : Row \cup {None}, flag : BOOLEAN, crossed : BOOLEAN]

Fresh == [op |-> None, at |-> "start", actor |-> None, user |-> None,
          name |-> None, row |-> None, flag |-> FALSE, crossed |-> FALSE]

\* What is missing is neither a row, nor an entry, nor a user.
ASSUME NullAssumption ==
    /\ None # Gone
    /\ {None, Gone} \cap (Row \cup Entry \cup Pat \cup Users \cup Names) = {}
    /\ MaxFaults \in Nat

Exists(u) == users[u] \in Row

Enabled(u) == Exists(u) /\ ~users[u].disabled

\* The rows CountAdmins counts.
Admins == {u \in Users : Enabled(u) /\ users[u].admin}

\* GetUserByUsername; the column is UNIQUE.
ByName(n) == {u \in Users : Exists(u) /\ users[u].name = n}

\* GetUserByExternalID: the mirror of a directory entry.
Mirrors(n) == {u \in ByName(n) : ~users[u].local}

\* requireAdmin: the session's account is an enabled administrator.
IsAdministrator(a) == a \in Admins /\ \E s \in sessions : s.user = a

\* A request moves on; once it is answered nothing of it is kept.
Moved(q, at) ==
    IF at = "done" THEN [Fresh EXCEPT !.at = "done"] ELSE [q EXCEPT !.at = at]

Continue(r, at) == work' = [work EXCEPT ![r] = Moved(@, at)]

Finish(r) == Continue(r, "done")

At(r, step) == work[r].at = step

-----------------------------------------------------------------------------
(* Enabling and disabling. *)

\* Mutant: a toggle without the guard on one's own account.
ToggleUserAnyone(r, a, u, off) ==
    /\ At(r, "start") /\ IsAdministrator(a)
    /\ work' = [work EXCEPT ![r].op = "toggle", ![r].at = "setDisabled",
                            ![r].actor = a, ![r].user = u, ![r].flag = off]
    /\ UNCHANGED <<users, entries, sessions, device, grants, pats, gateway,
                   faults, cause>>

\* handleAdminToggleUser: nobody disables the account he is signed in with.
ToggleUser(r, a, u, off) ==
    /\ At(r, "start") /\ IsAdministrator(a) /\ a # u
    /\ work' = [work EXCEPT ![r].op = "toggle", ![r].at = "setDisabled",
                            ![r].actor = a, ![r].user = u, ![r].flag = off]
    /\ UNCHANGED <<users, entries, sessions, device, grants, pats, gateway,
                   faults, cause>>

\* Lost when the request that takes an administrator's rights acts for one
\* who has lost them himself since requireAdmin looked.
Overtaken(r) == IF work[r].actor \in Admins THEN {} ELSE {"overtaken"}

\* Mutant: enabling an account also clears the revocation of its tokens.
SetUserDisabledRevives(r) ==
    LET q == work[r] IN
    /\ At(r, "setDisabled")
    /\ users' = IF Exists(q.user)
                THEN [users EXCEPT ![q.user].disabled = q.flag]
                ELSE users
    /\ cause' = IF q.flag THEN cause \cup Overtaken(r) ELSE cause
    /\ pats' = [t \in Tokens |->
                  IF pats[t] \in Pat /\ pats[t].user = q.user /\ ~q.flag
                  THEN [pats[t] EXCEPT !.revoked = FALSE] ELSE pats[t]]
    /\ IF q.flag THEN Continue(r, "revokeTokens") ELSE Finish(r)
    /\ UNCHANGED <<entries, sessions, device, grants, gateway, faults>>

\* SetUserDisabled, first statement.
SetUserDisabled(r) ==
    LET q == work[r] IN
    /\ At(r, "setDisabled")
    /\ users' = IF Exists(q.user)
                THEN [users EXCEPT ![q.user].disabled = q.flag]
                ELSE users
    /\ cause' = IF q.flag THEN cause \cup Overtaken(r) ELSE cause
    /\ IF q.flag THEN Continue(r, "revokeTokens") ELSE Finish(r)
    /\ UNCHANGED <<entries, sessions, device, grants, pats, gateway, faults>>

\* Token requests that have checked the user and have yet to insert the row.
Crossing(S) ==
    [q \in Requests |->
        IF work[q].at = "insertToken" /\ work[q].user \in S
        THEN [work[q] EXCEPT !.crossed = TRUE] ELSE work[q]]

Revoked(S) ==
    [t \in Tokens |->
        IF pats[t] \in Pat /\ pats[t].user \in S
        THEN [pats[t] EXCEPT !.revoked = TRUE] ELSE pats[t]]

\* SetUserDisabled, second statement: the account's tokens are revoked. No row
\* of the first statement means ErrNotFound, and the handler stops.
RevokeTokens(r) ==
    LET u == work[r].user IN
    /\ At(r, "revokeTokens")
    /\ pats' = Revoked({u})
    /\ work' = [Crossing({u}) EXCEPT ![r] =
                   Moved(@, IF Exists(u) THEN "dropSessions" ELSE "done")]
    /\ UNCHANGED <<users, entries, sessions, device, grants, gateway, faults, cause>>

\* DeleteSessionsForUser: after a disabling, a promotion, or before a deletion.
DropSessions(r) ==
    /\ At(r, "dropSessions")
    /\ sessions' = {s \in sessions : s.user # work[r].user}
    /\ IF work[r].op = "delete" THEN Continue(r, "deleteTokens") ELSE Finish(r)
    /\ UNCHANGED <<users, entries, device, grants, pats, gateway, faults, cause>>

-----------------------------------------------------------------------------
(* Creating accounts. *)

LocalRow(n, admin) ==
    [name |-> n, admin |-> admin, disabled |-> FALSE, local |-> TRUE]

\* handleAdminCreateUser: a local account, or (source "ldap") a directory one.
CreateUser(r, a, n, flag) ==
    /\ At(r, "start") /\ IsAdministrator(a)
    /\ \/ work' = [work EXCEPT ![r].op = "create", ![r].at = "insert",
                               ![r].actor = a, ![r].name = n,
                               ![r].row = LocalRow(n, flag)]
       \/ work' = [work EXCEPT ![r].op = "createDirectory", ![r].at = "dirCreate",
                               ![r].actor = a, ![r].name = n, ![r].flag = flag]
    /\ UNCHANGED <<users, entries, sessions, device, grants, pats, gateway,
                   faults, cause>>

\* handleSetupSubmit: the wizard is open while there is no enabled administrator.
Setup(r, n) ==
    /\ At(r, "start") /\ Admins = {}
    /\ work' = [work EXCEPT ![r].op = "setup", ![r].at = "insert", ![r].name = n,
                            ![r].row = LocalRow(n, TRUE)]
    /\ UNCHANGED <<users, entries, sessions, device, grants, pats, gateway,
                   faults, cause>>

\* The INSERT of CreateUser: username and directory entry are UNIQUE.
Insert(r) ==
    LET q == work[r] IN
    /\ At(r, "insert")
    /\ \/ /\ ByName(q.name) # {}
          /\ Finish(r)
          /\ UNCHANGED <<users, cause>>
       \/ /\ ByName(q.name) = {}
          /\ \E u \in Users :
                /\ users[u] = None
                /\ users' = [users EXCEPT ![u] = q.row]
                /\ cause' = IF q.crossed THEN cause \cup {"revived"} ELSE cause
                /\ work' = [work EXCEPT ![r] =
                               Moved([@ EXCEPT !.user = u],
                                     IF q.op \in {"setup", "signIn"} THEN "session" ELSE "done")]
    /\ UNCHANGED <<entries, sessions, device, grants, pats, gateway, faults>>

-----------------------------------------------------------------------------
(* The managed directory. A directory call that fails ends its request as Cut
   does; what the directory answers is modelled where the handler goes on. *)

\* CreateUser of the LDAP client: the entry must not exist yet. The handler
\* goes on to the initial password, to the mirror, or to the link.
DirCreate(r) ==
    LET q == work[r] IN
    /\ At(r, "dirCreate")
    /\ \/ /\ entries[q.name] # None
          /\ Finish(r)
          /\ UNCHANGED entries
       \/ /\ entries[q.name] = None
          /\ entries' = [entries EXCEPT ![q.name] = [pw |-> FALSE, admin |-> FALSE]]
          /\ Continue(r, IF q.flag THEN "dirPassword"
                         ELSE IF q.op = "promote" THEN "link" ELSE "upsert")
    /\ UNCHANGED <<users, sessions, device, grants, pats, gateway, faults, cause>>

\* SetPassword of the LDAP client on the entry just created.
DirSetPassword(r) ==
    LET q == work[r] IN
    /\ At(r, "dirPassword")
    /\ \/ /\ entries[q.name] = None
          /\ Finish(r)
          /\ UNCHANGED entries
       \/ /\ entries[q.name] # None
          /\ entries' = [entries EXCEPT ![q.name].pw = TRUE]
          /\ Continue(r, IF q.op = "promote" THEN "link" ELSE "upsert")
    /\ UNCHANGED <<users, sessions, device, grants, pats, gateway, faults, cause>>

\* Mutant: the account is found by its username, whoever keeps its password.
UpsertByName(r) ==
    LET q == work[r]
        admin == q.op = "signIn" /\ q.row.admin
        mirror == [name |-> q.name, admin |-> admin, disabled |-> FALSE, local |-> FALSE]
    IN
    /\ At(r, "upsert")
    /\ \/ \E u \in ByName(q.name) :
             work' = [work EXCEPT ![r].at = "mirror", ![r].user = u,
                         ![r].row = [mirror EXCEPT !.disabled = users[u].disabled]]
       \/ /\ ByName(q.name) = {}
          /\ work' = [work EXCEPT ![r].at = "insert", ![r].row = mirror]
    /\ UNCHANGED <<users, entries, sessions, device, grants, pats, gateway,
                   faults, cause>>

\* UpsertExternalUser, the lookups: by entry, then by username. Between the two
\* only the INSERT's UNIQUE columns matter, so they are one step.
Upsert(r) ==
    LET q == work[r]
        admin == q.op = "signIn" /\ q.row.admin
        mirror == [name |-> q.name, admin |-> admin, disabled |-> FALSE, local |-> FALSE]
    IN
    /\ At(r, "upsert")
    /\ \/ \E u \in Mirrors(q.name) :
             work' = [work EXCEPT ![r].at = "mirror", ![r].user = u,
                         ![r].row = [mirror EXCEPT !.disabled = users[u].disabled]]
       \/ /\ Mirrors(q.name) = {}
          /\ ByName(q.name) # {}
          /\ Finish(r)
       \/ /\ ByName(q.name) = {}
          /\ work' = [work EXCEPT ![r].at = "insert", ![r].row = mirror]
    /\ UNCHANGED <<users, entries, sessions, device, grants, pats, gateway,
                   faults, cause>>

\* UpsertExternalUser, the UPDATE of a known mirror: the directory decides who
\* is an administrator. A sign-in to an account read as disabled ends here.
Mirror(r) ==
    LET q == work[r] IN
    /\ At(r, "mirror")
    /\ IF Exists(q.user)
       THEN /\ users' = [users EXCEPT ![q.user].admin = q.row.admin]
            /\ cause' = IF users[q.user].admin /\ ~q.row.admin
                        THEN cause \cup {"demoted"} ELSE cause
            /\ IF q.op = "signIn" /\ ~q.row.disabled
               THEN Continue(r, "session") ELSE Finish(r)
       ELSE Finish(r) /\ UNCHANGED <<users, cause>>
    /\ UNCHANGED <<entries, sessions, device, grants, pats, gateway, faults>>

\* handleAdminPromoteUser, handleAdminUpdateDirectoryUser and
\* handleAdminDeleteUser: requireAdmin, then the row is loaded.
ManageUser(r, a, u, op, flag) ==
    /\ At(r, "start") /\ IsAdministrator(a) /\ Exists(u)
    /\ op = "delete" => a # u
    /\ op # "promote" => ~flag
    /\ work' = [work EXCEPT ![r].op = op, ![r].at = "load", ![r].actor = a,
                            ![r].user = u, ![r].flag = flag]
    /\ UNCHANGED <<users, entries, sessions, device, grants, pats, gateway,
                   faults, cause>>

\* Deleting goes through the directory first when the account is its mirror.
DeleteFrom(row) == IF row.local THEN "dropSessions" ELSE "dirDelete"

NextOf(op, row) ==
    CASE op = "promote" -> IF row.local THEN "lookup" ELSE "done"
      [] op = "edit"    -> IF row.local THEN "done" ELSE "dirUpdate"
      [] op = "delete"  -> IF row.admin /\ ~row.disabled THEN "count"
                           ELSE DeleteFrom(row)

\* GetUserByID in those handlers, and the guards on the row it returns.
Load(r) ==
    LET q == work[r] IN
    /\ At(r, "load")
    /\ IF Exists(q.user)
       THEN work' = [work EXCEPT ![r] =
                        Moved([@ EXCEPT !.row = users[q.user], !.name = users[q.user].name],
                              NextOf(q.op, users[q.user]))]
       ELSE Finish(r)
    /\ UNCHANGED <<users, entries, sessions, device, grants, pats, gateway,
                   faults, cause>>

\* Mutant: every answer of the directory is taken for a match.
LookupDNAlways(r) ==
    /\ At(r, "lookup")
    /\ Continue(r, "link")
    /\ UNCHANGED <<users, entries, sessions, device, grants, pats, gateway,
                   faults, cause>>

\* LookupDN: an entry of that name is linked, a missing one is created.
LookupDN(r) ==
    /\ At(r, "lookup")
    /\ Continue(r, IF entries[work[r].name] = None THEN "dirCreate" ELSE "link")
    /\ UNCHANGED <<users, entries, sessions, device, grants, pats, gateway,
                   faults, cause>>

\* LinkUserToExternal: the row now belongs to the directory entry.
Link(r) ==
    LET u == work[r].user IN
    /\ At(r, "link")
    /\ IF Exists(u)
       THEN /\ users' = [users EXCEPT ![u].local = FALSE]
            /\ Continue(r, "dropSessions")
       ELSE Finish(r) /\ UNCHANGED users
    /\ UNCHANGED <<entries, sessions, device, grants, pats, gateway, faults, cause>>

\* UpdateUser of the LDAP client changes the entry's profile only.
DirUpdate(r) ==
    /\ At(r, "dirUpdate")
    /\ Continue(r, IF entries[work[r].name] = None THEN "done" ELSE "writeBack")
    /\ UNCHANGED <<users, entries, sessions, device, grants, pats, gateway,
                   faults, cause>>

\* UpdateUser writes is_admin and disabled back as the handler loaded them.
WriteBack(r) ==
    LET q == work[r]
        now == users[q.user]
        written == [now EXCEPT !.admin = q.row.admin, !.disabled = q.row.disabled]
    IN
    /\ At(r, "writeBack")
    /\ IF Exists(q.user)
       THEN /\ users' = [users EXCEPT ![q.user] = written]
            /\ cause' = IF written # now THEN cause \cup {"overtaken"} ELSE cause
       ELSE UNCHANGED <<users, cause>>
    /\ Finish(r)
    /\ UNCHANGED <<entries, sessions, device, grants, pats, gateway, faults>>

-----------------------------------------------------------------------------
(* Deleting accounts. *)

\* CountAdmins: the last enabled administrator is not deleted.
CountAdmins(r) ==
    /\ At(r, "count")
    /\ Continue(r, IF Cardinality(Admins) <= 1 THEN "done" ELSE DeleteFrom(work[r].row))
    /\ UNCHANGED <<users, entries, sessions, device, grants, pats, gateway,
                   faults, cause>>

\* DeleteUser of the LDAP client: the directory refuses an unknown entry. The
\* entry goes by its name: when the account was deleted since it was loaded, it
\* is the entry of another account ("stale").
DirDelete(r) ==
    LET n == work[r].name IN
    /\ At(r, "dirDelete")
    /\ IF entries[n] = None
       THEN Finish(r) /\ UNCHANGED <<entries, cause>>
       ELSE /\ entries' = [entries EXCEPT ![n] = None]
            /\ cause' = IF Exists(work[r].user) THEN cause ELSE cause \cup {"stale"}
            /\ work' = [q \in Requests |->
                          IF q = r THEN [work[r] EXCEPT !.at = "dropSessions"]
                          ELSE IF work[q].name = n /\ work[q].at \in {"upsert", "insert"}
                          THEN [work[q] EXCEPT !.crossed = TRUE]
                          ELSE work[q]]
    /\ UNCHANGED <<users, sessions, device, grants, pats, gateway, faults>>

\* DeleteUser of the store, first statement: the account's token rows vanish.
DeleteTokens(r) ==
    /\ At(r, "deleteTokens")
    /\ pats' = [t \in Tokens |->
                  IF pats[t] \in Pat /\ pats[t].user = work[r].user
                  THEN Gone ELSE pats[t]]
    /\ Continue(r, "deleteUser")
    /\ UNCHANGED <<users, entries, sessions, device, grants, gateway, faults, cause>>

\* DeleteUser of the store, second statement; sessions and devices of the
\* account go with the row (ON DELETE CASCADE).
DeleteUser(r) ==
    LET u == work[r].user IN
    /\ At(r, "deleteUser")
    /\ users' = IF Exists(u) THEN [users EXCEPT ![u] = Gone] ELSE users
    /\ sessions' = {s \in sessions : s.user # u}
    /\ device' = IF device.owner = u THEN [device EXCEPT !.status = "gone"] ELSE device
    /\ cause' = cause \cup Overtaken(r)
    /\ Finish(r)
    /\ UNCHANGED <<entries, grants, pats, gateway, faults>>

-----------------------------------------------------------------------------
(* Signing in. Only attempts with the right password are modelled. *)

\* handleLoginSubmit: a local account by its password, all others by the
\* directory.
SignIn(r, n) ==
    /\ At(r, "start")
    /\ \/ \E u \in ByName(n) :
             /\ users[u].local
             /\ work' = [work EXCEPT ![r] =
                            Moved([@ EXCEPT !.op = "signIn", !.name = n, !.user = u],
                                  IF users[u].disabled THEN "done" ELSE "session")]
       \/ /\ ByName(n) = Mirrors(n)
          /\ work' = [work EXCEPT ![r].op = "signIn", ![r].name = n, ![r].at = "bind"]
    /\ UNCHANGED <<users, entries, sessions, device, grants, pats, gateway,
                   faults, cause>>

\* An entry without a password cannot bind.
BindsAs(n) == entries[n] # None /\ entries[n].pw

\* isAdmin: the search of the administrators' group for the entry. It fails
\* closed: an error (a fault) reads as "not a member".
isAdmin(n, answer) ==
    \/ answer = entries[n].admin /\ UNCHANGED faults
    \/ /\ ~answer /\ entries[n].admin
       /\ faults < MaxFaults
       /\ faults' = faults + 1

\* Login of the LDAP client: find the entry, bind as it, ask for its rights.
Bind(r) ==
    LET n == work[r].name IN
    /\ At(r, "bind")
    /\ \/ /\ ~BindsAs(n)
          /\ Finish(r)
          /\ UNCHANGED faults
       \/ /\ BindsAs(n)
          /\ \E admin \in BOOLEAN :
                /\ isAdmin(n, admin)
                /\ work' = [work EXCEPT ![r].at = "upsert", ![r].flag = TRUE,
                              ![r].row = [name |-> n, admin |-> admin,
                                          disabled |-> FALSE, local |-> FALSE]]
    /\ UNCHANGED <<users, entries, sessions, device, grants, pats, gateway, cause>>

\* The session row; its foreign key refuses an account that is gone.
IssueSession(r) ==
    LET q == work[r] IN
    /\ At(r, "session")
    /\ sessions' = IF Exists(q.user)
                   THEN sessions \cup {[user |-> q.user, directory |-> q.flag]}
                   ELSE sessions
    /\ Finish(r)
    /\ UNCHANGED <<users, entries, device, grants, pats, gateway, faults, cause>>

-----------------------------------------------------------------------------
(* Personal access tokens. *)

\* Mutant: the refresh token is proof enough: the account is not looked at.
CreatePATBlind(r, u) ==
    /\ At(r, "start")
    /\ device.status = "active" /\ u \in grants
    /\ work' = [work EXCEPT ![r].op = "createPat", ![r].at = "insertToken", ![r].user = u]
    /\ UNCHANGED <<users, entries, sessions, device, grants, pats, gateway,
                   faults, cause>>

\* handleCreatePAT: the device is active, the refresh token bound to it is
\* live, its user enabled. The token is signed and handed out; see InsertToken.
CreatePAT(r, u) ==
    /\ At(r, "start")
    /\ device.status = "active" /\ u \in grants /\ Enabled(u)
    /\ work' = [work EXCEPT ![r].op = "createPat", ![r].at = "insertToken", ![r].user = u]
    /\ UNCHANGED <<users, entries, sessions, device, grants, pats, gateway,
                   faults, cause>>

Issued(u, crossed) ==
    [user |-> u, revoked |-> FALSE, crossed |-> crossed]

\* CreatePAT of the store: nothing is checked again, the row has no foreign key.
InsertToken(r) ==
    /\ At(r, "insertToken")
    /\ \E t \in Tokens :
          /\ pats[t] = None
          /\ pats' = [pats EXCEPT ![t] = Issued(work[r].user, work[r].crossed)]
    /\ Finish(r)
    /\ UNCHANGED <<users, entries, sessions, device, grants, gateway, faults, cause>>

\* handleRevokePAT, asked for by the device the token is bound to.
RevokePAT(t) ==
    /\ device.status = "active"
    /\ pats[t] \in Pat /\ ~pats[t].revoked
    /\ pats' = [pats EXCEPT ![t].revoked = TRUE]
    /\ UNCHANGED <<users, entries, sessions, device, grants, gateway, work,
                   faults, cause>>

\* RevokeDevice, one transaction: the device, its refresh tokens, its tokens.
RevokeDevice ==
    /\ device.status = "active"
    /\ device' = [device EXCEPT !.status = "revoked"]
    /\ grants' = {}
    /\ pats' = Revoked(Users)
    /\ work' = Crossing(Users)
    /\ UNCHANGED <<users, entries, sessions, gateway, faults, cause>>

ExpireToken(t) ==
    /\ pats[t] \in Pat
    /\ pats' = [pats EXCEPT ![t] = Gone]
    /\ UNCHANGED <<users, entries, sessions, device, grants, gateway, work,
                   faults, cause>>

\* RevokedPATJTIs: the revoked tokens that have not expired.
RevokedTokens == {t \in Tokens : pats[t] \in Pat /\ pats[t].revoked}

\* handleRevokedTokens, polled by the gateway, which replaces its list.
FetchRevoked ==
    /\ gateway' = RevokedTokens
    /\ UNCHANGED <<users, entries, sessions, device, grants, pats, work, faults, cause>>

-----------------------------------------------------------------------------
(* Faults. *)

\* A database error, a refusal of the directory or a crash ends a request
\* where it stands: every handler returns, none undoes what it did.
Cut(r) ==
    /\ work[r].at \notin {"start", "done", "cut"}
    /\ faults < MaxFaults
    /\ faults' = faults + 1
    /\ Continue(r, "cut")
    /\ UNCHANGED <<users, entries, sessions, device, grants, pats, gateway, cause>>

\* The directory is edited by its own tools: an entry leaves or joins the
\* administrators' group, or is removed.
EditOutside(n) ==
    /\ entries[n] # None
    /\ faults < MaxFaults
    /\ faults' = faults + 1
    /\ \/ entries' = [entries EXCEPT ![n].admin = ~@] /\ UNCHANGED cause
       \/ entries' = [entries EXCEPT ![n] = None] /\ cause' = cause \cup {"removed"}
    /\ UNCHANGED <<users, sessions, device, grants, pats, gateway, work>>

-----------------------------------------------------------------------------
\* A table to start from: usernames are unique, and either the setup wizard has
\* not run or it has left an enabled administrator.
ConsistentTable(T) ==
    /\ \A u, v \in Users :
          (T[u] # None /\ T[v] # None /\ T[u].name = T[v].name) => u = v
    /\ (\E u \in Users : T[u] # None)
          => \E u \in Users : T[u] # None /\ T[u].admin /\ ~T[u].disabled

CONSTANTS
    InitialTables,  \* the tables a behaviour starts from
    Owner           \* the account that enrolled the device

ASSUME TablesAssumption ==
    /\ Owner \in Users
    /\ InitialTables \subseteq [Users -> Row \cup {None}]
    /\ \A T \in InitialTables : ConsistentTable(T)

\* Mirrors have their entries, the directory may know other names as well,
\* administrators are signed in, and everybody is signed in on the device,
\* with tokens handed out or not.
Init ==
    /\ users \in InitialTables
    /\ \E known \in SUBSET {n \in Names : Mirrors(n) = {}} :
          entries = [n \in Names |->
                       IF n \in known THEN [pw |-> TRUE, admin |-> FALSE]
                       ELSE IF Mirrors(n) = {} THEN None
                       ELSE [pw |-> TRUE, admin |-> \E u \in Mirrors(n) : users[u].admin]]
    /\ sessions = {[user |-> u, directory |-> ~users[u].local] : u \in Admins}
    /\ grants = {u \in Users : Exists(u)}
    /\ device = [status |-> IF Owner \in grants THEN "active" ELSE "gone", owner |-> Owner]
    /\ pats \in [Tokens -> {None} \cup {Issued(u, FALSE) : u \in {v \in grants : Enabled(v)}}]
    /\ gateway = {}
    /\ work = [r \in Requests |-> Fresh]
    /\ faults = 0
    /\ cause = {}

Administer(r) ==
    \/ \E a, u \in Users :
          \/ \E off \in BOOLEAN : ToggleUser(r, a, u, off)
          \/ \E op \in {"promote", "edit", "delete"}, flag \in BOOLEAN :
                ManageUser(r, a, u, op, flag)
    \/ \E a \in Users, n \in Names, flag \in BOOLEAN : CreateUser(r, a, n, flag)
    \/ SetUserDisabled(r) \/ RevokeTokens(r) \/ DropSessions(r)
    \/ Insert(r) \/ Load(r) \/ WriteBack(r)
    \/ CountAdmins(r) \/ DeleteTokens(r) \/ DeleteUser(r)

Directory(r) ==
    \/ DirCreate(r) \/ DirSetPassword(r) \/ LookupDN(r) \/ DirUpdate(r) \/ DirDelete(r)
    \/ Upsert(r) \/ Mirror(r) \/ Link(r)

Enter(r) ==
    \/ \E n \in Names : SignIn(r, n) \/ Setup(r, n)
    \/ Bind(r) \/ IssueSession(r)

Delegate(r) ==
    \/ \E u \in Users : CreatePAT(r, u)
    \/ InsertToken(r)

Next ==
    \/ \E r \in Requests : Administer(r) \/ Directory(r) \/ Enter(r) \/ Delegate(r) \/ Cut(r)
    \/ \E t \in Tokens : RevokePAT(t) \/ ExpireToken(t)
    \/ RevokeDevice \/ FetchRevoked
    \/ \E n \in Names : EditOutside(n)

Spec == Init /\ [][Next]_vars

-----------------------------------------------------------------------------
(* Properties *)

TypeOK ==
    /\ users \in [Users -> Row \cup {None, Gone}]
    /\ entries \in [Names -> Entry \cup {None}]
    /\ sessions \subseteq Session
    /\ device \in [status : {"active", "revoked", "gone"}, owner : Users]
    /\ grants \subseteq Users
    /\ pats \in [Tokens -> Pat \cup {None, Gone}]
    /\ gateway \subseteq Tokens
    /\ work \in [Requests -> Request]
    /\ faults \in 0 .. MaxFaults
    /\ cause \subseteq {"overtaken", "demoted", "removed", "revived", "stale"}

\* Omni does not lose its last enabled administrator (which would open the
\* setup wizard again), unless the directory took the rights away at a sign-in,
\* or a request wrote after what it had checked was no longer so: its own
\* administrator disabled, or the row it writes back changed.
AdministratorRemains ==
    [][Admins # {} =>
         Admins' # {} \/ cause' \cap {"overtaken", "demoted"} # {}]_vars

\* A directory sign-in opens the mirror of its entry and nothing else: it never
\* enters, or changes the rights of, an account whose password Omni keeps.
NoTakeover ==
    /\ \A s \in sessions : s.directory => Exists(s.user) /\ ~users[s.user].local
    /\ \A r \in Requests :
          (work[r].at \in {"mirror", "session"} /\ work[r].flag /\ Exists(work[r].user))
             => /\ ~users[work[r].user].local
                /\ users[work[r].user].name = work[r].name

\* A deletion of that name has removed the entry and not (or not yet) the row.
EntryDeleted(n) ==
    \E r \in Requests :
        /\ work[r].op = "delete" /\ work[r].name = n /\ ~work[r].row.local
        /\ work[r].at \in {"dropSessions", "deleteTokens", "deleteUser", "cut"}

\* Directory first: an account that the directory keeps has its entry, through
\* failures at any step of creating, promoting and editing; only a deletion, or
\* the directory's own tools, leave a row behind without one, or a sign-in that
\* had bound before the deletion and brings the account back, or a second
\* deletion of an account that is gone, which takes its successor's entry.
MirrorHasEntry ==
    \A u \in Users :
        (Exists(u) /\ ~users[u].local /\ entries[users[u].name] = None)
            => EntryDeleted(users[u].name) \/ cause \cap {"removed", "revived", "stale"} # {}

\* The tokens of an account stop with it: once it is disabled, or the device is
\* revoked, a token that is still good was inserted by a request overtaken by
\* the revocation, or the disabling has not reached (or was cut before) its
\* second statement, or came from an edit that wrote back an old row.
TokensStopWithAccount ==
    \A t \in Tokens :
        (pats[t] \in Pat /\ ~pats[t].revoked /\ ~pats[t].crossed) =>
            /\ device.status # "revoked"
            /\ (Exists(pats[t].user) /\ users[pats[t].user].disabled) =>
                  \/ \E r \in Requests :
                        /\ work[r].op = "toggle" /\ work[r].user = pats[t].user
                        /\ work[r].at \in {"revokeTokens", "cut"}
                  \/ "overtaken" \in cause

\* What the gateway has been told to reject it rejects until the token expires,
\* whatever happens to the account since: enabling it again does not revive its
\* tokens. (Deleting the account does: its rows leave the list.)
RejectionIsFinal ==
    [][\A t \in gateway \ gateway' : pats[t] = Gone]_vars

=============================================================================
