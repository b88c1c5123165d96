----------------------------- MODULE UserCache -----------------------------
(***************************************************************************)
(* Linux login on one enrolled machine: the cache of users (one file per   *)
(* name, written whole and without a lock) and everything that reads and   *)
(* writes it at once: PAM conversations, the daemon's trust refresh, name  *)
(* lookups of the NSS socket, the token broker, and the commands signin    *)
(* and signout.                                                            *)
(*                                                                         *)
(* A step is one file operation or one exchange with the server, which is  *)
(* its directory, the refresh-token chains it granted to this machine and  *)
(* whether it honours the machine (TokenGrants and DeviceGrant have its    *)
(* handlers).  Time is kept as ages that saturate, so no clock bounds a    *)
(* behaviour.                                                              *)
(***************************************************************************)
EXTENDS Integers, FiniteSets

CONSTANTS
    Names, Subs, Directory, Owner,  \* whose names, and who enrolled the machine
    SigningIn,                      \* the names that sign in; others are looked up
    Logins,                         \* PAM conversations at a time
    Chains, MaxGen,                 \* grants, and rotations of one of them
    UidFor, Uids, CallerUid,        \* uidFor; the uid that signin runs as
    Validity,                       \* OfflineValidity, in ticks
    MaxBusy, MaxCrashes,            \* operations at a time; crashes
    None

\* A conversation ends within a tick: the socket's deadline.
ConversationLimit == 1
Expired == Validity + ConversationLimit + 1

ASSUME CacheAssumption ==
    /\ Directory \in [Names -> Subs] /\ Owner \in Names /\ SigningIn \subseteq Names
    /\ \A m, n \in Names : Directory[m] = Directory[n] => m = n
    /\ UidFor \in [Subs -> Uids] /\ Uids \subseteq Nat /\ CallerUid \in Nat \ Uids
    /\ Validity \in Nat /\ MaxGen \in Nat /\ MaxCrashes \in Nat /\ MaxBusy \in Nat
    /\ None \notin Names \cup Subs \cup Chains /\ "nss" \notin Logins

VARIABLES
    users,      \* users/<name>.json
    status,     \* the device status in status.json
    login,      \* PAM conversations
    daemon,     \* the trust refresh
    nss,        \* a name lookup
    cmd,        \* signin or signout
    broker,     \* a request of a local application
    dir,        \* the server's user of each name
    named,      \* the name of every user there ever was: ids are not used again
    enabled,    \* the server's enabled users
    device,     \* the server's status of the machine
    chain,      \* the server's refresh-token chains
    vouched,    \* history: age of the server's last word for each user
    crashes,
    trouble     \* history: a reply was lost or garbled, the daemon crashed, two
                \* uids were allocated at once or for one entry, or signin or
                \* signout wrote an entry that another operation had read

admin == <<dir, named, enabled, device>>
server == <<admin, chain>>
procs == <<login, daemon, nss, cmd, broker>>
vars == <<users, status, procs, server, vouched, crashes, trouble>>

\* secret: the user who chose the local password; age: of last_trust_refresh.
Blank(s, u) == [sub |-> s, uid |-> u, secret |-> None, age |-> Expired,
                token |-> None, revoked |-> FALSE]
Fresh == [gen |-> 0, dead |-> FALSE]
IdleLogin == [pc |-> "idle", name |-> None, uc |-> None, now |-> 0]
IdleDaemon == [pc |-> "idle", name |-> None, uc |-> None, todo |-> [n \in Names |-> None]]
IdleOp == [pc |-> "idle", name |-> None, uc |-> None]
IdleBroker == [pc |-> "idle", sub |-> None, token |-> None]

----------------------------------------------------------------------------
(* The cache. *)

Cached(u) == {u[n] : n \in {m \in Names : u[m] # None}}

\* Mutant: the hash alone.
allocateUIDHashed(u, s) == UidFor[s]

\* allocateUID: probes past the uids of other users, from uidFor(sub) on; an
\* error if none is free.
FreeUids(u, s) ==
    {i \in Uids : i >= UidFor[s] /\ \A q \in Cached(u) : q.sub # s => q.uid # i}
allocateUID(u, s) ==
    CHOOSE i \in FreeUids(u, s) : \A j \in FreeUids(u, s) : i <= j

\* EnsureOwnerAccount, when the daemon starts: never over an existing entry.
EnsureOwnerAccount(u) ==
    IF u[Owner] # None \/ FreeUids(u, Directory[Owner]) = {} THEN u
    ELSE [u EXCEPT ![Owner] = Blank(Directory[Owner], allocateUID(u, Directory[Owner]))]

\* Mutant: the validity window is not looked at.
offlineAllowedForever(uc) ==
    /\ uc # None /\ ~uc.revoked /\ uc.secret # None
    /\ status # "revoked"

offlineAllowed(uc) ==
    /\ uc # None /\ ~uc.revoked /\ uc.secret # None
    /\ uc.age <= Validity
    /\ status # "revoked"

----------------------------------------------------------------------------
(* The server. *)

\* The grants of which some file or operation holds a token; the others are
\* forgotten.
Held ==
    LET rs == {users[n] : n \in Names} \cup {login[l].uc : l \in Logins}
              \cup {daemon.uc, cmd.uc} \cup {daemon.todo[n] : n \in Names}
        ts == {r.token : r \in rs \ {None}} \cup {broker.token}
    IN  {t.chain : t \in ts \ {None}}
FreeChains == Chains \ Held
Collect == chain' = [c \in Chains |-> IF c \in Held' THEN chain[c] ELSE Fresh]

Unspent(t) == ~chain[t.chain].dead /\ t.gen = chain[t.chain].gen
Honours(s) == device = "active" /\ s \in enabled

\* grantTokenExchange: the subject token is looked up, not consumed.
Exchanges(r) == Honours(r.sub) /\ Unspent(r.token)

\* The device grant on this machine ends in a new chain of the user.
Approve(s, c) ==
    /\ Honours(s)
    /\ c \in FreeChains /\ c = CHOOSE d \in FreeChains : TRUE
    /\ chain' = [chain EXCEPT ![c] = Fresh]
    /\ vouched' = [vouched EXCEPT ![s] = 0]
    /\ UNCHANGED admin

First(c) == [chain |-> c, gen |-> 0]

Init ==
    /\ users = EnsureOwnerAccount([n \in Names |-> None])
    /\ status = "active"
    /\ login = [l \in Logins |-> IdleLogin]
    /\ daemon = IdleDaemon
    /\ nss = IdleOp /\ cmd = IdleOp /\ broker = IdleBroker
    /\ dir = Directory
    /\ named = [s \in Subs |-> IF \E n \in Names : Directory[n] = s
                             THEN CHOOSE n \in Names : Directory[n] = s ELSE None]
    /\ enabled = {Directory[n] : n \in Names}
    /\ device = "active"
    /\ chain = [c \in Chains |-> Fresh]
    /\ vouched = [s \in Subs |-> Expired]
    /\ crashes = 0 /\ trouble = FALSE

Disturb(b) == trouble' = (trouble \/ b) /\ UNCHANGED crashes
Quietly == UNCHANGED <<crashes, trouble>>

Busy == daemon.pc # "idle" \/ nss.pc # "idle" \/ \E l \in Logins : login[l].pc # "idle"

\* The bound on operations in flight besides the daemon's own.
Room ==
    LET others == [nss |-> nss.pc, cmd |-> cmd.pc, broker |-> broker.pc]
    IN  Cardinality({l \in Logins : login[l].pc # "idle"}
                    \cup {o \in DOMAIN others : others[o] # "idle"}) < MaxBusy

\* A uid that was allocated and is not yet in the cache.
Allocating(o) ==
    o.pc = "save" /\ (users[o.name] = None \/ users[o.name].uid # o.uc.uid)
Replaces(o) == users[o.name] # None /\ users[o.name].uid # o.uc.uid
OthersAllocate(p) ==
    \/ \E l \in Logins \ {p} : Allocating(login[l])
    \/ p # "nss" /\ Allocating(nss)

----------------------------------------------------------------------------
(* Login: the PAM conversation. *)

\* The cache entry and the clock are read once; what a sign-in overwrites of the
\* entry is not kept.
Read(uc) == IF uc = None THEN None
            ELSE [uc EXCEPT !.age = Expired, !.token = None, !.revoked = FALSE]

Login(l, n) ==
    /\ login[l].pc = "idle" /\ Room
    /\ login' = [login EXCEPT ![l] =
          [pc |-> IF offlineAllowed(users[n]) THEN "prompt" ELSE "online",
           name |-> n, uc |-> Read(users[n]), now |-> 0]]
    /\ UNCHANGED <<users, status, daemon, nss, cmd, broker, server, vouched>>
    /\ Quietly

LoginEnds(l) ==
    /\ login' = [login EXCEPT ![l] = IdleLogin]
    /\ UNCHANGED <<users, status, daemon, nss, cmd, broker, admin, vouched>>
    /\ Quietly
    /\ Collect

\* The right local password; a wrong one, a refusal or a timeout is LoginFails.
OfflineLogin(l) == login[l].pc = "prompt" /\ LoginEnds(l)
LoginFails(l) == login[l].pc # "idle" /\ LoginEnds(l)

EmptyPassword(l) ==
    /\ login[l].pc = "prompt"
    /\ login' = [login EXCEPT ![l].pc = "online"]
    /\ UNCHANGED <<users, status, daemon, nss, cmd, broker, server, vouched>>
    /\ Quietly

\* The entry that a sign-in of s writes.
SignedIn(s, uid, secret, age, c) ==
    [sub |-> s, uid |-> uid, secret |-> secret, age |-> age, token |-> First(c),
     revoked |-> FALSE]

\* A first entry gets a uid, an entry without a password the one chosen now.
ByLogin(uc, s, c) ==
    SignedIn(s, IF uc = None THEN allocateUID(users, s) ELSE uc.uid,
             IF uc = None \/ uc.secret = None THEN s ELSE uc.secret, Expired, c)

\* VerifyIDToken, and onlineLogin's checks of its claims: Omni says that s holds
\* the name (a token of this machine is signed for no one else).
VerifyIDToken(n, s) == dir[n] = s

\* Mutant: the approver's name is compared, not who the entry belongs to.
onlineLoginByName(l, s, c) ==
    LET p == login[l] IN
        /\ p.pc = "online" /\ VerifyIDToken(p.name, s)
        /\ Approve(s, c)
        /\ login' = [login EXCEPT ![l].pc = "save", ![l].uc = ByLogin(p.uc, s, c)]
        /\ Disturb(p.uc = None /\ OthersAllocate(l))
        /\ UNCHANGED <<users, status, daemon, nss, cmd, broker>>

\* The user approved, the ID token names this user, name and device; the entry
\* carries the time at which the conversation began.
onlineLogin(l, s, c) ==
    LET p == login[l] IN
        /\ p.pc = "online" /\ VerifyIDToken(p.name, s)
        /\ p.uc # None => p.uc.sub = s
        /\ p.uc = None => FreeUids(users, s) # {}
        /\ Approve(s, c)
        /\ login' = [login EXCEPT ![l].pc = "save", ![l].uc = ByLogin(p.uc, s, c)]
        /\ Disturb(p.uc = None /\ OthersAllocate(l))
        /\ UNCHANGED <<users, status, daemon, nss, cmd, broker>>

LoginSave(l) ==
    /\ login[l].pc = "save"
    /\ users' = [users EXCEPT ![login[l].name] = [login[l].uc EXCEPT !.age = login[l].now]]
    /\ login' = [login EXCEPT ![l] = IdleLogin]
    /\ UNCHANGED <<status, daemon, nss, cmd, broker, admin, vouched>>
    /\ Disturb(Replaces(login[l]))
    /\ Collect

----------------------------------------------------------------------------
(* The daemon: Renew, then RefreshUsers over the entries it listed. *)

\* The entries that are neither revoked nor without a token.
Listed == [n \in Names |->
             LET r == users[n] IN
             IF r # None /\ r.token # None /\ ~r.revoked THEN r ELSE None]

RenewHeard ==
    /\ daemon.pc = "idle"
    /\ status' = device
    /\ daemon' = IF device = "active" THEN [IdleDaemon EXCEPT !.pc = "users", !.todo = Listed]
                                      ELSE daemon
    /\ UNCHANGED <<users, login, nss, cmd, broker, server, vouched>> /\ Quietly

Due(n) == daemon.todo[n] # None

RefreshTurn(n, r) ==
    daemon' = [daemon EXCEPT !.pc = "save", !.name = n, !.uc = r, !.todo[n] = None]

\* What the server does with the token: a rotation, or a refusal that kills the
\* chain of a token presented twice.
Redeemed(r) ==
    LET c == r.token.chain IN
    CASE Exchanges(r) -> [chain EXCEPT ![c].gen = @ + 1]
      [] ~Unspent(r.token) -> [chain EXCEPT ![c].dead = TRUE]
      [] OTHER -> chain

\* The bound on rotations.
MayRotate(r) == Exchanges(r) => r.token.gen < MaxGen

\* Mutant: the rotated token is not stored.
TrustedUnrotated(r) == [r EXCEPT !.age = 0]

Trusted(r) == [r EXCEPT !.age = 0, !.token.gen = @ + 1]

\* Mutant: the token is dropped and the entry not marked.
RefusedUnmarked(r) == [r EXCEPT !.token = None]

Refused(r) == [r EXCEPT !.revoked = TRUE, !.token = None]

RefreshHeard(n) ==
    LET r == daemon.todo[n] IN
        /\ daemon.pc = "users" /\ Due(n) /\ MayRotate(r)
        /\ chain' = Redeemed(r)
        /\ IF Exchanges(r)
           THEN /\ RefreshTurn(n, Trusted(r))
                /\ vouched' = [vouched EXCEPT ![r.sub] = 0]
           ELSE /\ RefreshTurn(n, Refused(r))
                /\ UNCHANGED vouched
        /\ UNCHANGED <<users, status, login, nss, cmd, broker, admin>> /\ Quietly

\* The request or the reply is lost: the entry is left alone, whatever the
\* server did with the token.
RefreshLost(n, reached) ==
    /\ daemon.pc = "users" /\ Due(n)
    /\ LET r == daemon.todo[n] IN
       chain' = IF reached /\ MayRotate(r) THEN Redeemed(r) ELSE chain
    /\ daemon' = [daemon EXCEPT !.todo[n] = None]
    /\ Disturb(reached)
    /\ UNCHANGED <<users, status, login, nss, cmd, broker,
                   admin, vouched>>

\* A 5xx, a proxy's page or a reply cut short is not a transport error.
RefreshGarbled(n) ==
    /\ daemon.pc = "users" /\ Due(n)
    /\ RefreshTurn(n, Refused(daemon.todo[n]))
    /\ Disturb(TRUE)
    /\ UNCHANGED <<users, status, login, nss, cmd, broker,
                   server, vouched>>

\* The whole entry as it was listed, with the outcome.
RefreshSave ==
    /\ daemon.pc = "save"
    /\ users' = [users EXCEPT ![daemon.name] = daemon.uc]
    /\ daemon' = [daemon EXCEPT !.pc = "users", !.name = None, !.uc = None]
    /\ UNCHANGED <<status, login, nss, cmd, broker, admin, vouched>> /\ Quietly
    /\ Collect

RefreshDone ==
    /\ daemon.pc = "users" /\ ~\E n \in Names : Due(n)
    /\ daemon' = IdleDaemon
    /\ UNCHANGED <<users, status, login, nss, cmd, broker, admin, vouched>> /\ Quietly
    /\ Collect

----------------------------------------------------------------------------
(* NSS: a name that is not in the cache is asked of the server, within a     *)
(* budget and unless it was unknown a minute ago; both only refuse to ask.   *)

lookupIdentityOnline(n) ==
    /\ nss.pc = "idle" /\ Room /\ users[n] = None
    /\ nss' = [pc |-> "lookup", name |-> n, uc |-> None]
    /\ UNCHANGED <<users, status, login, daemon, cmd, broker, server, vouched>>
    /\ Quietly

LookupAnswered ==
    LET s == dir[nss.name] IN
    /\ nss.pc = "lookup" /\ Honours(s) /\ FreeUids(users, s) # {}
    /\ nss' = [nss EXCEPT !.pc = "save", !.uc = Blank(s, allocateUID(users, s))]
    /\ Disturb(OthersAllocate("nss"))
    /\ UNCHANGED <<users, status, login, daemon, cmd, broker, server, vouched>>

LookupFails ==
    /\ nss.pc = "lookup"
    /\ nss' = IdleOp
    /\ UNCHANGED <<users, status, login, daemon, cmd, broker, server, vouched>>
    /\ Quietly

LookupSave ==
    /\ nss.pc = "save"
    /\ users' = [users EXCEPT ![nss.name] = nss.uc]
    /\ nss' = IdleOp
    /\ UNCHANGED <<status, login, daemon, cmd, broker, admin, vouched>>
    /\ Disturb(Replaces(nss))
    /\ Collect

----------------------------------------------------------------------------
(* The broker: the entry of the caller's uid, then the token exchange. *)

privilegedUID(uid) == uid <= 0

\* The signed-in user who owns the caller's uid; the personal-access-token
\* operations start from it as well, and go on as the exchange does.
brokerUserClient(uc) ==
    /\ uc # None /\ ~privilegedUID(uc.uid)
    /\ ~uc.revoked /\ uc.token # None

BrokerToken(n) ==
    /\ broker.pc = "idle" /\ Room
    /\ brokerUserClient(users[n])
    /\ broker' = [pc |-> "exchange", sub |-> users[n].sub, token |-> users[n].token]
    /\ UNCHANGED <<users, status, login, daemon, nss, cmd, server, vouched>>
    /\ Quietly

BrokerEnds ==
    /\ broker' = IdleBroker
    /\ UNCHANGED <<users, status, login, daemon, nss, cmd, admin, vouched>>
    /\ Quietly
    /\ Collect

BrokerAnswers == broker.pc = "exchange" /\ Exchanges(broker) /\ BrokerEnds
BrokerRefused == broker.pc = "exchange" /\ BrokerEnds

----------------------------------------------------------------------------
(* The commands signin and signout of CallerUid. *)

\* The approval, then the entry of the name it came with; its uid becomes the
\* caller's, its password stays.
SignIn(n, s, c) ==
    /\ cmd.pc = "idle" /\ Room
    /\ VerifyIDToken(n, s)
    /\ users[n] # None => users[n].sub = s
    /\ Approve(s, c)
    /\ cmd' = [pc |-> "save", name |-> n,
               uc |-> SignedIn(s, CallerUid, IF users[n] = None THEN None ELSE users[n].secret,
                               0, c)]
    /\ UNCHANGED <<users, status, login, daemon, nss, broker>> /\ Quietly

SignInSave ==
    /\ cmd.pc = "save"
    /\ users' = [users EXCEPT ![cmd.name] = cmd.uc]
    /\ cmd' = IdleOp
    /\ Disturb(Busy)
    /\ UNCHANGED <<status, login, daemon, nss, broker, admin, vouched>>
    /\ Collect

SignOut(n) ==
    /\ cmd.pc = "idle" /\ Room
    /\ users[n] # None /\ users[n].uid = CallerUid
    /\ cmd' = [pc |-> "revoke", name |-> n, uc |-> users[n]]
    /\ UNCHANGED <<users, status, login, daemon, nss, broker, server, vouched>>
    /\ Quietly

\* Best effort, and of the one token that was listed.
SignOutRevoke(reached) ==
    LET t == cmd.uc.token IN
    /\ cmd.pc = "revoke"
    /\ chain' = IF reached /\ t # None /\ Unspent(t)
                THEN [chain EXCEPT ![t.chain].dead = TRUE] ELSE chain
    /\ cmd' = [cmd EXCEPT !.pc = "remove", !.uc = None]
    /\ UNCHANGED <<users, status, login, daemon, nss, broker,
                   admin, vouched>>
    /\ Quietly

SignOutRemove ==
    /\ cmd.pc = "remove"
    /\ users' = [users EXCEPT ![cmd.name] = None]
    /\ cmd' = IdleOp
    /\ Disturb(Busy)
    /\ UNCHANGED <<status, login, daemon, nss, broker, admin, vouched>>
    /\ Collect

----------------------------------------------------------------------------
(* The administrator, time, and crashes. *)

\* A refusal is kept in the entry until a sign-in, so that the account may be
\* enabled again makes no difference here.
Disable(s) ==
    /\ s \in enabled
    /\ enabled' = enabled \ {s}
    /\ UNCHANGED <<users, status, procs, dir, named, device, chain, vouched>> /\ Quietly

\* The account is deleted and its name given to a new one.
Reassign(n, s) ==
    /\ named[s] = None
    /\ dir' = [dir EXCEPT ![n] = s]
    /\ named' = [named EXCEPT ![s] = n]
    /\ enabled' = (enabled \ {dir[n]}) \cup {s}
    /\ UNCHANGED <<users, status, procs, device, chain, vouched>> /\ Quietly

RevokeDevice ==
    /\ device = "active"
    /\ device' = "revoked"
    /\ UNCHANGED <<users, status, procs, dir, named, enabled, chain, vouched>> /\ Quietly

Later(age) == IF age < Expired THEN age + 1 ELSE age
Aged(r) == IF r = None THEN None ELSE [r EXCEPT !.age = Later(@)]

\* A conversation that reached its limit ends first; the other operations have
\* timeouts of seconds.
Tick ==
    /\ \A l \in Logins : login[l].pc # "idle" => login[l].now < ConversationLimit
    /\ \A o \in {daemon.pc, nss.pc, cmd.pc, broker.pc} : o = "idle"
    /\ users' = [n \in Names |-> Aged(users[n])]
    /\ login' = [l \in Logins |->
          IF login[l].pc = "idle" THEN login[l]
          ELSE [login[l] EXCEPT !.now = @ + 1]]
    /\ vouched' = [s \in Subs |-> Later(vouched[s])]
    /\ UNCHANGED <<status, daemon, nss, cmd, broker, server>> /\ Quietly

\* The daemon dies and is started again.
Crash ==
    /\ crashes < MaxCrashes
    /\ crashes' = crashes + 1
    /\ login' = [l \in Logins |-> IdleLogin]
    /\ daemon' = IdleDaemon /\ nss' = IdleOp /\ broker' = IdleBroker
    /\ users' = EnsureOwnerAccount(users)
    /\ trouble' = TRUE
    /\ UNCHANGED <<status, cmd, admin, vouched>> /\ Collect

----------------------------------------------------------------------------
Refresh == RefreshSave \/ RefreshDone
PAM(l) ==
    \/ \E n \in SigningIn : Login(l, n)
    \/ OfflineLogin(l) \/ EmptyPassword(l) \/ LoginFails(l) \/ LoginSave(l)
    \/ \E s \in Subs, c \in Chains : onlineLogin(l, s, c)

NSS ==
    \/ \E n \in Names : lookupIdentityOnline(n)
    \/ LookupAnswered \/ LookupFails \/ LookupSave
Broker ==
    \/ \E n \in Names : BrokerToken(n)
    \/ BrokerAnswers \/ BrokerRefused
RunSignIn ==
    \/ \E n \in SigningIn, s \in Subs, c \in Chains : SignIn(n, s, c)
    \/ SignInSave
RunSignOut ==
    \/ \E n \in Names : SignOut(n)
    \/ \E reached \in BOOLEAN : SignOutRevoke(reached)
    \/ SignOutRemove

Next ==
    \/ \E l \in Logins : PAM(l)
    \/ RenewHeard \/ Refresh
    \/ \E n \in Names : RefreshHeard(n) \/ RefreshGarbled(n)
                        \/ \E reached \in BOOLEAN : RefreshLost(n, reached)
    \/ NSS \/ Broker \/ RunSignIn \/ RunSignOut
    \/ \E n \in SigningIn : Disable(dir[n]) \/ \E s \in Subs : Reassign(n, s)
    \/ RevokeDevice \/ Tick \/ Crash

\* The daemon goes on, and is not cut off from the server for ever.
Fairness ==
    /\ WF_vars(Refresh) /\ SF_vars(RenewHeard)
    /\ \A n \in Names : SF_vars(RefreshHeard(n))

Spec == Init /\ [][Next]_vars /\ Fairness

----------------------------------------------------------------------------
(* Properties. *)

Token == [chain : Chains, gen : 0..MaxGen]
Entry == [sub : Subs, uid : Uids \cup {CallerUid}, secret : Subs \cup {None},
          age : 0..Expired, token : Token \cup {None}, revoked : BOOLEAN]

ASSUME NullAssumption == None \notin Entry /\ None \notin Token

TypeOK ==
    /\ users \in [Names -> Entry \cup {None}]
    /\ status \in {"active", "revoked"}
    /\ \A l \in Logins : login[l].uc \in Entry \cup {None}
    /\ daemon.uc \in Entry \cup {None} /\ daemon.todo \in [Names -> Entry \cup {None}]
    /\ dir \in [Names -> Subs] /\ named \in [Subs -> Names \cup {None}]
    /\ enabled \subseteq Subs
    /\ chain \in [Chains -> [gen : 0..MaxGen, dead : BOOLEAN]]
    /\ vouched \in [Subs -> 0..Expired]

\* An offline login happens only within OfflineValidity (and the length of a
\* conversation) of a moment at which the server vouched for that very user, in
\* whatever order conversations, refreshes and lookups wrote the entry ("the
\* offline window bounds the exposure").
OfflineLoginBacked ==
    [][\A l \in Logins : OfflineLogin(l) =>
          vouched[login[l].uc.sub] <= Validity + ConversationLimit]_vars

\* The local password in an entry was chosen by the user the entry belongs to,
\* whoever has the name by now (onlineLogin's and SignIn's test of uc.Sub).
SecretBelongsToUser ==
    \A n \in Names : users[n] # None => users[n].secret \in {None, users[n].sub}

\* A user the server never turned away is locked out only after a reply was lost
\* or garbled, a crash, or a sign-out that overlapped ("Omni refuses": 3.3).
LockedOutForCause ==
    ~trouble /\ cmd.pc = "idle" /\ device = "active" =>
        \A n \in Names : users[n] # None /\ users[n].revoked => users[n].sub \notin enabled

\* allocateUID keeps uids apart, unless two of them were allocated at once or for
\* one entry, or an operation worked on one that signin or signout replaced.
UidsDistinct ==
    ~trouble => \A m, n \in Names :
        m # n /\ users[m] # None /\ users[n] # None /\ users[m].uid \in Uids =>
            users[m].uid # users[n].uid

TurnedAway(s) == device = "revoked" \/ s \notin enabled

\* A user or a machine that stays turned away loses offline login for good,
\* through the entry's mark or status.json and without waiting for the window
\* to pass ("takes effect the moment it reconnects").
RevocationReachesMachine ==
    \A s \in Subs : <>[]TurnedAway(s) =>
        <>[](\A n \in Names : users[n] # None /\ users[n].sub = s => ~offlineAllowed(users[n]))
=============================================================================
