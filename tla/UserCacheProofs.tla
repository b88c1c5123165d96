-------------------------- MODULE UserCacheProofs --------------------------
(***************************************************************************)
(* Theorems about UserCache, for any number of names, users, conversations *)
(* and refresh-token chains.  An entry is copied whenever an operation     *)
(* reads it and is written back whole, so every part of the invariant      *)
(* speaks of the copies too: whose they are (Typed, NamedInv), how old     *)
(* they are (AgeInv), which uid they carry (UidInv) and whether the server *)
(* still takes their token (SpentInv).                                     *)
(***************************************************************************)
EXTENDS UserCache, WellFoundedInduction, TLAPS

----------------------------------------------------------------------------
(* The inductive invariant. *)

\* Entries whose local password was chosen by their user.
Own == {r \in Entry : r.secret \in {None, r.sub}}
Copy == Own \cup {None}
Name == Names \cup {None}

LoginType == [pc : {"idle", "prompt", "online", "save"}, name : Name, uc : Copy,
              now : 0..ConversationLimit]
DaemonType == [pc : {"idle", "users", "save"}, name : Name, uc : Copy,
               todo : [Names -> Copy]]
NSSType == [pc : {"idle", "lookup", "save"}, name : Name, uc : Copy]
CmdType == [pc : {"idle", "save", "revoke", "remove"}, name : Name, uc : Copy]
BrokerType == [pc : {"idle", "exchange"}, sub : Subs \cup {None},
               token : Token \cup {None}]

Typed ==
    /\ users \in [Names -> Copy] /\ status \in {"active", "revoked"}
    /\ login \in [Logins -> LoginType] /\ daemon \in DaemonType
    /\ nss \in NSSType /\ cmd \in CmdType /\ broker \in BrokerType
    /\ dir \in [Names -> Subs] /\ named \in [Subs -> Name]
    /\ enabled \in SUBSET Subs /\ device \in {"active", "revoked"}
    /\ chain \in [Chains -> [gen : 0..MaxGen, dead : BOOLEAN]]
    /\ vouched \in [Subs -> 0..Expired]
    /\ crashes \in Nat /\ trouble \in BOOLEAN

\* What an operation carries at each of its steps.
LoginFits(p) ==
    /\ IF p.pc = "idle" THEN p.uc = None ELSE p.name \in Names
    /\ p.pc \in {"prompt", "save"} => p.uc \in Own
    /\ p.pc \in {"prompt", "online"} /\ p.uc # None => p.uc.token = None
    /\ p.pc = "save" => p.uc.token \in Token
    /\ p.uc # None => ~p.uc.revoked
DaemonFits ==
    /\ daemon.pc = "idle" => daemon = IdleDaemon
    /\ daemon.pc = "save" => daemon.name \in Names /\ daemon.uc \in Own
    /\ \A n \in Names : daemon.todo[n] # None =>
          daemon.todo[n].token \in Token /\ ~daemon.todo[n].revoked
OpFits ==
    /\ nss.pc # "idle" => nss.name \in Names
    /\ nss.pc = "save" => nss.uc \in Own /\ nss.uc.token = None /\ ~nss.uc.revoked
                          /\ nss.uc.age = Expired
    /\ cmd.pc # "idle" => cmd.name \in Names
    /\ cmd.pc \in {"save", "revoke"} => cmd.uc \in Own
    /\ cmd.pc = "save" => cmd.uc.token \in Token /\ ~cmd.uc.revoked /\ cmd.uc.uid = CallerUid
    /\ broker.pc = "exchange" => broker.sub \in Subs /\ broker.token \in Token

Control ==
    /\ Typed
    /\ \A l \in Logins : LoginFits(login[l])
    /\ DaemonFits /\ OpFits

\* An entry under a name is of a user who had that name.
NamedInv ==
    /\ \A n \in Names : /\ named[dir[n]] = n /\ named[Directory[n]] = n
                        /\ users[n] # None => named[users[n].sub] = n
                        /\ daemon.todo[n] # None => named[daemon.todo[n].sub] = n
    /\ \A s \in enabled : named[s] # None
    /\ \A l \in Logins : login[l].uc # None => named[login[l].uc.sub] = login[l].name
    /\ daemon.pc = "save" => named[daemon.uc.sub] = daemon.name
    /\ nss.pc = "save" => named[nss.uc.sub] = nss.name
    /\ cmd.pc \in {"save", "revoke"} => named[cmd.uc.sub] = cmd.name

\* The server's last word for a user is no older than an entry says.
AgeInv ==
    /\ \A n \in Names :
          /\ users[n] # None => vouched[users[n].sub] <= users[n].age
          /\ daemon.todo[n] # None => vouched[daemon.todo[n].sub] <= daemon.todo[n].age
    /\ daemon.pc = "save" => vouched[daemon.uc.sub] <= daemon.uc.age
    /\ cmd.pc = "save" => vouched[cmd.uc.sub] <= cmd.uc.age
    /\ \A l \in Logins :
          /\ login[l].pc = "prompt" => vouched[login[l].uc.sub] <= Validity + login[l].now
          /\ login[l].pc = "save" => vouched[login[l].uc.sub] <= login[l].now

----------------------------------------------------------------------------
(* Uids. *)

\* The entry of n has the uid of the copy r.
Keeps(n, r) == users[n] # None /\ users[n].uid = r.uid

\* The operation will write a uid that no other name has.
Apart(o) ==
    o.pc = "save" /\ o.uc.uid \in Uids =>
        \A m \in Names : m # o.name /\ users[m] # None => users[m].uid # o.uc.uid

Distinct ==
    \A m, n \in Names :
        m # n /\ users[m] # None /\ users[n] # None /\ users[m].uid \in Uids =>
            users[m].uid # users[n].uid

UidInv ==
    ~trouble =>
        /\ Distinct
        /\ \A l \in Logins :
              /\ login[l].pc \in {"prompt", "online"} /\ login[l].uc # None
                 => Keeps(login[l].name, login[l].uc)
              /\ Apart(login[l])
              /\ ~(Allocating(login[l]) /\ Allocating(nss))
        /\ \A k, l \in Logins : k # l => ~(Allocating(login[k]) /\ Allocating(login[l]))
        /\ Apart(nss)
        /\ \A n \in Names : daemon.todo[n] # None => Keeps(n, daemon.todo[n])
        /\ daemon.pc = "save" => Keeps(daemon.name, daemon.uc)

----------------------------------------------------------------------------
(* Tokens. *)

Of(r, c) == r # None /\ r.token # None /\ r.token.chain = c

\* A chain whose token is in the entry of n or in a copy of it, and one that was
\* just granted.
Uses(n, c) ==
    \/ Of(users[n], c) \/ Of(daemon.todo[n], c)
    \/ daemon.pc = "save" /\ daemon.name = n /\ Of(daemon.uc, c)
    \/ cmd.pc = "revoke" /\ cmd.name = n /\ Of(cmd.uc, c)
Granted(o, c) == o.pc = "save" /\ Of(o.uc, c)

ChainInv ==
    \A c \in Chains :
        /\ \A m, n \in Names : Uses(m, c) /\ Uses(n, c) => m = n
        /\ Granted(cmd, c) =>
              /\ \A n \in Names : ~Uses(n, c)
              /\ \A l \in Logins : ~Granted(login[l], c)
        /\ \A l \in Logins : Granted(login[l], c) =>
              /\ \A n \in Names : ~Uses(n, c)
              /\ \A k \in Logins : k # l => ~Granted(login[k], c)

\* signout has revoked the token and not yet removed the entry.
Leaving(n) == cmd.pc = "remove" /\ cmd.name = n
Saving(n) == daemon.pc = "save" /\ daemon.name = n

\* The server takes the tokens that will be presented.
SpentInv ==
    ~trouble =>
        /\ \A n \in Names :
              /\ users[n] # None /\ users[n].token # None =>
                    Unspent(users[n].token) \/ Saving(n) \/ Leaving(n)
              /\ daemon.todo[n] # None => Unspent(daemon.todo[n].token) \/ Leaving(n)
        /\ daemon.pc = "save" /\ daemon.uc.token # None =>
              Unspent(daemon.uc.token) \/ Leaving(daemon.name)
        /\ \A l \in Logins : login[l].pc = "save" => Unspent(login[l].uc.token)
        /\ cmd.pc = "save" => Unspent(cmd.uc.token)

\* An entry is marked for a reason.
Justified(n, s) == s \notin enabled \/ device = "revoked" \/ Leaving(n)
MarkInv ==
    ~trouble =>
        /\ \A n \in Names : users[n] # None /\ users[n].revoked => Justified(n, users[n].sub)
        /\ daemon.pc = "save" /\ daemon.uc.revoked => Justified(daemon.name, daemon.uc.sub)

IInv == Control /\ NamedInv /\ AgeInv /\ UidInv /\ ChainInv /\ SpentInv /\ MarkInv

----------------------------------------------------------------------------
(* Entries and tokens. *)

\* A set of naturals that is not empty has a least element.
LEMMA Least ==
  ASSUME NEW T \in SUBSET Nat, T # {}
  PROVE  \E x \in T : \A y \in T : x <= y
  <1> DEFINE R == OpToRel(<, Nat)
  <1>1. IsWellFoundedOn(R, Nat)
    BY NatLessThanWellFounded, Zenon
  <1>2. \A x, y \in Nat : <<x, y>> \in R <=> x < y
    BY Zenon DEF OpToRel
  <1> HIDE DEF R
  <1>3. PICK x \in T : \A y \in T : ~(<<y, x>> \in R)
    BY <1>1, WFMin
  <1>4. \A y \in T : ~(y < x)
    BY <1>2, <1>3, Zenon
  <1>5. \A y \in T : x <= y
    BY <1>4
  <1> QED
    BY <1>5

\* allocateUID answers with a free uid if there is one.
LEMMA Allocates ==
  ASSUME NEW u, NEW s, FreeUids(u, s) # {}
  PROVE  allocateUID(u, s) \in FreeUids(u, s) /\ allocateUID(u, s) \in Uids
  <1>1. FreeUids(u, s) \subseteq Uids /\ FreeUids(u, s) \in SUBSET Nat
    BY CacheAssumption DEF FreeUids
  <1>2. \E i \in FreeUids(u, s) : \A j \in FreeUids(u, s) : i <= j
    BY <1>1, Least
  <1>3. allocateUID(u, s) \in FreeUids(u, s)
    BY <1>2, Zenon DEF allocateUID
  <1> QED
    BY <1>1, <1>3

LEMMA Nulls == None \notin Own /\ None \notin Token /\ None \notin Names /\ None \notin Subs
  BY CacheAssumption, NullAssumption DEF Own

LEMMA Bounds ==
  /\ Validity \in Nat /\ MaxGen \in Nat /\ ConversationLimit = 1
  /\ Expired = Validity + 2 /\ Expired \in Nat
  BY CacheAssumption DEF Expired, ConversationLimit

\* The fields of an entry.
LEMMA OwnFields ==
  ASSUME NEW r \in Own
  PROVE  /\ r \in Entry /\ r # None
         /\ r.sub \in Subs /\ r.uid \in Uids \cup {CallerUid}
         /\ r.secret \in {None, r.sub} /\ r.age \in 0..Expired
         /\ r.token \in Token \cup {None} /\ r.revoked \in BOOLEAN
  BY NullAssumption DEF Own, Entry

LEMMA FirstToken ==
  ASSUME NEW c \in Chains
  PROVE  First(c) \in Token /\ First(c).chain = c /\ First(c).gen = 0
  BY Bounds DEF First, Token

LEMMA BlankEntry ==
  ASSUME NEW s \in Subs, NEW u \in Uids
  PROVE  /\ Blank(s, u) \in Own /\ Blank(s, u).sub = s /\ Blank(s, u).uid = u
         /\ Blank(s, u).token = None /\ ~Blank(s, u).revoked /\ Blank(s, u).age = Expired
  BY Bounds DEF Blank, Own, Entry

LEMMA ReadEntry ==
  ASSUME NEW r \in Own
  PROVE  /\ Read(r) \in Own /\ Read(r).sub = r.sub /\ Read(r).uid = r.uid
         /\ Read(r).token = None /\ ~Read(r).revoked /\ Read(r).secret = r.secret
  <1> DEFINE e == [r EXCEPT !.age = Expired]
  <1>1. Read(r) = [e EXCEPT !.token = None, !.revoked = FALSE]
    BY Nulls, Zenon DEF Read
  <1>2. /\ e \in Own /\ e.sub = r.sub /\ e.uid = r.uid /\ e.secret = r.secret
        /\ e \in Entry
    BY Bounds DEF Own, Entry
  <1> HIDE DEF e
  <1> QED
    BY <1>1, <1>2 DEF Own, Entry

LEMMA ReadNone == Read(None) = None
  BY Zenon DEF Read

LEMMA SignedInEntry ==
  ASSUME NEW s \in Subs, NEW u \in Uids \cup {CallerUid}, NEW x \in {None, s},
         NEW a \in 0..Expired, NEW c \in Chains
  PROVE  /\ SignedIn(s, u, x, a, c) \in Own
         /\ SignedIn(s, u, x, a, c).sub = s /\ SignedIn(s, u, x, a, c).uid = u
         /\ SignedIn(s, u, x, a, c).token = First(c) /\ ~SignedIn(s, u, x, a, c).revoked
         /\ SignedIn(s, u, x, a, c).age = a
  <1>1. x \in Subs \cup {None}
    OBVIOUS
  <1> QED
    BY <1>1, FirstToken DEF SignedIn, Own, Entry

LEMMA DatedEntry ==
  ASSUME NEW r \in Own, NEW a \in 0..Expired
  PROVE  /\ [r EXCEPT !.age = a] \in Own
         /\ [r EXCEPT !.age = a].sub = r.sub /\ [r EXCEPT !.age = a].uid = r.uid
         /\ [r EXCEPT !.age = a].token = r.token /\ [r EXCEPT !.age = a].age = a
         /\ [r EXCEPT !.age = a].revoked = r.revoked
  BY DEF Own, Entry

LEMMA TrustedEntry ==
  ASSUME NEW r \in Own, r.token \in Token, r.token.gen < MaxGen
  PROVE  /\ Trusted(r) \in Own /\ Trusted(r).sub = r.sub /\ Trusted(r).uid = r.uid
         /\ Trusted(r).age = 0 /\ Trusted(r).revoked = r.revoked
         /\ Trusted(r).token \in Token /\ Trusted(r).token.chain = r.token.chain
         /\ Trusted(r).token.gen = r.token.gen + 1
  <1>1. [r.token EXCEPT !.gen = @ + 1] \in Token
    BY Bounds DEF Token
  <1>2. Trusted(r) = [r EXCEPT !.age = 0, !.token = [r.token EXCEPT !.gen = @ + 1]]
    BY DEF Trusted, Own, Entry, Token
  <1>3. /\ [r.token EXCEPT !.gen = @ + 1].chain = r.token.chain
        /\ [r.token EXCEPT !.gen = @ + 1].gen = r.token.gen + 1
    BY DEF Token
  <1>4. 0 \in 0..Expired
    BY Bounds
  <1> DEFINE t == [r.token EXCEPT !.gen = @ + 1]
  <1> HIDE DEF t
  <1>5. Trusted(r) = [r EXCEPT !.age = 0, !.token = t]
    BY <1>2 DEF t
  <1>6. t \in Token
    BY <1>1 DEF t
  <1>7. /\ Trusted(r) \in Own /\ Trusted(r).sub = r.sub /\ Trusted(r).uid = r.uid
        /\ Trusted(r).age = 0 /\ Trusted(r).revoked = r.revoked /\ Trusted(r).token = t
    BY <1>4, <1>5, <1>6 DEF Own, Entry
  <1> QED
    BY <1>3, <1>6, <1>7 DEF t

LEMMA RefusedEntry ==
  ASSUME NEW r \in Own
  PROVE  /\ Refused(r) \in Own /\ Refused(r).sub = r.sub /\ Refused(r).uid = r.uid
         /\ Refused(r).age = r.age /\ Refused(r).revoked /\ Refused(r).token = None
  BY DEF Refused, Own, Entry

LEMMA LaterAge ==
  ASSUME NEW a \in 0..Expired
  PROVE  Later(a) \in 0..Expired /\ Later(a) <= a + 1
  BY Bounds DEF Later

LEMMA AgedEntry ==
  ASSUME NEW r \in Own
  PROVE  /\ Aged(r) \in Own /\ Aged(r).sub = r.sub /\ Aged(r).uid = r.uid
         /\ Aged(r).age = Later(r.age) /\ Aged(r).revoked = r.revoked
         /\ Aged(r).token = r.token
  <1>1. Later(r.age) \in 0..Expired
    BY OwnFields, LaterAge
  <1>2. Aged(r) = [r EXCEPT !.age = Later(r.age)]
    BY OwnFields DEF Aged
  <1> QED
    BY <1>1, <1>2, DatedEntry

----------------------------------------------------------------------------
(* The chains that are held. *)

\* A grant of which a token is left is not forgotten.
LEMMA Collected ==
  ASSUME Collect, NEW c \in Chains
  PROVE  /\ \A n \in Names : Of(users'[n], c) \/ Of(daemon'.todo[n], c)
                             => chain'[c] = chain[c]
         /\ \A l \in Logins : Of(login'[l].uc, c) => chain'[c] = chain[c]
         /\ Of(daemon'.uc, c) \/ Of(cmd'.uc, c) => chain'[c] = chain[c]
  <1>1. c \in Held' => chain'[c] = chain[c]
    BY DEF Collect
  <1>2. \A n \in Names : Of(users'[n], c) \/ Of(daemon'.todo[n], c) => c \in Held'
    BY Zenon DEF Of, Held
  <1>3. \A l \in Logins : Of(login'[l].uc, c) => c \in Held'
    BY Zenon DEF Of, Held
  <1>4. Of(daemon'.uc, c) \/ Of(cmd'.uc, c) => c \in Held'
    BY Zenon DEF Of, Held
  <1> QED
    BY <1>1, <1>2, <1>3, <1>4

\* A grant that is free to be made has no token anywhere.
LEMMA FreeChain ==
  ASSUME NEW c \in FreeChains
  PROVE  /\ c \in Chains
         /\ \A n \in Names : ~Of(users[n], c) /\ ~Of(daemon.todo[n], c)
         /\ \A l \in Logins : ~Of(login[l].uc, c)
         /\ ~Of(daemon.uc, c) /\ ~Of(cmd.uc, c)
  <1>1. c \in Chains /\ c \notin Held
    BY DEF FreeChains
  <1>2. \A n \in Names : ~Of(users[n], c) /\ ~Of(daemon.todo[n], c)
    BY <1>1, Zenon DEF Of, Held
  <1>3. \A l \in Logins : ~Of(login[l].uc, c)
    BY <1>1, Zenon DEF Of, Held
  <1>4. ~Of(daemon.uc, c) /\ ~Of(cmd.uc, c)
    BY <1>1, Zenon DEF Of, Held
  <1> QED
    BY <1>1, <1>2, <1>3, <1>4

\* The grant of the token t is as it was.
Stays(t) == chain'[t.chain] = chain[t.chain]

LEMMA GrantsStay ==
  ASSUME Collect, Control'
  PROVE  /\ \A n \in Names : /\ users'[n] # None /\ users'[n].token # None
                                => Stays(users'[n].token)
                             /\ daemon'.todo[n] # None => Stays(daemon'.todo[n].token)
         /\ daemon'.pc = "save" /\ daemon'.uc.token # None => Stays(daemon'.uc.token)
         /\ \A l \in Logins : login'[l].pc = "save" => Stays(login'[l].uc.token)
         /\ cmd'.pc = "save" => Stays(cmd'.uc.token)
  <1>1. \A r \in Copy : r # None /\ r.token # None => r.token.chain \in Chains
    BY OwnFields DEF Copy, Token
  <1>2. /\ \A n \in Names : users'[n] \in Copy /\ daemon'.todo[n] \in Copy
        /\ \A l \in Logins : login'[l].uc \in Copy
        /\ daemon'.uc \in Copy /\ cmd'.uc \in Copy
    BY DEF Control, Typed, LoginType, DaemonType, CmdType
  <1>3. /\ \A n \in Names : daemon'.todo[n] # None => daemon'.todo[n].token # None
        /\ daemon'.pc = "save" => daemon'.uc # None
        /\ \A l \in Logins : login'[l].pc = "save" =>
              login'[l].uc # None /\ login'[l].uc.token # None
        /\ cmd'.pc = "save" => cmd'.uc # None /\ cmd'.uc.token # None
    BY Nulls DEF Control, LoginFits, DaemonFits, OpFits
  <1>4. \A n \in Names : /\ users'[n] # None /\ users'[n].token # None => Stays(users'[n].token)
                         /\ daemon'.todo[n] # None => Stays(daemon'.todo[n].token)
    BY <1>1, <1>2, <1>3, Collected DEF Stays, Of
  <1>5. \A l \in Logins : login'[l].pc = "save" => Stays(login'[l].uc.token)
    BY <1>1, <1>2, <1>3, Collected DEF Stays, Of
  <1>6. /\ daemon'.pc = "save" /\ daemon'.uc.token # None => Stays(daemon'.uc.token)
        /\ cmd'.pc = "save" => Stays(cmd'.uc.token)
    BY <1>1, <1>2, <1>3, Collected DEF Stays, Of
  <1> QED
    BY <1>4, <1>5, <1>6

LEMMA CollectTyped ==
  ASSUME Typed, Collect
  PROVE  chain' \in [Chains -> [gen : 0..MaxGen, dead : BOOLEAN]]
  BY Bounds DEF Typed, Collect, Fresh

----------------------------------------------------------------------------
(* The steps of a conversation. *)

LEMMA LoginStep ==
  ASSUME IInv, NEW l \in Logins, NEW n \in Names, Login(l, n)
  PROVE  IInv'
  <1> DEFINE p == login'[l]
  <1>1. /\ login' = [login EXCEPT ![l] = login'[l]]
        /\ p.pc \in {"prompt", "online"} /\ p.name = n /\ p.now = 0
        /\ p.uc = Read(users[n])
        /\ p.pc = "prompt" => offlineAllowed(users[n])
        /\ p \in [pc : {"prompt", "online"}, name : {n}, uc : {Read(users[n])}, now : {0}]
    BY DEF Login, IInv, Control, Typed
  <1>2. /\ UNCHANGED <<users, status, daemon, nss, cmd, broker, dir, named, enabled,
                       device, chain, vouched, crashes, trouble>>
    BY DEF Login, server, admin, Quietly
  <1>3. /\ users[n] \in Copy
        /\ users[n] # None => users[n] \in Own
        /\ p.uc \in Copy
        /\ p.uc = None => users[n] = None
        /\ p.uc # None => /\ users[n] # None /\ p.uc \in Own
                          /\ p.uc.sub = users[n].sub /\ p.uc.uid = users[n].uid
                          /\ p.uc.token = None /\ ~p.uc.revoked
    BY <1>1, ReadEntry, ReadNone, OwnFields DEF IInv, Control, Typed, Copy
  <1>4. /\ p \in LoginType
        /\ \A k \in Logins : k # l => login'[k] = login[k]
    BY <1>1, <1>3 DEF IInv, Control, Typed, LoginType, Name, ConversationLimit
  <1>5. p.pc = "prompt" => users[n] # None /\ users[n].age <= Validity
    BY <1>1 DEF offlineAllowed
  <1> HIDE DEF p
  <1>6. Control'
    <2>1. login' \in [Logins -> LoginType]
      BY <1>1, <1>4 DEF IInv, Control, Typed, p
    <2>2. Typed'
      BY <1>2, <2>1 DEF IInv, Control, Typed
    <2>3. \A k \in Logins : LoginFits(login[k])'
      BY <1>1, <1>3, <1>4, <1>5 DEF IInv, Control, LoginFits, p
    <2> QED
      BY <1>2, <2>2, <2>3 DEF IInv, Control, DaemonFits, OpFits
  <1>7. NamedInv'
    BY <1>1, <1>2, <1>3, <1>4 DEF IInv, NamedInv, p
  <1>8. AgeInv'
    <2>1. p.pc = "prompt" => vouched[p.uc.sub] <= Validity + p.now
      <3>1. users[n] # None => /\ vouched[users[n].sub] \in Nat /\ users[n].age \in Nat
                               /\ vouched[users[n].sub] <= users[n].age
        BY <1>3, OwnFields, Bounds DEF IInv, Control, Typed, AgeInv
      <3> QED
        BY <1>1, <1>3, <1>5, <3>1, Bounds
    <2> QED
      BY <1>1, <1>2, <1>4, <2>1 DEF IInv, AgeInv, p
  <1>9. UidInv'
    BY <1>1, <1>2, <1>3, <1>4 DEF IInv, UidInv, Distinct, Keeps, Apart, Allocating, p
  <1>10. ChainInv' /\ SpentInv'
    BY <1>1, <1>2, <1>4 DEF IInv, ChainInv, SpentInv, Uses, Granted, Unspent, Saving, Leaving, p
  <1>11. MarkInv'
    BY <1>2 DEF IInv, MarkInv, Justified, Leaving
  <1> QED
    BY <1>6, <1>7, <1>8, <1>9, <1>10, <1>11 DEF IInv

\* A conversation that is over carries nothing.
LEMMA IdleFits ==
  /\ IdleLogin \in LoginType /\ IdleLogin.pc = "idle" /\ IdleLogin.uc = None
  /\ LoginFits(IdleLogin)
  /\ IdleOp \in NSSType /\ IdleOp \in CmdType /\ IdleOp.pc = "idle" /\ IdleOp.uc = None
  /\ IdleBroker \in BrokerType /\ IdleBroker.pc = "idle"
  /\ IdleDaemon \in DaemonType /\ IdleDaemon.pc = "idle"
  /\ \A n \in Names : IdleDaemon.todo[n] = None
  BY DEF IdleLogin, LoginType, LoginFits, Copy, Name, ConversationLimit, IdleOp, NSSType, CmdType,
         IdleBroker, BrokerType, IdleDaemon, DaemonType

LEMMA LoginEndsStep ==
  ASSUME IInv, NEW l \in Logins, LoginEnds(l)
  PROVE  IInv'
  <1>1. /\ login'[l].pc = "idle" /\ login'[l].uc = None /\ LoginFits(login'[l])
        /\ login' \in [Logins -> LoginType]
        /\ \A k \in Logins : k # l => login'[k] = login[k]
    BY IdleFits DEF LoginEnds, IInv, Control, Typed
  <1>2. /\ UNCHANGED <<users, status, daemon, nss, cmd, broker, dir, named, enabled,
                       device, vouched, crashes, trouble>>
        /\ Collect
    BY DEF LoginEnds, admin, Quietly
  <1>3. Control'
    <2>1. Typed'
      BY <1>1, <1>2, CollectTyped DEF IInv, Control, Typed
    <2>2. \A k \in Logins : LoginFits(login[k])'
      BY <1>1 DEF IInv, Control, LoginFits
    <2> QED
      BY <1>2, <2>1, <2>2 DEF IInv, Control, DaemonFits, OpFits
  <1>4. NamedInv' /\ AgeInv'
    BY <1>1, <1>2 DEF IInv, NamedInv, AgeInv
  <1>5. UidInv'
    BY <1>1, <1>2 DEF IInv, UidInv, Distinct, Keeps, Apart, Allocating
  <1>6. ChainInv'
    BY <1>1, <1>2 DEF IInv, ChainInv, Uses, Granted
  <1>7. SpentInv'
    BY <1>1, <1>2, <1>3, GrantsStay DEF IInv, SpentInv, Stays, Unspent, Saving, Leaving
  <1>8. MarkInv'
    BY <1>2 DEF IInv, MarkInv, Justified, Leaving
  <1> QED
    BY <1>3, <1>4, <1>5, <1>6, <1>7, <1>8 DEF IInv

LEMMA EmptyPasswordStep ==
  ASSUME IInv, NEW l \in Logins, EmptyPassword(l)
  PROVE  IInv'
  <1>1. /\ login[l].pc = "prompt" /\ login[l] \in LoginType
        /\ login'[l].pc = "online" /\ login'[l].uc = login[l].uc
        /\ login'[l].name = login[l].name /\ login'[l].now = login[l].now
        /\ login' \in [Logins -> LoginType]
        /\ \A k \in Logins : k # l => login'[k] = login[k]
    BY DEF EmptyPassword, IInv, Control, Typed, LoginType
  <1>2. UNCHANGED <<users, status, daemon, nss, cmd, broker, dir, named, enabled,
                    device, chain, vouched, crashes, trouble>>
    BY DEF EmptyPassword, server, admin, Quietly
  <1>3. Control'
    <2>1. Typed'
      BY <1>1, <1>2 DEF IInv, Control, Typed
    <2>2. \A k \in Logins : LoginFits(login[k])'
      BY <1>1 DEF IInv, Control, LoginFits
    <2> QED
      BY <1>2, <2>1, <2>2 DEF IInv, Control, DaemonFits, OpFits
  <1>4. NamedInv' /\ AgeInv'
    BY <1>1, <1>2 DEF IInv, NamedInv, AgeInv
  <1>5. UidInv'
    BY <1>1, <1>2 DEF IInv, UidInv, Distinct, Keeps, Apart, Allocating
  <1>6. ChainInv' /\ SpentInv'
    BY <1>1, <1>2 DEF IInv, ChainInv, Uses, Granted, SpentInv, Unspent, Saving, Leaving
  <1>7. MarkInv'
    BY <1>2 DEF IInv, MarkInv, Justified, Leaving
  <1> QED
    BY <1>3, <1>4, <1>5, <1>6, <1>7 DEF IInv

\* A grant is new, and the server has just spoken for the user.
LEMMA Approved ==
  ASSUME IInv, NEW s \in Subs, NEW c \in Chains, Approve(s, c)
  PROVE  /\ Honours(s) /\ c \in FreeChains
         /\ chain' \in [Chains -> [gen : 0..MaxGen, dead : BOOLEAN]]
         /\ Unspent(First(c))'
         /\ \A d \in Chains : d # c => chain'[d] = chain[d]
         /\ vouched' \in [Subs -> 0..Expired] /\ vouched'[s] = 0
         /\ \A x \in Subs : vouched'[x] <= vouched[x]
         /\ UNCHANGED <<dir, named, enabled, device>>
  <1>1. /\ Fresh \in [gen : 0..MaxGen, dead : BOOLEAN]
        /\ Fresh.gen = 0 /\ Fresh.dead = FALSE
    BY Bounds DEF Fresh
  <1>2. /\ chain \in [Chains -> [gen : 0..MaxGen, dead : BOOLEAN]]
        /\ vouched \in [Subs -> 0..Expired]
    BY DEF IInv, Control, Typed
  <1>3. /\ Honours(s) /\ c \in FreeChains
        /\ chain' = [chain EXCEPT ![c] = Fresh] /\ vouched' = [vouched EXCEPT ![s] = 0]
        /\ UNCHANGED <<dir, named, enabled, device>>
    BY DEF Approve, admin
  <1>4. /\ chain' \in [Chains -> [gen : 0..MaxGen, dead : BOOLEAN]]
        /\ chain'[c] = Fresh /\ \A d \in Chains : d # c => chain'[d] = chain[d]
    BY <1>1, <1>2, <1>3
  <1>5. /\ vouched' \in [Subs -> 0..Expired] /\ vouched'[s] = 0
        /\ \A x \in Subs : vouched'[x] <= vouched[x]
    BY <1>2, <1>3, Bounds
  <1>6. Unspent(First(c))'
    BY <1>1, <1>4, FirstToken DEF Unspent
  <1> QED
    BY <1>3, <1>4, <1>5, <1>6

\* A new grant leaves alone those that a token is left of.
LEMMA OthersStay ==
  ASSUME IInv, NEW c \in FreeChains, \A d \in Chains : d # c => chain'[d] = chain[d]
  PROVE  /\ \A n \in Names : /\ users[n] # None /\ users[n].token # None
                                => Stays(users[n].token)
                             /\ daemon.todo[n] # None => Stays(daemon.todo[n].token)
         /\ daemon.pc = "save" /\ daemon.uc.token # None => Stays(daemon.uc.token)
         /\ \A l \in Logins : login[l].pc = "save" => Stays(login[l].uc.token)
         /\ cmd.pc = "save" => Stays(cmd.uc.token)
  <1>1. \A r \in Copy : r # None /\ r.token # None => r.token.chain \in Chains
    BY OwnFields DEF Copy, Token
  <1>2. /\ \A n \in Names : users[n] \in Copy /\ daemon.todo[n] \in Copy
        /\ \A l \in Logins : login[l].uc \in Copy
        /\ daemon.uc \in Copy /\ cmd.uc \in Copy
    BY DEF IInv, Control, Typed, LoginType, DaemonType, CmdType
  <1>3. /\ \A n \in Names : daemon.todo[n] # None => daemon.todo[n].token # None
        /\ daemon.pc = "save" => daemon.uc # None
        /\ \A l \in Logins : login[l].pc = "save" =>
              login[l].uc # None /\ login[l].uc.token # None
        /\ cmd.pc = "save" => cmd.uc # None /\ cmd.uc.token # None
    BY Nulls DEF IInv, Control, LoginFits, DaemonFits, OpFits
  <1>4. \A n \in Names : /\ users[n] # None /\ users[n].token # None => Stays(users[n].token)
                         /\ daemon.todo[n] # None => Stays(daemon.todo[n].token)
    BY <1>1, <1>2, <1>3, FreeChain DEF Stays, Of
  <1>5. \A l \in Logins : login[l].pc = "save" => Stays(login[l].uc.token)
    BY <1>1, <1>2, <1>3, FreeChain DEF Stays, Of
  <1>6. /\ daemon.pc = "save" /\ daemon.uc.token # None => Stays(daemon.uc.token)
        /\ cmd.pc = "save" => Stays(cmd.uc.token)
    BY <1>1, <1>2, <1>3, FreeChain DEF Stays, Of
  <1> QED
    BY <1>4, <1>5, <1>6

\* A uid that is allocated for a name is not the uid of another.
LEMMA NewUid ==
  ASSUME IInv, NEW n \in Names, NEW s \in Subs, named[s] = n, FreeUids(users, s) # {}
  PROVE  /\ allocateUID(users, s) \in Uids
         /\ \A m \in Names : m # n /\ users[m] # None => users[m].uid # allocateUID(users, s)
  <1>1. allocateUID(users, s) \in FreeUids(users, s) /\ allocateUID(users, s) \in Uids
    BY Allocates
  <1>2. \A q \in Cached(users) : q.sub # s => q.uid # allocateUID(users, s)
    BY <1>1 DEF FreeUids
  <1>3. \A m \in Names : users[m] # None => users[m] \in Cached(users)
    BY DEF Cached
  <1>4. \A m \in Names : m # n /\ users[m] # None => users[m].sub # s
    BY DEF IInv, NamedInv
  <1> QED
    BY <1>1, <1>2, <1>3, <1>4

\* The server's word for a user can only make an entry safer.
LEMMA StillVouched ==
  ASSUME IInv, vouched' \in [Subs -> 0..Expired], \A x \in Subs : vouched'[x] <= vouched[x]
  PROVE  /\ \A n \in Names :
               /\ users[n] # None => vouched'[users[n].sub] <= users[n].age
               /\ daemon.todo[n] # None => vouched'[daemon.todo[n].sub] <= daemon.todo[n].age
         /\ daemon.pc = "save" => vouched'[daemon.uc.sub] <= daemon.uc.age
         /\ cmd.pc = "save" => vouched'[cmd.uc.sub] <= cmd.uc.age
         /\ \A l \in Logins :
               /\ login[l].pc = "prompt" => vouched'[login[l].uc.sub] <= Validity + login[l].now
               /\ login[l].pc = "save" => vouched'[login[l].uc.sub] <= login[l].now
  <1>1. \A x \in Subs, a \in Int : vouched[x] <= a => vouched'[x] <= a
    BY Bounds DEF IInv, Control, Typed
  <1>2. \A r \in Own : r.sub \in Subs /\ r.age \in Int
    BY OwnFields, Bounds
  <1>3. /\ \A n \in Names : /\ users[n] # None => users[n] \in Own
                            /\ daemon.todo[n] # None => daemon.todo[n] \in Own
        /\ daemon.pc = "save" => daemon.uc \in Own
        /\ cmd.pc = "save" => cmd.uc \in Own
        /\ \A l \in Logins :
              /\ login[l].pc \in {"prompt", "save"} => login[l].uc \in Own
              /\ login[l].now \in Int /\ Validity + login[l].now \in Int
    BY Bounds DEF IInv, Control, Typed, DaemonType, LoginType, Copy, LoginFits, DaemonFits, OpFits
  <1> QED
    BY <1>1, <1>2, <1>3 DEF IInv, AgeInv

LEMMA OnlineLoginStep ==
  ASSUME IInv, NEW l \in Logins, NEW s \in Subs, NEW c \in Chains, onlineLogin(l, s, c)
  PROVE  IInv'
  <1> DEFINE p == login[l]
             q == login'[l]
             u == IF p.uc = None THEN allocateUID(users, s) ELSE p.uc.uid
  <1>1. /\ p.pc = "online" /\ dir[p.name] = s /\ p.name \in Names
        /\ p.uc # None => p.uc \in Own /\ p.uc.sub = s
        /\ p.uc = None => FreeUids(users, s) # {}
        /\ p \in LoginType
    BY DEF onlineLogin, VerifyIDToken, IInv, Control, Typed, LoginFits, LoginType, Copy
  <1>2. named[s] = p.name
    BY <1>1 DEF IInv, NamedInv
  <1>3. /\ Approve(s, c)
        /\ UNCHANGED <<users, status, daemon, nss, cmd, broker, dir, named, enabled, device,
                       crashes>>
    BY DEF onlineLogin, Disturb, Approve, admin
  <1>4. ~trouble' => ~trouble /\ ~(p.uc = None /\ OthersAllocate(l))
    BY Zenon DEF onlineLogin, Disturb
  <1>5. trouble' \in BOOLEAN
    BY DEF onlineLogin, Disturb
  <1>6. u \in Uids \cup {CallerUid}
    BY <1>1, <1>2, NewUid, OwnFields
  <1>7. (IF p.uc = None \/ p.uc.secret = None THEN s ELSE p.uc.secret) \in {None, s}
    BY <1>1, OwnFields
  <1>8. /\ ByLogin(p.uc, s, c) \in Own /\ ByLogin(p.uc, s, c).sub = s
        /\ ByLogin(p.uc, s, c).uid = u /\ ByLogin(p.uc, s, c).token = First(c)
        /\ ~ByLogin(p.uc, s, c).revoked
    BY <1>6, <1>7, SignedInEntry, Bounds DEF ByLogin
  <1>9. login' = [login EXCEPT ![l] = [p EXCEPT !.pc = "save", !.uc = ByLogin(p.uc, s, c)]]
    BY DEF onlineLogin, IInv, Control, Typed
  <1>10. /\ q.pc = "save" /\ q.name = p.name /\ q.now = p.now /\ q.uc = ByLogin(p.uc, s, c)
         /\ login' \in [Logins -> LoginType]
         /\ \A k \in Logins : k # l => login'[k] = login[k]
    BY <1>1, <1>8, <1>9 DEF LoginType, Copy, IInv, Control, Typed
  <1>11. /\ q.uc \in Own /\ q.uc.sub = s /\ q.uc.uid = u /\ q.uc.token = First(c)
         /\ ~q.uc.revoked /\ q.uc # None
    BY <1>8, <1>10, Nulls
  <1> HIDE DEF p, q, u
  <1>12. Control'
    <2>1. Typed'
      BY <1>3, <1>5, <1>10, Approved DEF IInv, Control, Typed
    <2>2. \A k \in Logins : LoginFits(login[k])'
      BY <1>1, <1>10, <1>11, FirstToken DEF IInv, Control, LoginFits, q
    <2> QED
      BY <1>3, <2>1, <2>2 DEF IInv, Control, DaemonFits, OpFits
  <1>13. NamedInv'
    BY <1>2, <1>3, <1>10, <1>11 DEF IInv, NamedInv, q
  <1>14. AgeInv'
    <2>1. vouched'[q.uc.sub] <= q.now
      BY <1>3, <1>10, <1>11, Approved, <1>1 DEF LoginType, ConversationLimit
    <2> QED
      BY <1>3, <1>10, <2>1, Approved, StillVouched DEF AgeInv, q
  <1>15. UidInv'
    <2>1. SUFFICES ASSUME ~trouble'
                   PROVE  UidInv'
      BY DEF UidInv
    <2>2. ~trouble /\ ~(p.uc = None /\ OthersAllocate(l))
      BY <1>4, <2>1
    <2>3. Apart(q)
      <3>1. CASE p.uc = None
        BY <1>1, <1>2, <1>10, <1>11, <3>1, NewUid DEF u, Apart
      <3>2. CASE p.uc # None
        BY <1>1, <1>10, <1>11, <2>2, <3>2 DEF u, Apart, IInv, UidInv, Keeps, Distinct, p
      <3> QED
        BY <3>1, <3>2
    <2>4. /\ Allocating(q) => p.uc = None
          /\ p.uc = None => /\ ~Allocating(nss)
                            /\ \A k \in Logins : k # l => ~Allocating(login[k])
      <3>1. p.uc # None => Keeps(p.name, p.uc)
        BY <1>1, <2>2 DEF IInv, UidInv, p
      <3>2. Allocating(q) => p.uc = None
        BY <1>10, <1>11, <3>1 DEF u, Allocating, Keeps
      <3>3. Allocating(nss) => OthersAllocate(l)
        BY CacheAssumption DEF OthersAllocate
      <3>4. \A k \in Logins : k # l /\ Allocating(login[k]) => OthersAllocate(l)
        BY DEF OthersAllocate
      <3> QED
        BY <2>2, <3>2, <3>3, <3>4
    <2> QED
      BY <1>3, <1>10, <2>2, <2>3, <2>4 DEF IInv, UidInv, Distinct, Keeps, Apart, Allocating, q
  <1>16. ChainInv'
    <2>1. \A d \in Chains : Granted(q, d) <=> d = c
      BY <1>10, <1>11, FirstToken, Nulls DEF Granted, Of
    <2>2. /\ \A n \in Names : ~Uses(n, c)
          /\ ~Granted(cmd, c) /\ \A k \in Logins : ~Granted(login[k], c)
      BY <1>3, Approved, FreeChain DEF Uses, Granted
    <2>3. \A n \in Names, d \in Chains : Uses(n, d)' <=> Uses(n, d)
      BY <1>3 DEF Uses
    <2> QED
      BY <1>3, <1>10, <2>1, <2>2, <2>3 DEF IInv, ChainInv, Granted, q
  <1>17. SpentInv'
    <2>1. Unspent(login[l].uc.token)'
      BY <1>3, <1>11, Approved DEF q, Unspent
    <2>2. c \in FreeChains /\ \A d \in Chains : d # c => chain'[d] = chain[d]
      BY <1>3, Approved
    <2>3. /\ \A n \in Names : /\ users[n] # None /\ users[n].token # None
                                 => Stays(users[n].token)
                              /\ daemon.todo[n] # None => Stays(daemon.todo[n].token)
          /\ daemon.pc = "save" /\ daemon.uc.token # None => Stays(daemon.uc.token)
          /\ \A k \in Logins : login[k].pc = "save" => Stays(login[k].uc.token)
          /\ cmd.pc = "save" => Stays(cmd.uc.token)
      BY <2>2, OthersStay
    <2>4. ASSUME NEW k \in Logins, login'[k].pc = "save", ~trouble
          PROVE  Unspent(login[k].uc.token)'
      <3>1. CASE k = l
        BY <2>1, <3>1
      <3>2. CASE k # l
        BY <1>10, <2>3, <2>4, <3>2 DEF IInv, SpentInv, Stays, Unspent
      <3> QED
        BY <3>1, <3>2
    <2> QED
      BY <1>3, <1>4, <2>3, <2>4 DEF IInv, SpentInv, Stays, Unspent, Saving, Leaving
  <1>18. MarkInv'
    BY <1>3, <1>4 DEF IInv, MarkInv, Justified, Leaving
  <1> QED
    BY <1>12, <1>13, <1>14, <1>15, <1>16, <1>17, <1>18 DEF IInv

----------------------------------------------------------------------------
(* Writing an entry. *)

\* An entry that is written with the uid it had, or with a new one while no other
\* operation holds one, keeps uids apart.
LEMMA SaveUids ==
  ASSUME IInv, ~trouble, NEW n \in Names, NEW r \in Own,
         users' = [users EXCEPT ![n] = r],
         users[n] # None => users[n].uid = r.uid,
         r.uid \in Uids => \A m \in Names : m # n /\ users[m] # None => users[m].uid # r.uid
  PROVE  /\ Distinct'
         /\ \A m \in Names : \A x : Keeps(m, x) =>
               users'[m] # None /\ users'[m].uid = x.uid
         /\ \A o : o.name \in Names /\ o.pc = "save" /\ ~Allocating(o) =>
               users'[o.name] # None /\ users'[o.name].uid = o.uc.uid
         /\ \A o : o.name \in Names /\ Apart(o) /\ (users[n] = None => ~Allocating(o)) =>
               (o.pc = "save" /\ o.uc.uid \in Uids =>
                  \A m \in Names : m # o.name /\ users'[m] # None => users'[m].uid # o.uc.uid)
  <1>1. /\ users'[n] = r /\ r # None
        /\ \A m \in Names : m # n => users'[m] = users[m]
    BY OwnFields DEF IInv, Control, Typed
  <1>2. Distinct
    BY DEF IInv, UidInv
  <1>3. Distinct'
    BY <1>1, <1>2 DEF Distinct
  <1>4. \A m \in Names : \A x : Keeps(m, x) => users'[m] # None /\ users'[m].uid = x.uid
    BY <1>1 DEF Keeps
  <1>5. \A o : o.name \in Names /\ o.pc = "save" /\ ~Allocating(o) =>
               users'[o.name] # None /\ users'[o.name].uid = o.uc.uid
    BY <1>1 DEF Allocating
  <1>6. ASSUME NEW o, o.name \in Names, Apart(o), users[n] = None => ~Allocating(o),
               o.pc = "save", o.uc.uid \in Uids,
               NEW m \in Names, m # o.name, users'[m] # None
        PROVE  users'[m].uid # o.uc.uid
    <2>1. CASE m # n
      BY <1>1, <1>6, <2>1 DEF Apart
    <2>2. CASE m = n /\ users[n] # None
      BY <1>1, <1>6, <2>2 DEF Apart
    <2>3. CASE m = n /\ users[n] = None
      <3>1. users[o.name] # None /\ users[o.name].uid = o.uc.uid
        BY <1>6, <2>3 DEF Allocating
      <3> QED
        BY <1>1, <1>6, <2>3, <3>1
    <2> QED
      BY <2>1, <2>2, <2>3
  <1> QED
    BY <1>3, <1>4, <1>5, <1>6

LEMMA LoginSaveStep ==
  ASSUME IInv, NEW l \in Logins, LoginSave(l)
  PROVE  IInv'
  <1> DEFINE p == login[l]
             n == p.name
             r == [p.uc EXCEPT !.age = p.now]
  <1>1. /\ p.pc = "save" /\ n \in Names /\ p.uc \in Own /\ p.uc.token \in Token
        /\ ~p.uc.revoked /\ p.now \in 0..ConversationLimit
    <2>1. login[l].pc = "save"
      BY Zenon DEF LoginSave
    <2> QED
      BY <2>1, Nulls DEF IInv, Control, Typed, LoginFits, LoginType
  <1>2. p.now \in 0..Expired
    BY <1>1, Bounds
  <1>3. /\ r \in Own /\ r.sub = p.uc.sub /\ r.uid = p.uc.uid /\ r.token = p.uc.token
        /\ r.age = p.now /\ ~r.revoked /\ r # None
    BY <1>1, <1>2, DatedEntry, Nulls
  <1>4. users' = [users EXCEPT ![n] = r] /\ login' = [login EXCEPT ![l] = IdleLogin]
    BY DEF LoginSave
  <1>5. /\ UNCHANGED <<status, daemon, nss, cmd, broker, dir, named, enabled, device, vouched,
                       crashes>>
        /\ Collect /\ trouble' \in BOOLEAN
    BY DEF LoginSave, Disturb, admin
  <1>6. ~trouble' => ~trouble /\ ~Replaces(p)
    BY Zenon DEF LoginSave, Disturb
  <1>7. Granted(p, r.token.chain) /\ r.token.chain \in Chains
    BY <1>1, <1>3, Nulls DEF Granted, Of, Token
  <1> HIDE DEF r
  <1>8. /\ users' \in [Names -> Copy] /\ users'[n] = r
        /\ \A m \in Names : m # n => users'[m] = users[m]
    BY <1>1, <1>3, <1>4 DEF IInv, Control, Typed, Copy
  <1>9. /\ login'[l].pc = "idle" /\ login'[l].uc = None /\ LoginFits(login'[l])
        /\ login' \in [Logins -> LoginType]
        /\ \A k \in Logins : k # l => login'[k] = login[k]
    BY <1>4, IdleFits DEF IInv, Control, Typed
  <1> HIDE DEF n
  <1>10. Control'
    <2>1. Typed'
      BY <1>5, <1>8, <1>9, CollectTyped DEF IInv, Control, Typed
    <2>2. \A k \in Logins : LoginFits(login[k])'
      BY <1>9 DEF IInv, Control, LoginFits
    <2> QED
      BY <1>5, <2>1, <2>2 DEF IInv, Control, DaemonFits, OpFits
  <1>11. NamedInv'
    <2>1. named[r.sub] = n
      BY <1>1, <1>3, Nulls DEF IInv, NamedInv, n
    <2> QED
      BY <1>5, <1>8, <1>9, <2>1 DEF IInv, NamedInv
  <1>12. AgeInv'
    <2>1. vouched[r.sub] <= r.age
      BY <1>1, <1>3 DEF IInv, AgeInv
    <2> QED
      BY <1>5, <1>8, <1>9, <2>1 DEF IInv, AgeInv
  <1>13. UidInv'
    <2>1. SUFFICES ASSUME ~trouble'
                   PROVE  UidInv'
      BY DEF UidInv
    <2>2. ~trouble /\ (users[n] # None => users[n].uid = r.uid)
      BY <1>3, <1>6, <2>1 DEF Replaces, n
    <2>3. r.uid \in Uids => \A m \in Names : m # n /\ users[m] # None => users[m].uid # r.uid
      BY <1>1, <1>3, <2>2 DEF IInv, UidInv, Apart, n
    <2>4. users[n] = None => Allocating(p)
      BY <1>1 DEF Allocating, n
    <2>5. n \in Names
      BY <1>1 DEF n
    <2>6. /\ users[n] = None => ~Allocating(nss)
          /\ \A k \in Logins : k # l /\ users[n] = None => ~Allocating(login[k])
      BY <2>2, <2>4 DEF IInv, UidInv
    <2>7. /\ Distinct'
          /\ \A m \in Names : \A x : Keeps(m, x) => users'[m] # None /\ users'[m].uid = x.uid
          /\ \A o : o.name \in Names /\ o.pc = "save" /\ ~Allocating(o) =>
                users'[o.name] # None /\ users'[o.name].uid = o.uc.uid
          /\ \A o : o.name \in Names /\ Apart(o) /\ (users[n] = None => ~Allocating(o)) =>
                (o.pc = "save" /\ o.uc.uid \in Uids =>
                   \A m \in Names : m # o.name /\ users'[m] # None => users'[m].uid # o.uc.uid)
      BY <1>3, <1>4, <2>2, <2>3, <2>5, SaveUids DEF n
    <2>8. /\ nss.pc = "save" => nss.name \in Names
          /\ daemon.pc = "save" => daemon.name \in Names
          /\ \A k \in Logins : login[k].pc # "idle" => login[k].name \in Names
      BY DEF IInv, Control, OpFits, DaemonFits, LoginFits
    <2>9. \A k \in Logins : login'[k].pc # "idle" => login'[k] = login[k] /\ k # l
      BY <1>9
    <2>10. /\ nss.pc = "save" => Apart(nss)' /\ (~Allocating(nss) => ~Allocating(nss)')
           /\ nss.pc # "save" => Apart(nss)' /\ ~Allocating(nss)'
      BY <1>5, <2>2, <2>6, <2>7, <2>8 DEF IInv, UidInv, Apart, Allocating
    <2>11. ASSUME NEW k \in Logins
           PROVE  /\ Apart(login[k])'
                  /\ login'[k].pc \in {"prompt", "online"} /\ login'[k].uc # None
                     => Keeps(login[k].name, login[k].uc)'
                  /\ Allocating(login[k])' => Allocating(login[k]) /\ k # l
      <3>1. CASE login'[k].pc = "idle"
        BY <3>1 DEF Apart, Allocating
      <3>2. CASE login'[k].pc # "idle"
        <4>1. login'[k] = login[k] /\ k # l /\ login[k].name \in Names
          BY <2>8, <2>9, <3>2
        <4>2. Apart(login[k]) /\ (users[n] = None => ~Allocating(login[k]))
          BY <2>2, <2>6, <4>1 DEF IInv, UidInv
        <4>3. Apart(login[k])'
          BY <2>7, <4>1, <4>2 DEF Apart
        <4>4. Allocating(login[k])' => Allocating(login[k])
          BY <2>7, <4>1 DEF Allocating
        <4>5. login'[k].pc \in {"prompt", "online"} /\ login'[k].uc # None
                     => Keeps(login[k].name, login[k].uc)'
          BY <2>2, <2>7, <4>1 DEF IInv, UidInv, Keeps
        <4> QED
          BY <4>1, <4>3, <4>4, <4>5
      <3> QED
        BY <3>1, <3>2
    <2>12. /\ \A m \in Names : daemon'.todo[m] # None => Keeps(m, daemon.todo[m])'
           /\ daemon'.pc = "save" => Keeps(daemon.name, daemon.uc)'
      BY <1>5, <2>2, <2>7, <2>8 DEF IInv, UidInv, Keeps
    <2>13. /\ \A k \in Logins : ~(Allocating(login[k])' /\ Allocating(nss)')
           /\ \A j, k \in Logins : j # k => ~(Allocating(login[j])' /\ Allocating(login[k])')
      BY <2>2, <2>10, <2>11 DEF IInv, UidInv
    <2> QED
      BY <2>7, <2>10, <2>11, <2>12, <2>13 DEF UidInv
  <1>14. ChainInv'
    <2>1. \A m \in Names, d \in Chains :
             Uses(m, d)' => Uses(m, d) \/ (m = n /\ d = r.token.chain)
      BY <1>5, <1>8 DEF Uses, Of
    <2>2. \A k \in Logins, d \in Chains : Granted(login[k], d)' => Granted(login[k], d) /\ k # l
      BY <1>9 DEF Granted
    <2>3. \A d \in Chains : Granted(cmd, d)' <=> Granted(cmd, d)
      BY <1>5 DEF Granted
    <2> QED
      BY <1>7, <2>1, <2>2, <2>3 DEF IInv, ChainInv
  <1>15. SpentInv'
    <2>1. ~trouble => Unspent(r.token)
      BY <1>1, <1>3 DEF IInv, SpentInv
    <2> QED
      BY <1>5, <1>6, <1>8, <1>9, <1>10, <2>1, GrantsStay
      DEF IInv, SpentInv, Stays, Unspent, Saving, Leaving
  <1>16. MarkInv'
    BY <1>3, <1>5, <1>6, <1>8 DEF IInv, MarkInv, Justified, Leaving
  <1> QED
    BY <1>10, <1>11, <1>12, <1>13, <1>14, <1>15, <1>16 DEF IInv

----------------------------------------------------------------------------
(* The steps of the daemon. *)

LEMMA RenewStep ==
  ASSUME IInv, RenewHeard
  PROVE  IInv'
  <1> DEFINE d == daemon'
  <1>1. /\ UNCHANGED <<users, login, nss, cmd, broker, dir, named, enabled, device, chain,
                       vouched, crashes, trouble>>
        /\ status' = device /\ daemon.pc = "idle"
    BY DEF RenewHeard, server, admin, Quietly
  <1>2. \/ d = daemon
        \/ /\ d.pc = "users" /\ d \in DaemonType
           /\ \A n \in Names : d.todo[n] # None =>
                 /\ d.todo[n] = users[n] /\ users[n] # None /\ users[n].token # None
                 /\ ~users[n].revoked
    <2>1. Listed \in [Names -> Copy]
      BY DEF Listed, IInv, Control, Typed, Copy
    <2>2. \A n \in Names : Listed[n] # None =>
             /\ Listed[n] = users[n] /\ users[n] # None /\ users[n].token # None
             /\ ~users[n].revoked
      BY DEF Listed
    <2>3. d = daemon \/ d = [IdleDaemon EXCEPT !.pc = "users", !.todo = Listed]
      BY Zenon DEF RenewHeard
    <2> HIDE DEF d
    <2>4. d # daemon => /\ d.pc = "users" /\ d.name = None /\ d.uc = None /\ d.todo = Listed
                        /\ d \in DaemonType
      BY <2>1, <2>3 DEF IdleDaemon, DaemonType, Copy, Name
    <2> QED
      BY <2>2, <2>4
  <1>3. CASE d = daemon
    <2>1. Control'
      BY <1>1, <1>3 DEF IInv, Control, Typed, LoginFits, DaemonFits, OpFits
    <2>2. NamedInv' /\ AgeInv' /\ ChainInv' /\ MarkInv'
      BY <1>1, <1>3 DEF IInv, NamedInv, AgeInv, ChainInv, Uses, Granted, MarkInv, Justified, Leaving
    <2>3. UidInv' /\ SpentInv'
      BY <1>1, <1>3 DEF IInv, UidInv, Distinct, Keeps, Apart, Allocating, SpentInv, Unspent,
         Saving, Leaving
    <2> QED
      BY <2>1, <2>2, <2>3 DEF IInv
  <1>4. CASE d # daemon
    <2>1. /\ d.pc = "users" /\ d \in DaemonType
          /\ \A n \in Names : d.todo[n] # None =>
                 /\ d.todo[n] = users[n] /\ users[n] # None /\ users[n].token # None
                 /\ ~users[n].revoked
      BY <1>2, <1>4
    <2>2. \A n \in Names : users[n] # None /\ users[n].token # None => users[n].token \in Token
      BY OwnFields DEF IInv, Control, Typed, Copy
    <2> HIDE DEF d
    <2>3. Control'
      <3>1. Typed'
        BY <1>1, <2>1 DEF IInv, Control, Typed, d
      <3>2. DaemonFits'
        BY <2>1, <2>2 DEF DaemonFits, d
      <3> QED
        BY <1>1, <3>1, <3>2 DEF IInv, Control, LoginFits, OpFits
    <2>4. NamedInv' /\ AgeInv'
      BY <1>1, <2>1 DEF IInv, NamedInv, AgeInv, d
    <2>5. UidInv'
      BY <1>1, <2>1 DEF IInv, UidInv, Distinct, Keeps, Apart, Allocating, d
    <2>6. ChainInv'
      <3>1. \A n \in Names, c \in Chains : Uses(n, c)' => Uses(n, c)
        BY <1>1, <2>1 DEF Uses, Of, d
      <3> QED
        BY <1>1, <3>1 DEF IInv, ChainInv, Granted
    <2>7. SpentInv' /\ MarkInv'
      BY <1>1, <2>1 DEF IInv, SpentInv, MarkInv, Unspent, Justified, Saving, Leaving, d
    <2> QED
      BY <2>3, <2>4, <2>5, <2>6, <2>7 DEF IInv
  <1> QED
    BY <1>3, <1>4

\* The entry that is due.
LEMMA DueEntry ==
  ASSUME IInv, NEW n \in Names, Due(n)
  PROVE  /\ daemon.todo[n] \in Own /\ daemon.todo[n].token \in Token /\ ~daemon.todo[n].revoked
         /\ daemon.todo[n].token.chain \in Chains /\ daemon.todo[n].token.gen \in Nat
         /\ daemon.todo[n].sub \in Subs /\ Uses(n, daemon.todo[n].token.chain)
  <1>1. daemon.todo[n] \in Own /\ daemon.todo[n].token \in Token /\ ~daemon.todo[n].revoked
    BY DEF Due, IInv, Control, Typed, DaemonType, Copy, DaemonFits
  <1> QED
    BY <1>1, OwnFields, Nulls, Bounds DEF Token, Uses, Of

\* What a refresh does to the server's chains.
LEMMA RedeemedTyped ==
  ASSUME IInv, NEW n \in Names, Due(n), MayRotate(daemon.todo[n])
  PROVE  /\ Redeemed(daemon.todo[n]) \in [Chains -> [gen : 0..MaxGen, dead : BOOLEAN]]
         /\ \A d \in Chains : d # daemon.todo[n].token.chain =>
               Redeemed(daemon.todo[n])[d] = chain[d]
         /\ Exchanges(daemon.todo[n]) =>
               /\ daemon.todo[n].token.gen < MaxGen
               /\ ~Redeemed(daemon.todo[n])[daemon.todo[n].token.chain].dead
               /\ Redeemed(daemon.todo[n])[daemon.todo[n].token.chain].gen
                    = daemon.todo[n].token.gen + 1
  <1> DEFINE r == daemon.todo[n]
             c == r.token.chain
  <1>1. c \in Chains /\ r.token.gen \in Nat
    BY DueEntry
  <1>2. chain \in [Chains -> [gen : 0..MaxGen, dead : BOOLEAN]]
    BY DEF IInv, Control, Typed
  <1>3. Exchanges(r) => ~chain[c].dead /\ r.token.gen = chain[c].gen /\ r.token.gen < MaxGen
    BY DEF Exchanges, Unspent, MayRotate
  <1>4. \/ Exchanges(r) /\ Redeemed(r) = [chain EXCEPT ![c].gen = @ + 1]
        \/ ~Exchanges(r) /\ Redeemed(r) = [chain EXCEPT ![c].dead = TRUE]
        \/ ~Exchanges(r) /\ Redeemed(r) = chain
    <2>1. Exchanges(r) => Unspent(r.token)
      BY DEF Exchanges
    <2> QED
      BY <2>1, Zenon DEF Redeemed
  <1> HIDE DEF r, c
  <1>5. CASE Exchanges(r) /\ Redeemed(r) = [chain EXCEPT ![c].gen = @ + 1]
    <2> DEFINE e == [chain[c] EXCEPT !.gen = @ + 1]
    <2>1. /\ e \in [gen : 0..MaxGen, dead : BOOLEAN]
          /\ e.gen = chain[c].gen + 1 /\ e.dead = chain[c].dead
      BY <1>1, <1>2, <1>3, <1>5, Bounds
    <2>2. Redeemed(r) = [chain EXCEPT ![c] = e]
      BY <1>1, <1>2, <1>5
    <2> HIDE DEF e
    <2>3. /\ Redeemed(r) \in [Chains -> [gen : 0..MaxGen, dead : BOOLEAN]]
          /\ Redeemed(r)[c] = e /\ \A d \in Chains : d # c => Redeemed(r)[d] = chain[d]
      BY <1>1, <1>2, <2>1, <2>2
    <2>4. ~e.dead /\ e.gen = r.token.gen + 1 /\ r.token.gen < MaxGen
      BY <1>3, <1>5, <2>1
    <2> QED
      BY <2>3, <2>4 DEF r, c
  <1>6. CASE ~Exchanges(r) /\ Redeemed(r) = [chain EXCEPT ![c].dead = TRUE]
    BY <1>1, <1>2, <1>6 DEF r, c
  <1>7. CASE ~Exchanges(r) /\ Redeemed(r) = chain
    BY <1>2, <1>7 DEF r
  <1> QED
    BY <1>4, <1>5, <1>6, <1>7

LEMMA Turned ==
  ASSUME IInv, NEW n \in Names, NEW x \in Copy, RefreshTurn(n, x)
  PROVE  /\ daemon' \in DaemonType /\ daemon'.pc = "save" /\ daemon'.name = n /\ daemon'.uc = x
         /\ daemon'.todo[n] = None
         /\ \A m \in Names : m # n => daemon'.todo[m] = daemon.todo[m]
  <1> DEFINE d1 == [daemon EXCEPT !.pc = "save"]
             d2 == [d1 EXCEPT !.name = n]
             d3 == [d2 EXCEPT !.uc = x]
             t == [daemon.todo EXCEPT ![n] = None]
  <1>1. daemon \in DaemonType
    BY DEF IInv, Control, Typed
  <1>2. daemon' = [d3 EXCEPT !.todo[n] = None]
    BY Zenon DEF RefreshTurn
  <1>3. d1 \in DaemonType /\ d1.pc = "save" /\ d1.todo = daemon.todo
    BY <1>1 DEF DaemonType
  <1> HIDE DEF d1
  <1>4. d2 \in DaemonType /\ d2.pc = "save" /\ d2.name = n /\ d2.todo = daemon.todo
    BY <1>3 DEF DaemonType, Name
  <1> HIDE DEF d2
  <1>5. /\ d3 \in DaemonType /\ d3.pc = "save" /\ d3.name = n /\ d3.uc = x
        /\ d3.todo = daemon.todo
    BY <1>4 DEF DaemonType
  <1> HIDE DEF d3
  <1>6. /\ t \in [Names -> Copy] /\ t[n] = None
        /\ \A m \in Names : m # n => t[m] = daemon.todo[m]
    BY <1>1 DEF DaemonType, Copy
  <1>7. daemon' = [d3 EXCEPT !.todo = t]
    BY <1>2, <1>5
  <1> HIDE DEF t
  <1>8. /\ daemon' \in DaemonType /\ daemon'.pc = "save" /\ daemon'.name = n
        /\ daemon'.uc = x /\ daemon'.todo = t
    BY <1>5, <1>6, <1>7 DEF DaemonType
  <1> QED
    BY <1>6, <1>8

\* The daemon takes up the entry of n: the copy x replaces the one that was due.
LEMMA TurnStep ==
  ASSUME IInv, NEW n \in Names, Due(n), NEW x \in Own, RefreshTurn(n, x), daemon.pc = "users",
         x.sub = daemon.todo[n].sub, x.uid = daemon.todo[n].uid,
         x.token = None \/ x.token.chain = daemon.todo[n].token.chain,
         UNCHANGED <<users, status, login, nss, cmd, broker, dir, named, enabled, device,
                     crashes>>,
         chain' \in [Chains -> [gen : 0..MaxGen, dead : BOOLEAN]],
         vouched' \in [Subs -> 0..Expired], \A y \in Subs : vouched'[y] <= vouched[y],
         vouched'[x.sub] <= x.age,
         trouble' \in BOOLEAN, ~trouble' => ~trouble
  PROVE  Control' /\ NamedInv' /\ AgeInv' /\ UidInv' /\ ChainInv'
  <1>1. x \in Copy /\ x # None
    BY OwnFields DEF Copy
  <1>2. /\ daemon' \in DaemonType /\ daemon'.pc = "save" /\ daemon'.name = n /\ daemon'.uc = x
        /\ daemon'.todo[n] = None
        /\ \A m \in Names : m # n => daemon'.todo[m] = daemon.todo[m]
    BY <1>1, Turned
  <1>3. daemon.todo[n] # None /\ Uses(n, daemon.todo[n].token.chain)
    BY DueEntry DEF Due
  <1>4. Control'
    <2>1. Typed'
      BY <1>2 DEF IInv, Control, Typed
    <2>2. DaemonFits'
      BY <1>2 DEF IInv, Control, DaemonFits
    <2> QED
      BY <2>1, <2>2 DEF IInv, Control, LoginFits, OpFits
  <1>5. NamedInv'
    BY <1>2, <1>3 DEF IInv, NamedInv
  <1>6. AgeInv'
    BY <1>2, <1>3, StillVouched DEF AgeInv
  <1>7. UidInv'
    BY <1>2, <1>3 DEF IInv, UidInv, Distinct, Keeps, Apart, Allocating
  <1>8. ChainInv'
    <2>1. \A m \in Names, c \in Chains : Uses(m, c)' => Uses(m, c)
      BY <1>1, <1>2, <1>3 DEF Uses, Of
    <2> QED
      BY <2>1 DEF IInv, ChainInv, Granted
  <1> QED
    BY <1>4, <1>5, <1>6, <1>7, <1>8

LEMMA RefreshHeardStep ==
  ASSUME IInv, NEW n \in Names, RefreshHeard(n)
  PROVE  IInv'
  <1> DEFINE r == daemon.todo[n]
             c == r.token.chain
             x == IF Exchanges(r) THEN Trusted(r) ELSE Refused(r)
  <1>1. /\ daemon.pc = "users" /\ Due(n) /\ MayRotate(r) /\ chain' = Redeemed(r)
        /\ RefreshTurn(n, x)
        /\ vouched' = IF Exchanges(r) THEN [vouched EXCEPT ![r.sub] = 0] ELSE vouched
        /\ UNCHANGED <<users, status, login, nss, cmd, broker, dir, named, enabled, device,
                       crashes, trouble>>
    BY Zenon DEF RefreshHeard, admin, Quietly
  <1>2. /\ r \in Own /\ r.token \in Token /\ ~r.revoked /\ c \in Chains /\ r.token.gen \in Nat
        /\ r.sub \in Subs /\ Uses(n, c) /\ r # None
    BY <1>1, DueEntry, OwnFields
  <1>3. /\ chain' \in [Chains -> [gen : 0..MaxGen, dead : BOOLEAN]]
        /\ \A d \in Chains : d # c => chain'[d] = chain[d]
        /\ Exchanges(r) => /\ r.token.gen < MaxGen
                           /\ ~chain'[c].dead /\ chain'[c].gen = r.token.gen + 1
    BY <1>1, RedeemedTyped
  <1>4. /\ x \in Own /\ x.sub = r.sub /\ x.uid = r.uid /\ x # None
        /\ x.token = None \/ x.token.chain = c
        /\ Exchanges(r) => /\ x.age = 0 /\ ~x.revoked /\ x.token # None
                           /\ x.token.chain = c /\ x.token.gen = r.token.gen + 1
        /\ ~Exchanges(r) => x.token = None /\ x.age = r.age
    BY <1>2, <1>3, TrustedEntry, RefusedEntry, OwnFields, Nulls
  <1> HIDE DEF x, r, c
  <1>5. vouched \in [Subs -> 0..Expired]
    BY DEF IInv, Control, Typed
  <1>6. /\ vouched' \in [Subs -> 0..Expired] /\ \A y \in Subs : vouched'[y] <= vouched[y]
        /\ Exchanges(r) => vouched'[r.sub] = 0
        /\ ~Exchanges(r) => vouched' = vouched
    BY <1>1, <1>2, <1>5, Bounds
  <1>7. vouched'[x.sub] <= x.age
    BY <1>1, <1>2, <1>4, <1>6 DEF IInv, AgeInv, r
  <1>8. trouble' \in BOOLEAN
    BY <1>1 DEF IInv, Control, Typed
  <1>9. Control' /\ NamedInv' /\ AgeInv' /\ UidInv' /\ ChainInv'
    BY <1>1, <1>3, <1>4, <1>6, <1>7, <1>8, TurnStep DEF r, c
  <1>10. /\ daemon'.pc = "save" /\ daemon'.name = n /\ daemon'.uc = x
         /\ daemon'.todo[n] = None
         /\ \A m \in Names : m # n => daemon'.todo[m] = daemon.todo[m]
    BY <1>1, <1>4, Turned DEF Copy
  <1>11. SpentInv'
    <2>1. \A t \in Token : t.chain # c /\ Unspent(t) => Unspent(t)'
      BY <1>3 DEF Unspent, Token
    <2>2. ASSUME NEW m \in Names, m # n
          PROVE  /\ users[m] # None /\ users[m].token # None =>
                      users[m].token \in Token /\ users[m].token.chain # c
                 /\ daemon.todo[m] # None =>
                      daemon.todo[m].token \in Token /\ daemon.todo[m].token.chain # c
      <3>1. ~Uses(m, c)
        BY <1>2, <2>2 DEF IInv, ChainInv
      <3>2. users[m] \in Copy /\ daemon.todo[m] \in Copy
        BY DEF IInv, Control, Typed, DaemonType
      <3>3. daemon.todo[m] # None => daemon.todo[m].token \in Token
        BY DEF IInv, Control, DaemonFits
      <3> QED
        BY <3>1, <3>2, <3>3, OwnFields, Nulls DEF Copy, Uses, Of
    <2>3. \A l \in Logins : login[l].pc = "save" =>
             login[l].uc.token \in Token /\ login[l].uc.token.chain # c
      <3>1. \A l \in Logins : ~Granted(login[l], c)
        BY <1>2 DEF IInv, ChainInv
      <3> QED
        BY <3>1, Nulls DEF Granted, Of, IInv, Control, LoginFits
    <2>4. cmd.pc = "save" => cmd.uc.token \in Token /\ cmd.uc.token.chain # c
      <3>1. ~Granted(cmd, c)
        BY <1>2 DEF IInv, ChainInv
      <3> QED
        BY <3>1, Nulls DEF Granted, Of, IInv, Control, OpFits
    <2>5. x.token # None => ~chain'[x.token.chain].dead /\ x.token.gen = chain'[x.token.chain].gen
      BY <1>3, <1>4
    <2>6. SUFFICES ASSUME ~trouble'
                   PROVE  SpentInv'
      BY DEF SpentInv
    <2>7. SpentInv /\ ~trouble
      BY <1>1, <2>6 DEF IInv
    <2>8. ASSUME NEW m \in Names
          PROVE  /\ users'[m] # None /\ users'[m].token # None =>
                       Unspent(users[m].token)' \/ Saving(m)' \/ Leaving(m)'
                 /\ daemon'.todo[m] # None => Unspent(daemon.todo[m].token)' \/ Leaving(m)'
      <3>1. CASE m = n
        BY <1>10, <3>1 DEF Saving
      <3>2. CASE m # n
        BY <1>1, <1>3, <1>10, <2>2, <2>7, <3>2 DEF SpentInv, Unspent, Saving, Leaving, Token
      <3> QED
        BY <3>1, <3>2
    <2>9. daemon'.uc.token # None => Unspent(daemon.uc.token)'
      BY <1>10, <2>5 DEF Unspent
    <2>10. /\ \A l \in Logins : login'[l].pc = "save" => Unspent(login[l].uc.token)'
           /\ cmd'.pc = "save" => Unspent(cmd.uc.token)'
      BY <1>1, <1>3, <2>3, <2>4, <2>7 DEF SpentInv, Unspent, Token
    <2> QED
      BY <2>8, <2>9, <2>10 DEF SpentInv
  <1>12. MarkInv'
    <2>1. SUFFICES ASSUME ~trouble'
                   PROVE  MarkInv'
      BY DEF MarkInv
    <2>2. MarkInv /\ SpentInv /\ ~trouble
      BY <1>1, <2>1 DEF IInv
    <2>3. x.revoked => Justified(n, x.sub)
      <3>1. Unspent(r.token) \/ Leaving(n)
        BY <1>2, <2>2 DEF SpentInv, r
      <3>2. x.revoked => ~Honours(r.sub) \/ ~Unspent(r.token)
        BY <1>4 DEF Exchanges
      <3>3. device \in {"active", "revoked"}
        BY DEF IInv, Control, Typed
      <3> QED
        BY <1>4, <3>1, <3>2, <3>3 DEF Justified, Honours
    <2> QED
      BY <1>1, <1>10, <2>2, <2>3 DEF MarkInv, Justified, Leaving
  <1> QED
    BY <1>9, <1>11, <1>12 DEF IInv

LEMMA RefreshGarbledStep ==
  ASSUME IInv, NEW n \in Names, RefreshGarbled(n)
  PROVE  IInv'
  <1> DEFINE r == daemon.todo[n]
             x == Refused(r)
  <1>1. /\ daemon.pc = "users" /\ Due(n) /\ RefreshTurn(n, x)
        /\ UNCHANGED <<users, status, login, nss, cmd, broker, dir, named, enabled, device,
                       chain, vouched, crashes>>
    BY Zenon DEF RefreshGarbled, server, admin, Disturb
  <1>2. trouble' = TRUE
    BY DEF RefreshGarbled, Disturb
  <1>3. r \in Own /\ r # None
    BY <1>1, DueEntry, OwnFields
  <1>4. x \in Own /\ x.sub = r.sub /\ x.uid = r.uid /\ x.token = None /\ x.age = r.age
    BY <1>3, RefusedEntry
  <1> HIDE DEF x
  <1>5. vouched[x.sub] <= x.age
    BY <1>3, <1>4 DEF IInv, AgeInv
  <1>6. /\ chain' \in [Chains -> [gen : 0..MaxGen, dead : BOOLEAN]]
        /\ vouched' \in [Subs -> 0..Expired] /\ \A y \in Subs : vouched'[y] <= vouched[y]
    BY <1>1, Bounds DEF IInv, Control, Typed
  <1>7. Control' /\ NamedInv' /\ AgeInv' /\ UidInv' /\ ChainInv'
    BY <1>1, <1>2, <1>4, <1>5, <1>6, TurnStep
  <1> QED
    BY <1>2, <1>7 DEF IInv, SpentInv, MarkInv

\* The entry of n is passed over.
LEMMA RefreshLostStep ==
  ASSUME IInv, NEW n \in Names, NEW reached \in BOOLEAN, RefreshLost(n, reached)
  PROVE  IInv'
  <1> DEFINE t == [daemon.todo EXCEPT ![n] = None]
  <1>1. /\ daemon.pc = "users" /\ Due(n)
        /\ UNCHANGED <<users, status, login, nss, cmd, broker, dir, named, enabled, device,
                       vouched, crashes>>
        /\ daemon' = [daemon EXCEPT !.todo[n] = None]
        /\ trouble' \in BOOLEAN
    BY DEF RefreshLost, admin, Disturb
  <1>2. ~trouble' => ~trouble /\ ~reached
    BY Zenon DEF RefreshLost, Disturb
  <1>3. /\ chain' = chain \/ (MayRotate(daemon.todo[n]) /\ chain' = Redeemed(daemon.todo[n]))
        /\ ~reached => chain' = chain
    BY Zenon DEF RefreshLost
  <1>4. chain' \in [Chains -> [gen : 0..MaxGen, dead : BOOLEAN]]
    BY <1>1, <1>3, RedeemedTyped DEF IInv, Control, Typed
  <1>5. daemon \in DaemonType
    BY DEF IInv, Control, Typed
  <1>6. /\ t \in [Names -> Copy] /\ t[n] = None
        /\ \A m \in Names : m # n => t[m] = daemon.todo[m]
    BY <1>5 DEF DaemonType, Copy
  <1>7. daemon' = [daemon EXCEPT !.todo = t]
    BY <1>1, <1>5
  <1> HIDE DEF t
  <1>8. /\ daemon' \in DaemonType /\ daemon'.pc = "users" /\ daemon'.todo = t
    BY <1>1, <1>5, <1>6, <1>7 DEF DaemonType
  <1>9. Control'
    <2>1. Typed'
      BY <1>1, <1>4, <1>8 DEF IInv, Control, Typed
    <2>2. DaemonFits'
      BY <1>6, <1>8 DEF IInv, Control, DaemonFits
    <2> QED
      BY <1>1, <2>1, <2>2 DEF IInv, Control, LoginFits, OpFits
  <1>10. NamedInv' /\ AgeInv'
    BY <1>1, <1>6, <1>8 DEF IInv, NamedInv, AgeInv
  <1>11. UidInv'
    BY <1>1, <1>2, <1>6, <1>8 DEF IInv, UidInv, Distinct, Keeps, Apart, Allocating
  <1>12. ChainInv'
    <2>1. \A m \in Names, c \in Chains : Uses(m, c)' => Uses(m, c)
      BY <1>1, <1>6, <1>8 DEF Uses, Of
    <2> QED
      BY <1>1, <2>1 DEF IInv, ChainInv, Granted
  <1>13. SpentInv' /\ MarkInv'
    BY <1>1, <1>2, <1>3, <1>6, <1>8
    DEF IInv, SpentInv, MarkInv, Unspent, Justified, Saving, Leaving
  <1> QED
    BY <1>9, <1>10, <1>11, <1>12, <1>13 DEF IInv

LEMMA RefreshSaveStep ==
  ASSUME IInv, RefreshSave
  PROVE  IInv'
  <1> DEFINE n == daemon.name
             r == daemon.uc
  <1>1. /\ daemon.pc = "save" /\ n \in Names /\ r \in Own /\ r # None
        /\ users' = [users EXCEPT ![n] = r]
        /\ daemon' = [daemon EXCEPT !.pc = "users", !.name = None, !.uc = None]
        /\ UNCHANGED <<status, login, nss, cmd, broker, dir, named, enabled, device, vouched,
                       crashes, trouble>>
        /\ Collect
    BY Nulls DEF RefreshSave, admin, Quietly, IInv, Control, DaemonFits
  <1>2. /\ daemon' \in DaemonType /\ daemon'.pc = "users" /\ daemon'.todo = daemon.todo
    <2> DEFINE d1 == [daemon EXCEPT !.pc = "users"]
    <2>1. daemon \in DaemonType
      BY DEF IInv, Control, Typed
    <2>2. d1 \in DaemonType /\ d1.pc = "users" /\ d1.todo = daemon.todo
      BY <2>1 DEF DaemonType
    <2>3. daemon' = [d1 EXCEPT !.name = None, !.uc = None]
      BY <1>1
    <2> HIDE DEF d1
    <2> QED
      BY <2>2, <2>3 DEF DaemonType, Name, Copy
  <1>3. /\ users' \in [Names -> Copy] /\ users'[n] = r
        /\ \A m \in Names : m # n => users'[m] = users[m]
    BY <1>1 DEF IInv, Control, Typed, Copy
  <1>4. Control'
    <2>1. Typed'
      BY <1>1, <1>2, <1>3, CollectTyped DEF IInv, Control, Typed
    <2>2. DaemonFits'
      BY <1>2 DEF IInv, Control, DaemonFits
    <2> QED
      BY <1>1, <2>1, <2>2 DEF IInv, Control, LoginFits, OpFits
  <1>5. NamedInv' /\ AgeInv'
    BY <1>1, <1>2, <1>3 DEF IInv, NamedInv, AgeInv
  <1>6. UidInv'
    <2>1. ~trouble => users[n] # None /\ users[n].uid = r.uid
      BY <1>1 DEF IInv, UidInv, Keeps
    <2>2. ~trouble => \A m \in Names : /\ users'[m] # None <=> users[m] # None
                                       /\ users[m] # None => users'[m].uid = users[m].uid
      BY <1>1, <1>3, <2>1
    <2>3. /\ nss.pc = "save" => nss.name \in Names
          /\ \A k \in Logins : login[k].pc # "idle" => login[k].name \in Names
      BY DEF IInv, Control, OpFits, LoginFits
    <2> QED
      BY <1>1, <1>2, <2>2, <2>3 DEF IInv, UidInv, Distinct, Keeps, Apart, Allocating
  <1>7. ChainInv'
    <2>1. \A m \in Names, c \in Chains : Uses(m, c)' => Uses(m, c)
      BY <1>1, <1>2, <1>3 DEF Uses, Of
    <2> QED
      BY <1>1, <2>1 DEF IInv, ChainInv, Granted
  <1>8. SpentInv'
    BY <1>1, <1>2, <1>3, <1>4, GrantsStay DEF IInv, SpentInv, Stays, Unspent, Saving, Leaving
  <1>9. MarkInv'
    BY <1>1, <1>2, <1>3 DEF IInv, MarkInv, Justified, Leaving
  <1> QED
    BY <1>4, <1>5, <1>6, <1>7, <1>8, <1>9 DEF IInv

LEMMA RefreshDoneStep ==
  ASSUME IInv, RefreshDone
  PROVE  IInv'
  <1>1. /\ daemon.pc = "users" /\ daemon' = IdleDaemon
        /\ UNCHANGED <<users, status, login, nss, cmd, broker, dir, named, enabled, device,
                       vouched, crashes, trouble>>
        /\ Collect
    BY DEF RefreshDone, admin, Quietly
  <1>2. /\ daemon' \in DaemonType /\ daemon'.pc = "idle"
        /\ \A m \in Names : daemon'.todo[m] = None
    BY <1>1, IdleFits
  <1>3. Control'
    <2>1. Typed'
      BY <1>1, <1>2, CollectTyped DEF IInv, Control, Typed
    <2>2. DaemonFits'
      BY <1>1, <1>2, Zenon DEF DaemonFits, IdleDaemon
    <2> QED
      BY <1>1, <2>1, <2>2 DEF IInv, Control, LoginFits, OpFits
  <1>4. NamedInv' /\ AgeInv'
    BY <1>1, <1>2 DEF IInv, NamedInv, AgeInv
  <1>5. UidInv'
    BY <1>1, <1>2 DEF IInv, UidInv, Distinct, Keeps, Apart, Allocating
  <1>6. ChainInv'
    <2>1. \A m \in Names, c \in Chains : Uses(m, c)' => Uses(m, c)
      BY <1>1, <1>2 DEF Uses, Of
    <2> QED
      BY <1>1, <2>1 DEF IInv, ChainInv, Granted
  <1>7. SpentInv'
    BY <1>1, <1>2, <1>3, GrantsStay DEF IInv, SpentInv, Stays, Unspent, Saving, Leaving
  <1>8. MarkInv'
    BY <1>1, <1>2 DEF IInv, MarkInv, Justified, Leaving
  <1> QED
    BY <1>3, <1>4, <1>5, <1>6, <1>7, <1>8 DEF IInv

----------------------------------------------------------------------------
(* The steps of a name lookup and of the broker. *)

\* A lookup that has no uid yet, or has ended.
LEMMA NSSMoves ==
  ASSUME IInv, nss' \in NSSType, nss'.pc # "idle" => nss'.name \in Names, nss'.pc # "save",
         UNCHANGED <<users, status, login, daemon, cmd, broker, dir, named, enabled, device,
                     chain, vouched, crashes, trouble>>
  PROVE  IInv'
  <1>1. Control'
    <2>1. Typed'
      BY DEF IInv, Control, Typed
    <2> QED
      BY <2>1 DEF IInv, Control, LoginFits, DaemonFits, OpFits
  <1>2. NamedInv' /\ AgeInv'
    BY DEF IInv, NamedInv, AgeInv
  <1>3. UidInv'
    BY DEF IInv, UidInv, Distinct, Keeps, Apart, Allocating
  <1>4. ChainInv' /\ SpentInv' /\ MarkInv'
    BY DEF IInv, ChainInv, Uses, Granted, SpentInv, MarkInv, Unspent, Justified, Saving, Leaving
  <1> QED
    BY <1>1, <1>2, <1>3, <1>4 DEF IInv

LEMMA LookupStep ==
  ASSUME IInv, (\E n \in Names : lookupIdentityOnline(n)) \/ LookupFails
  PROVE  IInv'
  <1>1. UNCHANGED <<users, status, login, daemon, cmd, broker, dir, named, enabled, device,
                    chain, vouched, crashes, trouble>>
    BY DEF lookupIdentityOnline, LookupFails, server, admin, Quietly
  <1>2. /\ nss' \in NSSType /\ nss'.pc # "save"
        /\ nss'.pc # "idle" => nss'.name \in Names
    <2>1. CASE LookupFails
      BY <2>1, IdleFits DEF LookupFails
    <2>2. CASE \E n \in Names : lookupIdentityOnline(n)
      BY <2>2 DEF lookupIdentityOnline, NSSType, Name, Copy
    <2> QED
      BY <2>1, <2>2
  <1> QED
    BY <1>1, <1>2, NSSMoves

LEMMA LookupAnsweredStep ==
  ASSUME IInv, LookupAnswered
  PROVE  IInv'
  <1> DEFINE n == nss.name
             s == dir[nss.name]
             u == allocateUID(users, s)
             r == Blank(s, u)
  <1>1. /\ nss.pc = "lookup" /\ FreeUids(users, s) # {}
        /\ nss' = [nss EXCEPT !.pc = "save", !.uc = r]
        /\ UNCHANGED <<users, status, login, daemon, cmd, broker, dir, named, enabled, device,
                       chain, vouched, crashes>>
        /\ trouble' \in BOOLEAN
    BY DEF LookupAnswered, Disturb, server, admin
  <1>2. ~trouble' => ~trouble /\ ~OthersAllocate("nss")
    BY Zenon DEF LookupAnswered, Disturb
  <1>3. n \in Names /\ nss \in NSSType
    BY <1>1 DEF IInv, Control, Typed, OpFits
  <1>4. s \in Subs /\ named[s] = n
    BY <1>3 DEF IInv, Control, Typed, NamedInv
  <1>5. /\ u \in Uids
        /\ \A m \in Names : m # n /\ users[m] # None => users[m].uid # u
    BY <1>1, <1>3, <1>4, NewUid
  <1> HIDE DEF u
  <1>6. /\ r \in Own /\ r.sub = s /\ r.uid = u /\ r.token = None /\ ~r.revoked /\ r # None
        /\ r.age = Expired
    BY <1>4, <1>5, BlankEntry, Nulls
  <1> HIDE DEF r
  <1>7. nss' \in NSSType /\ nss'.pc = "save" /\ nss'.name = n /\ nss'.uc = r
    BY <1>1, <1>3, <1>6 DEF NSSType, Copy
  <1> HIDE DEF s, n
  <1>8. Control'
    <2>1. Typed'
      BY <1>1, <1>7 DEF IInv, Control, Typed
    <2>2. OpFits'
      BY <1>1, <1>3, <1>6, <1>7 DEF IInv, Control, OpFits
    <2> QED
      BY <1>1, <2>1, <2>2 DEF IInv, Control, LoginFits, DaemonFits
  <1>9. NamedInv' /\ AgeInv'
    BY <1>1, <1>4, <1>6, <1>7 DEF IInv, NamedInv, AgeInv
  <1>10. UidInv'
    <2>1. ~trouble' => \A l \in Logins : ~Allocating(login[l])
      BY <1>2, CacheAssumption DEF OthersAllocate
    <2>2. Apart(nss)'
      BY <1>1, <1>5, <1>6, <1>7 DEF Apart
    <2> QED
      BY <1>1, <1>2, <2>1, <2>2 DEF IInv, UidInv, Distinct, Keeps, Apart, Allocating
  <1>11. ChainInv' /\ SpentInv' /\ MarkInv'
    BY <1>1, <1>2
    DEF IInv, ChainInv, Uses, Granted, SpentInv, MarkInv, Unspent, Justified, Saving, Leaving
  <1> QED
    BY <1>8, <1>9, <1>10, <1>11 DEF IInv

LEMMA LookupSaveStep ==
  ASSUME IInv, LookupSave
  PROVE  IInv'
  <1> DEFINE n == nss.name
             r == nss.uc
  <1>1. /\ nss.pc = "save" /\ n \in Names /\ r \in Own /\ r # None /\ r.token = None
        /\ ~r.revoked /\ r.age = Expired
        /\ users' = [users EXCEPT ![n] = r] /\ nss' = IdleOp
        /\ UNCHANGED <<status, login, daemon, cmd, broker, dir, named, enabled, device, vouched,
                       crashes>>
        /\ Collect /\ trouble' \in BOOLEAN
    BY Nulls DEF LookupSave, admin, Disturb, IInv, Control, OpFits
  <1>2. ~trouble' => ~trouble /\ ~Replaces(nss)
    BY Zenon DEF LookupSave, Disturb
  <1>3. nss' \in NSSType /\ nss'.pc = "idle"
    BY <1>1, IdleFits
  <1>4. /\ users' \in [Names -> Copy] /\ users'[n] = r
        /\ \A m \in Names : m # n => users'[m] = users[m]
    BY <1>1 DEF IInv, Control, Typed, Copy
  <1> HIDE DEF n, r
  <1>5. Control'
    <2>1. Typed'
      BY <1>1, <1>3, <1>4, CollectTyped DEF IInv, Control, Typed
    <2> QED
      BY <1>1, <1>3, <2>1 DEF IInv, Control, LoginFits, DaemonFits, OpFits
  <1>6. NamedInv'
    <2>1. named[r.sub] = n
      BY <1>1 DEF IInv, NamedInv, n, r
    <2> QED
      BY <1>1, <1>3, <1>4, <2>1 DEF IInv, NamedInv
  <1>7. AgeInv'
    <2>1. vouched[r.sub] <= r.age
      BY <1>1, OwnFields, Bounds DEF IInv, Control, Typed
    <2> QED
      BY <1>1, <1>4, <2>1 DEF IInv, AgeInv
  <1>8. UidInv'
    <2>1. SUFFICES ASSUME ~trouble'
                   PROVE  UidInv'
      BY DEF UidInv
    <2>2. ~trouble /\ (users[n] # None => users[n].uid = r.uid)
      BY <1>2, <2>1 DEF Replaces, n, r
    <2>3. r.uid \in Uids => \A m \in Names : m # n /\ users[m] # None => users[m].uid # r.uid
      BY <1>1, <2>2 DEF IInv, UidInv, Apart, n, r
    <2>4. users[n] = None => \A k \in Logins : ~Allocating(login[k])
      BY <1>1, <2>2 DEF IInv, UidInv, Allocating, n
    <2>5. /\ Distinct'
          /\ \A m \in Names : \A x : Keeps(m, x) => users'[m] # None /\ users'[m].uid = x.uid
          /\ \A o : o.name \in Names /\ o.pc = "save" /\ ~Allocating(o) =>
                users'[o.name] # None /\ users'[o.name].uid = o.uc.uid
          /\ \A o : o.name \in Names /\ Apart(o) /\ (users[n] = None => ~Allocating(o)) =>
                (o.pc = "save" /\ o.uc.uid \in Uids =>
                   \A m \in Names : m # o.name /\ users'[m] # None => users'[m].uid # o.uc.uid)
      BY <1>1, <2>2, <2>3, SaveUids
    <2>6. /\ daemon.pc = "save" => daemon.name \in Names
          /\ \A k \in Logins : login[k].pc # "idle" => login[k].name \in Names
      BY DEF IInv, Control, DaemonFits, LoginFits
    <2>7. Apart(nss)' /\ ~Allocating(nss)'
      BY <1>3 DEF Apart, Allocating
    <2>8. ASSUME NEW k \in Logins
          PROVE  /\ Apart(login[k])'
                 /\ login'[k].pc \in {"prompt", "online"} /\ login'[k].uc # None
                    => Keeps(login[k].name, login[k].uc)'
                 /\ Allocating(login[k])' => Allocating(login[k])
      <3>1. login' = login
        BY <1>1
      <3>2. Apart(login[k]) /\ (users[n] = None => ~Allocating(login[k]))
        BY <2>2, <2>4 DEF IInv, UidInv
      <3>3. Apart(login[k])'
        BY <2>5, <2>6, <3>1, <3>2 DEF Apart
      <3>4. Allocating(login[k])' => Allocating(login[k])
        BY <2>5, <2>6, <3>1 DEF Allocating
      <3>5. login'[k].pc \in {"prompt", "online"} /\ login'[k].uc # None
                    => Keeps(login[k].name, login[k].uc)'
        BY <2>2, <2>5, <2>6, <3>1 DEF IInv, UidInv, Keeps
      <3> QED
        BY <3>3, <3>4, <3>5
    <2>9. /\ \A m \in Names : daemon'.todo[m] # None => Keeps(m, daemon.todo[m])'
          /\ daemon'.pc = "save" => Keeps(daemon.name, daemon.uc)'
      BY <1>1, <2>2, <2>5, <2>6 DEF IInv, UidInv, Keeps
    <2>10. \A j, k \in Logins : j # k => ~(Allocating(login[j])' /\ Allocating(login[k])')
      BY <2>2, <2>8 DEF IInv, UidInv
    <2> QED
      BY <2>5, <2>7, <2>8, <2>9, <2>10 DEF UidInv
  <1>9. ChainInv'
    <2>1. \A m \in Names, c \in Chains : Uses(m, c)' => Uses(m, c)
      BY <1>1, <1>4 DEF Uses, Of
    <2> QED
      BY <1>1, <2>1 DEF IInv, ChainInv, Granted
  <1>10. SpentInv'
    BY <1>1, <1>2, <1>4, <1>5, GrantsStay DEF IInv, SpentInv, Stays, Unspent, Saving, Leaving
  <1>11. MarkInv'
    BY <1>1, <1>2, <1>4 DEF IInv, MarkInv, Justified, Leaving
  <1> QED
    BY <1>5, <1>6, <1>7, <1>8, <1>9, <1>10, <1>11 DEF IInv

LEMMA BrokerStep ==
  ASSUME IInv, (\E n \in Names : BrokerToken(n)) \/ BrokerEnds
  PROVE  IInv'
  <1>1. UNCHANGED <<users, status, login, daemon, nss, cmd, dir, named, enabled, device, vouched,
                    crashes, trouble>>
    BY DEF BrokerToken, BrokerEnds, server, admin, Quietly
  <1>2. chain' = chain \/ Collect
    BY DEF BrokerToken, BrokerEnds, server
  <1>3. /\ broker' \in BrokerType
        /\ broker'.pc = "exchange" => broker'.sub \in Subs /\ broker'.token \in Token
    <2>1. CASE BrokerEnds
      BY <2>1, IdleFits DEF BrokerEnds
    <2>2. CASE \E n \in Names : BrokerToken(n)
      <3>1. PICK n \in Names : BrokerToken(n)
        BY <2>2
      <3>2. users[n] # None /\ users[n].token # None
        BY <3>1 DEF BrokerToken, brokerUserClient
      <3>3. users[n].sub \in Subs /\ users[n].token \in Token
        BY <3>2, OwnFields DEF IInv, Control, Typed, Copy
      <3> QED
        BY <3>1, <3>3 DEF BrokerToken, BrokerType
    <2> QED
      BY <2>1, <2>2
  <1>4. Control'
    <2>1. Typed'
      BY <1>1, <1>2, <1>3, CollectTyped DEF IInv, Control, Typed
    <2> QED
      BY <1>1, <1>3, <2>1 DEF IInv, Control, LoginFits, DaemonFits, OpFits
  <1>5. NamedInv' /\ AgeInv'
    BY <1>1 DEF IInv, NamedInv, AgeInv
  <1>6. UidInv'
    BY <1>1 DEF IInv, UidInv, Distinct, Keeps, Apart, Allocating
  <1>7. ChainInv' /\ MarkInv'
    BY <1>1 DEF IInv, ChainInv, Uses, Granted, MarkInv, Justified, Leaving
  <1>8. SpentInv'
    <2>1. CASE chain' = chain
      BY <1>1, <2>1 DEF IInv, SpentInv, Unspent, Saving, Leaving
    <2>2. CASE Collect
      BY <1>1, <1>4, <2>2, GrantsStay DEF IInv, SpentInv, Stays, Unspent, Saving, Leaving
    <2> QED
      BY <1>2, <2>1, <2>2
  <1> QED
    BY <1>4, <1>5, <1>6, <1>7, <1>8 DEF IInv

----------------------------------------------------------------------------
(* The steps of signin and signout. *)

LEMMA SignInStep ==
  ASSUME IInv, NEW n \in Names, NEW s \in Subs, NEW c \in Chains, SignIn(n, s, c)
  PROVE  IInv'
  <1> DEFINE x == IF users[n] = None THEN None ELSE users[n].secret
             r == SignedIn(s, CallerUid, x, 0, c)
  <1>1. /\ cmd.pc = "idle" /\ dir[n] = s /\ Approve(s, c)
        /\ users[n] # None => users[n].sub = s
        /\ cmd' = [pc |-> "save", name |-> n, uc |-> r]
        /\ UNCHANGED <<users, status, login, daemon, nss, broker, dir, named, enabled, device,
                       crashes, trouble>>
    BY DEF SignIn, VerifyIDToken, Approve, admin, Quietly
  <1>2. x \in {None, s}
    BY <1>1, OwnFields DEF IInv, Control, Typed, Copy
  <1>3. 0 \in 0..Expired
    BY Bounds
  <1> HIDE DEF x
  <1>4. /\ r \in Own /\ r.sub = s /\ r.uid = CallerUid /\ r.token = First(c) /\ ~r.revoked
        /\ r.age = 0 /\ r # None
    BY <1>2, <1>3, SignedInEntry, Nulls
  <1> HIDE DEF r
  <1>5. cmd' \in CmdType /\ cmd'.pc = "save" /\ cmd'.name = n /\ cmd'.uc = r
    BY <1>1, <1>4 DEF CmdType, Name, Copy
  <1>6. Control'
    <2>1. Typed'
      BY <1>1, <1>5, Approved DEF IInv, Control, Typed
    <2>2. OpFits'
      BY <1>1, <1>4, <1>5, FirstToken DEF IInv, Control, OpFits
    <2> QED
      BY <1>1, <2>1, <2>2 DEF IInv, Control, LoginFits, DaemonFits
  <1>7. NamedInv'
    BY <1>1, <1>4, <1>5 DEF IInv, NamedInv
  <1>8. AgeInv'
    <2>1. vouched'[r.sub] <= r.age
      BY <1>1, <1>4, Approved
    <2> QED
      BY <1>1, <1>5, <2>1, Approved, StillVouched DEF AgeInv
  <1>9. UidInv'
    BY <1>1 DEF IInv, UidInv, Distinct, Keeps, Apart, Allocating
  <1>10. ChainInv'
    <2>1. \A d \in Chains : Granted(cmd, d)' <=> d = c
      BY <1>4, <1>5, FirstToken, Nulls DEF Granted, Of
    <2>2. /\ \A m \in Names : ~Uses(m, c)
          /\ \A k \in Logins : ~Granted(login[k], c)
      BY <1>1, Approved, FreeChain DEF Uses, Granted
    <2>3. \A m \in Names, d \in Chains : Uses(m, d)' <=> Uses(m, d)
      BY <1>1, <1>5 DEF Uses
    <2>4. \A k \in Logins, d \in Chains : Granted(login[k], d)' <=> Granted(login[k], d)
      BY <1>1 DEF Granted
    <2> QED
      BY <2>1, <2>2, <2>3, <2>4 DEF IInv, ChainInv
  <1>11. SpentInv'
    <2>1. Unspent(cmd.uc.token)'
      BY <1>1, <1>4, <1>5, Approved DEF Unspent
    <2>2. c \in FreeChains /\ \A d \in Chains : d # c => chain'[d] = chain[d]
      BY <1>1, Approved
    <2>3. /\ \A m \in Names : /\ users[m] # None /\ users[m].token # None
                                 => Stays(users[m].token)
                              /\ daemon.todo[m] # None => Stays(daemon.todo[m].token)
          /\ daemon.pc = "save" /\ daemon.uc.token # None => Stays(daemon.uc.token)
          /\ \A k \in Logins : login[k].pc = "save" => Stays(login[k].uc.token)
      BY <2>2, OthersStay
    <2> QED
      BY <1>1, <1>5, <2>1, <2>3 DEF IInv, SpentInv, Stays, Unspent, Saving, Leaving
  <1>12. MarkInv'
    BY <1>1 DEF IInv, MarkInv, Justified, Leaving
  <1> QED
    BY <1>6, <1>7, <1>8, <1>9, <1>10, <1>11, <1>12 DEF IInv

\* While nothing is under way no operation holds a copy.
LEMMA NotBusy ==
  ASSUME IInv, ~Busy
  PROVE  /\ daemon.pc = "idle" /\ \A n \in Names : daemon.todo[n] = None
         /\ nss.pc = "idle" /\ \A l \in Logins : login[l].pc = "idle"
  BY IdleFits DEF Busy, IInv, Control, DaemonFits

LEMMA SignInSaveStep ==
  ASSUME IInv, SignInSave
  PROVE  IInv'
  <1> DEFINE n == cmd.name
             r == cmd.uc
  <1>1. /\ cmd.pc = "save" /\ n \in Names /\ r \in Own /\ r # None /\ r.token \in Token
        /\ ~r.revoked /\ r.uid = CallerUid
        /\ users' = [users EXCEPT ![n] = r] /\ cmd' = IdleOp
        /\ UNCHANGED <<status, login, daemon, nss, broker, dir, named, enabled, device, vouched,
                       crashes>>
        /\ Collect /\ trouble' \in BOOLEAN
    BY Nulls DEF SignInSave, admin, Disturb, IInv, Control, OpFits
  <1>2. ~trouble' => ~trouble /\ ~Busy
    BY Zenon DEF SignInSave, Disturb
  <1>3. cmd' \in CmdType /\ cmd'.pc = "idle"
    BY <1>1, IdleFits
  <1>4. /\ users' \in [Names -> Copy] /\ users'[n] = r
        /\ \A m \in Names : m # n => users'[m] = users[m]
    BY <1>1 DEF IInv, Control, Typed, Copy
  <1>5. Granted(cmd, r.token.chain) /\ r.token.chain \in Chains
    BY <1>1, Nulls DEF Granted, Of, Token
  <1> HIDE DEF n, r
  <1>6. Control'
    <2>1. Typed'
      BY <1>1, <1>3, <1>4, CollectTyped DEF IInv, Control, Typed
    <2> QED
      BY <1>1, <1>3, <2>1 DEF IInv, Control, LoginFits, DaemonFits, OpFits
  <1>7. NamedInv' /\ AgeInv'
    <2>1. named[r.sub] = n /\ vouched[r.sub] <= r.age
      BY <1>1 DEF IInv, NamedInv, AgeInv, n, r
    <2> QED
      BY <1>1, <1>3, <1>4, <2>1 DEF IInv, NamedInv, AgeInv
  <1>8. UidInv'
    <2>1. SUFFICES ASSUME ~trouble'
                   PROVE  UidInv'
      BY DEF UidInv
    <2>2. /\ daemon.pc = "idle" /\ \A m \in Names : daemon.todo[m] = None
          /\ nss.pc = "idle" /\ \A l \in Logins : login[l].pc = "idle"
      BY <1>2, <2>1, NotBusy
    <2>3. Distinct'
      BY <1>1, <1>2, <1>4, <2>1, CacheAssumption DEF IInv, UidInv, Distinct
    <2> QED
      BY <1>1, <2>2, <2>3 DEF UidInv, Apart, Allocating
  <1>9. ChainInv'
    <2>1. \A m \in Names, d \in Chains :
             Uses(m, d)' => Uses(m, d) \/ (m = n /\ d = r.token.chain)
      BY <1>1, <1>3, <1>4 DEF Uses, Of
    <2>2. \A k \in Logins, d \in Chains : Granted(login[k], d)' => Granted(login[k], d)
      BY <1>1 DEF Granted
    <2>3. \A d \in Chains : ~Granted(cmd, d)'
      BY <1>3 DEF Granted
    <2> QED
      BY <1>5, <2>1, <2>2, <2>3 DEF IInv, ChainInv
  <1>10. SpentInv'
    <2>1. ~trouble => Unspent(r.token)
      BY <1>1 DEF IInv, SpentInv, r
    <2> QED
      BY <1>1, <1>2, <1>3, <1>4, <1>6, <2>1, GrantsStay
      DEF IInv, SpentInv, Stays, Unspent, Saving, Leaving
  <1>11. MarkInv'
    BY <1>1, <1>2, <1>4 DEF IInv, MarkInv, Justified, Leaving
  <1> QED
    BY <1>6, <1>7, <1>8, <1>9, <1>10, <1>11 DEF IInv

LEMMA SignOutStep ==
  ASSUME IInv, NEW n \in Names, SignOut(n)
  PROVE  IInv'
  <1>1. /\ cmd.pc = "idle" /\ users[n] # None
        /\ cmd' = [pc |-> "revoke", name |-> n, uc |-> users[n]]
        /\ UNCHANGED <<users, status, login, daemon, nss, broker, dir, named, enabled, device,
                       chain, vouched, crashes, trouble>>
    BY DEF SignOut, server, admin, Quietly
  <1>2. users[n] \in Own
    BY <1>1 DEF IInv, Control, Typed, Copy
  <1>3. /\ cmd' \in CmdType /\ cmd'.pc = "revoke" /\ cmd'.name = n
        /\ cmd'.uc = users[n]
    BY <1>1, <1>2 DEF CmdType, Name, Copy
  <1>4. Control'
    <2>1. Typed'
      BY <1>1, <1>3 DEF IInv, Control, Typed
    <2>2. OpFits'
      BY <1>1, <1>2, <1>3 DEF IInv, Control, OpFits
    <2> QED
      BY <1>1, <2>1, <2>2 DEF IInv, Control, LoginFits, DaemonFits
  <1>5. NamedInv' /\ AgeInv'
    BY <1>1, <1>3 DEF IInv, NamedInv, AgeInv
  <1>6. UidInv'
    BY <1>1 DEF IInv, UidInv, Distinct, Keeps, Apart, Allocating
  <1>7. ChainInv'
    <2>1. \A m \in Names, c \in Chains : Uses(m, c)' => Uses(m, c)
      BY <1>1, <1>3 DEF Uses
    <2> QED
      BY <1>1, <1>3, <2>1 DEF IInv, ChainInv, Granted
  <1>8. SpentInv' /\ MarkInv'
    BY <1>1, <1>3 DEF IInv, SpentInv, MarkInv, Unspent, Justified, Saving, Leaving
  <1> QED
    BY <1>4, <1>5, <1>6, <1>7, <1>8 DEF IInv

LEMMA SignOutRevokeStep ==
  ASSUME IInv, NEW reached \in BOOLEAN, SignOutRevoke(reached)
  PROVE  IInv'
  <1> DEFINE n == cmd.name
             t == cmd.uc.token
  <1>1. /\ cmd.pc = "revoke" /\ cmd' = [cmd EXCEPT !.pc = "remove", !.uc = None]
        /\ UNCHANGED <<users, status, login, daemon, nss, broker, dir, named, enabled, device,
                       vouched, crashes, trouble>>
    BY Zenon DEF SignOutRevoke, admin, Quietly
  <1>2. \/ chain' = chain
        \/ t # None /\ chain' = [chain EXCEPT ![t.chain].dead = TRUE]
    BY Zenon DEF SignOutRevoke
  <1>3. n \in Names /\ cmd \in CmdType /\ cmd.uc \in Own
    BY <1>1 DEF IInv, Control, Typed, OpFits
  <1>4. t # None => t.chain \in Chains /\ Uses(n, t.chain)
    BY <1>1, <1>3, OwnFields DEF Token, Uses, Of
  <1>5. cmd' \in CmdType /\ cmd'.pc = "remove" /\ cmd'.name = n
    BY <1>1, <1>3 DEF CmdType, Copy
  <1> HIDE DEF t
  <1>6. /\ chain' \in [Chains -> [gen : 0..MaxGen, dead : BOOLEAN]]
        /\ \A d \in Chains : chain'[d] = chain[d] \/ (t # None /\ d = t.chain)
    BY <1>2, <1>4 DEF IInv, Control, Typed
  <1>7. Control'
    <2>1. Typed'
      BY <1>1, <1>5, <1>6 DEF IInv, Control, Typed
    <2>2. OpFits'
      BY <1>1, <1>3, <1>5 DEF IInv, Control, OpFits
    <2> QED
      BY <1>1, <2>1, <2>2 DEF IInv, Control, LoginFits, DaemonFits
  <1> HIDE DEF n
  <1>8. NamedInv' /\ AgeInv'
    BY <1>1, <1>5 DEF IInv, NamedInv, AgeInv
  <1>9. UidInv'
    BY <1>1 DEF IInv, UidInv, Distinct, Keeps, Apart, Allocating
  <1>10. ChainInv'
    <2>1. \A m \in Names, c \in Chains : Uses(m, c)' => Uses(m, c)
      BY <1>1, <1>5 DEF Uses
    <2> QED
      BY <1>1, <1>5, <2>1 DEF IInv, ChainInv, Granted
  <1>11. SpentInv'
    <2>1. SUFFICES ASSUME ~trouble'
                   PROVE  SpentInv'
      BY DEF SpentInv
    <2>2. SpentInv /\ ~trouble
      BY <1>1, <2>1 DEF IInv
    <2>3. \A x \in Token : (t # None => x.chain # t.chain) => Stays(x)
      BY <1>6 DEF Stays, Token
    <2>4. ASSUME NEW m \in Names, m # n
          PROVE  /\ users[m] # None /\ users[m].token # None => Stays(users[m].token)
                 /\ daemon.todo[m] # None => Stays(daemon.todo[m].token)
                 /\ daemon.pc = "save" /\ daemon.name = m /\ daemon.uc.token # None
                    => Stays(daemon.uc.token)
      <3>1. t # None => ~Uses(m, t.chain)
        BY <1>3, <1>4, <2>4 DEF IInv, ChainInv
      <3>2. /\ users[m] \in Copy /\ daemon.todo[m] \in Copy /\ daemon.uc \in Copy
            /\ daemon.pc = "save" => daemon.uc # None
            /\ daemon.todo[m] # None => daemon.todo[m].token # None
        BY Nulls DEF IInv, Control, Typed, DaemonType, DaemonFits
      <3> QED
        BY <2>3, <3>1, <3>2, OwnFields DEF Copy, Uses, Of
    <2>5. \A l \in Logins : login[l].pc = "save" => Stays(login[l].uc.token)
      <3>1. t # None => \A l \in Logins : ~Granted(login[l], t.chain)
        BY <1>3, <1>4 DEF IInv, ChainInv, n
      <3> QED
        BY <2>3, <3>1, Nulls DEF Granted, Of, IInv, Control, LoginFits
    <2>6. \A m \in Names : Leaving(m)' <=> m = n
      BY <1>5 DEF Leaving
    <2>7. \A m \in Names : ~Leaving(m)
      BY <1>1 DEF Leaving
    <2>8. daemon.pc = "save" => daemon.name \in Names
      BY DEF IInv, Control, DaemonFits
    <2> QED
      BY <1>1, <1>5, <2>2, <2>4, <2>5, <2>6, <2>7, <2>8 DEF SpentInv, Stays, Unspent, Saving
  <1>12. MarkInv'
    BY <1>1 DEF IInv, MarkInv, Justified, Leaving
  <1> QED
    BY <1>7, <1>8, <1>9, <1>10, <1>11, <1>12 DEF IInv

LEMMA SignOutRemoveStep ==
  ASSUME IInv, SignOutRemove
  PROVE  IInv'
  <1> DEFINE n == cmd.name
  <1>1. /\ cmd.pc = "remove" /\ n \in Names
        /\ users' = [users EXCEPT ![n] = None] /\ cmd' = IdleOp
        /\ UNCHANGED <<status, login, daemon, nss, broker, dir, named, enabled, device, vouched,
                       crashes>>
        /\ Collect /\ trouble' \in BOOLEAN
    BY DEF SignOutRemove, admin, Disturb, IInv, Control, OpFits
  <1>2. ~trouble' => ~trouble /\ ~Busy
    BY Zenon DEF SignOutRemove, Disturb
  <1>3. cmd' \in CmdType /\ cmd'.pc = "idle"
    BY <1>1, IdleFits
  <1>4. /\ users' \in [Names -> Copy] /\ users'[n] = None
        /\ \A m \in Names : m # n => users'[m] = users[m]
    BY <1>1 DEF IInv, Control, Typed, Copy
  <1> HIDE DEF n
  <1>5. Control'
    <2>1. Typed'
      BY <1>1, <1>3, <1>4, CollectTyped DEF IInv, Control, Typed
    <2> QED
      BY <1>1, <1>3, <2>1 DEF IInv, Control, LoginFits, DaemonFits, OpFits
  <1>6. NamedInv' /\ AgeInv'
    BY <1>1, <1>3, <1>4 DEF IInv, NamedInv, AgeInv
  <1>7. ~trouble' => /\ daemon.pc = "idle" /\ \A m \in Names : daemon.todo[m] = None
                     /\ nss.pc = "idle" /\ \A l \in Logins : login[l].pc = "idle"
    BY <1>2, NotBusy
  <1>8. UidInv'
    BY <1>1, <1>2, <1>4, <1>7 DEF IInv, UidInv, Distinct, Apart, Allocating
  <1>9. ChainInv'
    <2>1. \A m \in Names, d \in Chains : Uses(m, d)' => Uses(m, d)
      BY <1>1, <1>3, <1>4 DEF Uses, Of
    <2> QED
      BY <1>1, <1>3, <2>1 DEF IInv, ChainInv, Granted
  <1>10. SpentInv'
    BY <1>1, <1>2, <1>3, <1>4, <1>5, <1>7, GrantsStay
    DEF IInv, SpentInv, Stays, Unspent, Saving, Leaving, n
  <1>11. MarkInv'
    BY <1>1, <1>2, <1>4, <1>7 DEF IInv, MarkInv, Justified, Leaving, n
  <1> QED
    BY <1>5, <1>6, <1>8, <1>9, <1>10, <1>11 DEF IInv

----------------------------------------------------------------------------
(* The administrator, time and crashes. *)

\* A user who is there is turned away, or a new one is added.
LEMMA AdminStep ==
  ASSUME IInv, (\E n \in SigningIn : Disable(dir[n]) \/ \E s \in Subs : Reassign(n, s))
               \/ RevokeDevice
  PROVE  IInv'
  <1>1. /\ UNCHANGED <<users, status, login, daemon, nss, cmd, broker, chain, vouched, crashes,
                       trouble>>
    BY DEF Disable, Reassign, RevokeDevice, procs, Quietly
  <1>2. /\ dir' \in [Names -> Subs] /\ named' \in [Subs -> Name]
        /\ enabled' \in SUBSET Subs /\ device' \in {"active", "revoked"}
        /\ \A n \in Names : named'[dir'[n]] = n
        /\ \A s \in Subs : named[s] # None => named'[s] = named[s]
        /\ \A s \in enabled' : named'[s] # None
        /\ \A s \in Subs : named[s] # None /\ s \in enabled' => s \in enabled
        /\ device = "revoked" => device' = "revoked"
    <2>1. /\ dir \in [Names -> Subs] /\ named \in [Subs -> Name]
          /\ enabled \in SUBSET Subs /\ device \in {"active", "revoked"}
          /\ \A n \in Names : named[dir[n]] = n
          /\ \A s \in enabled : named[s] # None
      BY DEF IInv, Control, Typed, NamedInv
    <2>2. CASE \E n \in SigningIn : Disable(dir[n])
      BY <2>1, <2>2 DEF Disable
    <2>3. CASE RevokeDevice
      BY <2>1, <2>3 DEF RevokeDevice
    <2>4. CASE \E n \in SigningIn, s \in Subs : Reassign(n, s)
      <3>1. PICK n \in SigningIn, s \in Subs : Reassign(n, s)
        BY <2>4
      <3>2. /\ n \in Names /\ named[s] = None /\ dir' = [dir EXCEPT ![n] = s]
            /\ named' = [named EXCEPT ![s] = n] /\ device' = device
            /\ enabled' = (enabled \ {dir[n]}) \cup {s}
        BY <3>1, CacheAssumption DEF Reassign
      <3>3. /\ dir' \in [Names -> Subs] /\ dir'[n] = s
            /\ \A m \in Names : m # n => dir'[m] = dir[m]
        BY <2>1, <3>2
      <3>4. /\ named' \in [Subs -> Name] /\ named'[s] = n
            /\ \A y \in Subs : y # s => named'[y] = named[y]
        BY <2>1, <3>2 DEF Name
      <3>5. \A m \in Names : named'[dir'[m]] = m
        BY <2>1, <3>2, <3>3, <3>4, Nulls
      <3>6. enabled' \in SUBSET Subs /\ \A y \in enabled' : named'[y] # None
        BY <2>1, <3>2, <3>4, Nulls
      <3> QED
        BY <2>1, <3>2, <3>3, <3>4, <3>5, <3>6
    <2> QED
      BY <2>2, <2>3, <2>4
  <1>3. /\ \A n \in Names : /\ users[n] # None => users[n].sub \in Subs
                            /\ daemon.todo[n] # None => daemon.todo[n].sub \in Subs
                            /\ Directory[n] \in Subs
        /\ \A l \in Logins : login[l].uc # None => login[l].uc.sub \in Subs
        /\ \A l \in Logins : login[l].uc # None => login[l].name # None
        /\ daemon.pc = "save" => daemon.uc.sub \in Subs /\ daemon.name # None
        /\ nss.pc = "save" => nss.uc.sub \in Subs /\ nss.name # None
        /\ cmd.pc \in {"save", "revoke"} => cmd.uc.sub \in Subs /\ cmd.name # None
    <2>1. \A r \in Copy : r # None => r.sub \in Subs
      BY OwnFields DEF Copy
    <2>2. /\ \A n \in Names : users[n] \in Copy /\ daemon.todo[n] \in Copy
          /\ \A l \in Logins : login[l].uc \in Copy
      BY DEF IInv, Control, Typed, LoginType, DaemonType
    <2>3. /\ daemon.pc = "save" => daemon.uc \in Own /\ daemon.name # None
          /\ nss.pc = "save" => nss.uc \in Own /\ nss.name # None
          /\ cmd.pc \in {"save", "revoke"} => cmd.uc \in Own /\ cmd.name # None
      BY Nulls DEF IInv, Control, DaemonFits, OpFits
    <2>4. \A l \in Logins : login[l].uc # None => login[l].name # None
      BY Nulls DEF IInv, Control, LoginFits
    <2> QED
      BY <2>1, <2>2, <2>3, <2>4, OwnFields, CacheAssumption
  <1>4. Control'
    <2>1. Typed'
      BY <1>1, <1>2 DEF IInv, Control, Typed
    <2> QED
      BY <1>1, <2>1 DEF IInv, Control, LoginFits, DaemonFits, OpFits
  <1>5. NamedInv'
    BY <1>1, <1>2, <1>3, Nulls DEF IInv, NamedInv
  <1>6. AgeInv' /\ ChainInv'
    BY <1>1 DEF IInv, AgeInv, ChainInv, Uses, Granted
  <1>7. UidInv' /\ SpentInv'
    BY <1>1 DEF IInv, UidInv, Distinct, Keeps, Apart, Allocating, SpentInv, Unspent, Saving, Leaving
  <1>8. MarkInv'
    <2>1. \A n \in Names : users[n] # None => named[users[n].sub] # None
      BY Nulls DEF IInv, NamedInv
    <2>2. daemon.pc = "save" => named[daemon.uc.sub] # None
      BY <1>3 DEF IInv, NamedInv
    <2> QED
      BY <1>1, <1>2, <1>3, <2>1, <2>2 DEF IInv, MarkInv, Justified, Leaving
  <1> QED
    BY <1>4, <1>5, <1>6, <1>7, <1>8 DEF IInv

\* Ages grow together.
LEMMA TickStep ==
  ASSUME IInv, Tick
  PROVE  IInv'
  <1>1. /\ daemon.pc = "idle" /\ nss.pc = "idle" /\ cmd.pc = "idle" /\ broker.pc = "idle"
        /\ \A l \in Logins : login[l].pc # "idle" => login[l].now < ConversationLimit
        /\ UNCHANGED <<status, daemon, nss, cmd, broker, dir, named, enabled, device, chain,
                       crashes, trouble>>
    BY DEF Tick, server, admin, Quietly
  <1>2. /\ users' = [n \in Names |-> Aged(users[n])]
        /\ vouched' = [s \in Subs |-> Later(vouched[s])]
        /\ login' = [l \in Logins |-> IF login[l].pc = "idle" THEN login[l]
                                      ELSE [login[l] EXCEPT !.now = @ + 1]]
    BY DEF Tick
  <1>3. \A n \in Names : daemon.todo[n] = None
    BY <1>1, IdleFits DEF IInv, Control, DaemonFits
  <1>4. \A n \in Names :
           /\ users'[n] \in Copy /\ (users'[n] # None <=> users[n] # None)
           /\ users[n] # None => /\ users[n] \in Own /\ users'[n].sub = users[n].sub
                                 /\ users'[n].uid = users[n].uid
                                 /\ users'[n].token = users[n].token
                                 /\ users'[n].revoked = users[n].revoked
                                 /\ users'[n].age = Later(users[n].age)
    <2>1. Aged(None) = None
      BY Zenon DEF Aged
    <2>2. \A n \in Names : users[n] \in Own \cup {None} /\ users'[n] = Aged(users[n])
      BY <1>2 DEF IInv, Control, Typed, Copy
    <2> QED
      BY <2>1, <2>2, AgedEntry, Nulls DEF Copy
  <1>5. ASSUME NEW l \in Logins
        PROVE  /\ login'[l] \in LoginType /\ login'[l].pc = login[l].pc
               /\ login'[l].name = login[l].name /\ login'[l].uc = login[l].uc
               /\ login[l].pc # "idle" => login'[l].now = login[l].now + 1
               /\ login[l].now \in Nat
    <2>1. login[l] \in LoginType
      BY DEF IInv, Control, Typed
    <2>2. CASE login[l].pc = "idle"
      BY <1>2, <2>1, <2>2, Bounds DEF LoginType
    <2>3. CASE login[l].pc # "idle"
      <3>1. login'[l] = [login[l] EXCEPT !.now = @ + 1]
        BY <1>2, <2>3
      <3>2. login[l].now + 1 \in 0..ConversationLimit
        BY <1>1, <2>1, <2>3, Bounds DEF LoginType
      <3> QED
        BY <2>1, <3>1, <3>2, Bounds DEF LoginType
    <2> QED
      BY <2>2, <2>3
  <1>6. /\ vouched' \in [Subs -> 0..Expired]
        /\ \A s \in Subs : /\ vouched[s] \in 0..Expired
                           /\ vouched'[s] = Later(vouched[s]) /\ vouched'[s] <= vouched[s] + 1
    BY <1>2, LaterAge DEF IInv, Control, Typed
  <1>7. Control'
    <2>1. users' \in [Names -> Copy] /\ login' \in [Logins -> LoginType]
      BY <1>2, <1>4, <1>5
    <2>2. Typed'
      BY <1>1, <1>6, <2>1 DEF IInv, Control, Typed
    <2>3. \A l \in Logins : LoginFits(login[l])'
      BY <1>5 DEF IInv, Control, LoginFits
    <2> QED
      BY <1>1, <2>2, <2>3 DEF IInv, Control, DaemonFits, OpFits
  <1>8. NamedInv'
    BY <1>1, <1>4, <1>5 DEF IInv, NamedInv
  <1>9. AgeInv'
    <2>1. \A n \in Names : users'[n] # None => vouched'[users'[n].sub] <= users'[n].age
      <3>1. \A a, b \in 0..Expired : a <= b => Later(a) <= Later(b)
        BY Bounds DEF Later
      <3> QED
        BY <1>4, <1>6, <3>1, OwnFields DEF IInv, AgeInv
    <2>2. ASSUME NEW l \in Logins, login[l].pc \in {"prompt", "save"}
          PROVE  /\ login'[l].pc = "prompt" =>
                       vouched'[login'[l].uc.sub] <= Validity + login'[l].now
                 /\ login'[l].pc = "save" => vouched'[login'[l].uc.sub] <= login'[l].now
      <3>1. login[l].uc.sub \in Subs
        BY <2>2, OwnFields DEF IInv, Control, LoginFits
      <3>2. /\ vouched[login[l].uc.sub] \in Nat
            /\ vouched'[login[l].uc.sub] \in Nat
            /\ vouched'[login[l].uc.sub] <= vouched[login[l].uc.sub] + 1
        BY <1>6, <3>1, Bounds
      <3>3. /\ login[l].pc = "prompt" => vouched[login[l].uc.sub] <= Validity + login[l].now
            /\ login[l].pc = "save" => vouched[login[l].uc.sub] <= login[l].now
        BY DEF IInv, AgeInv
      <3>4. login'[l].now = login[l].now + 1 /\ login[l].now \in Nat
        BY <1>5, <2>2
      <3>5. login'[l].pc = login[l].pc /\ login'[l].uc = login[l].uc
        BY <1>5
      <3> QED
        BY <3>2, <3>3, <3>4, <3>5, Bounds
    <2> QED
      BY <1>1, <1>3, <1>5, <2>1, <2>2 DEF AgeInv
  <1>10. UidInv'
    <2>1. \A l \in Logins : login[l].pc # "idle" => login[l].name \in Names
      BY DEF IInv, Control, LoginFits
    <2>2. ASSUME NEW l \in Logins
          PROVE  /\ Apart(login[l]) => Apart(login[l])'
                 /\ Allocating(login[l])' => Allocating(login[l])
                 /\ login[l].pc # "idle" /\ Keeps(login[l].name, login[l].uc) =>
                       Keeps(login[l].name, login[l].uc)'
      BY <1>4, <1>5, <2>1 DEF Apart, Allocating, Keeps
    <2>3. Distinct => Distinct'
      BY <1>4 DEF Distinct
    <2>4. Apart(nss)' /\ ~Allocating(nss)'
      BY <1>1 DEF Apart, Allocating
    <2> QED
      BY <1>1, <1>3, <1>5, <2>2, <2>3, <2>4 DEF IInv, UidInv
  <1>11. ChainInv'
    <2>1. \A n \in Names, c \in Chains : Uses(n, c)' <=> Uses(n, c)
      BY <1>1, <1>4 DEF Uses, Of
    <2>2. \A l \in Logins, c \in Chains : Granted(login[l], c)' <=> Granted(login[l], c)
      BY <1>5 DEF Granted
    <2>3. \A c \in Chains : Granted(cmd, c)' <=> Granted(cmd, c)
      BY <1>1 DEF Granted
    <2> QED
      BY <2>1, <2>2, <2>3 DEF IInv, ChainInv
  <1>12. SpentInv' /\ MarkInv'
    BY <1>1, <1>3, <1>4, <1>5
    DEF IInv, SpentInv, MarkInv, Unspent, Justified, Saving, Leaving
  <1> QED
    BY <1>7, <1>8, <1>9, <1>10, <1>11, <1>12 DEF IInv

\* The daemon starts with an entry of the owner.
LEMMA OwnerEntry ==
  ASSUME NEW u \in [Names -> Copy]
  PROVE  /\ EnsureOwnerAccount(u) \in [Names -> Copy]
         /\ \A n \in Names : \/ EnsureOwnerAccount(u)[n] = u[n]
                             \/ /\ u[n] = None /\ EnsureOwnerAccount(u)[n] # None
                                /\ EnsureOwnerAccount(u)[n].sub = Directory[n]
                                /\ EnsureOwnerAccount(u)[n].age = Expired
                                /\ EnsureOwnerAccount(u)[n].token = None
                                /\ ~EnsureOwnerAccount(u)[n].revoked
         /\ \A n \in Names : n # Owner => EnsureOwnerAccount(u)[n] = u[n]
  <1> DEFINE r == Blank(Directory[Owner], allocateUID(u, Directory[Owner]))
             v == EnsureOwnerAccount(u)
  <1>1. Owner \in Names /\ Directory[Owner] \in Subs
    BY CacheAssumption
  <1>2. \/ v = u
        \/ u[Owner] = None /\ FreeUids(u, Directory[Owner]) # {} /\ v = [u EXCEPT ![Owner] = r]
    BY DEF EnsureOwnerAccount
  <1>3. FreeUids(u, Directory[Owner]) # {} =>
           /\ r \in Own /\ r # None /\ r.sub = Directory[Owner] /\ r.age = Expired
           /\ r.token = None /\ ~r.revoked
    BY <1>1, Allocates, BlankEntry, Nulls
  <1> HIDE DEF r, v
  <1>4. CASE v = u
    BY <1>4 DEF v
  <1>5. CASE /\ u[Owner] = None /\ FreeUids(u, Directory[Owner]) # {}
             /\ v = [u EXCEPT ![Owner] = r]
    <2>1. /\ v[Owner] = r /\ \A n \in Names : n # Owner => v[n] = u[n]
          /\ v \in [Names -> Copy]
      BY <1>1, <1>3, <1>5 DEF Copy
    <2> QED
      BY <1>3, <1>5, <2>1 DEF v
  <1> QED
    BY <1>2, <1>4, <1>5

LEMMA CrashStep ==
  ASSUME IInv, Crash
  PROVE  IInv'
  <1>1. /\ users' = EnsureOwnerAccount(users) /\ login' = [l \in Logins |-> IdleLogin]
        /\ daemon' = IdleDaemon /\ nss' = IdleOp /\ broker' = IdleBroker
        /\ crashes' = crashes + 1 /\ trouble' = TRUE
        /\ UNCHANGED <<status, cmd, dir, named, enabled, device, vouched>> /\ Collect
    BY DEF Crash, admin
  <1>2. /\ users' \in [Names -> Copy]
        /\ \A n \in Names : \/ users'[n] = users[n]
                            \/ /\ users'[n] # None /\ users'[n].sub = Directory[n]
                               /\ users'[n].age = Expired /\ users'[n].token = None
    BY <1>1, OwnerEntry DEF IInv, Control, Typed
  <1>3. /\ login' \in [Logins -> LoginType]
        /\ \A l \in Logins : /\ login'[l].pc = "idle" /\ login'[l].uc = None
                             /\ LoginFits(login'[l])
    BY <1>1, IdleFits
  <1>4. /\ daemon' \in DaemonType /\ daemon'.pc = "idle" /\ \A n \in Names : daemon'.todo[n] = None
        /\ nss' \in NSSType /\ nss'.pc = "idle" /\ broker' \in BrokerType /\ broker'.pc = "idle"
    BY <1>1, IdleFits
  <1>5. Control'
    <2>1. Typed'
      BY <1>1, <1>2, <1>3, <1>4, CollectTyped DEF IInv, Control, Typed
    <2>2. DaemonFits'
      BY <1>1, <1>4, Zenon DEF DaemonFits, IdleDaemon
    <2>3. OpFits'
      BY <1>1, <1>4 DEF IInv, Control, OpFits
    <2>4. \A l \in Logins : LoginFits(login[l])'
      BY <1>3 DEF LoginFits
    <2> QED
      BY <2>1, <2>2, <2>3, <2>4 DEF Control
  <1>6. NamedInv'
    BY <1>1, <1>2, <1>3, <1>4 DEF IInv, NamedInv
  <1>7. AgeInv'
    <2>1. \A s \in Subs : vouched[s] <= Expired
      BY Bounds DEF IInv, Control, Typed
    <2>2. \A n \in Names : Directory[n] \in Subs
      BY CacheAssumption
    <2> QED
      BY <1>1, <1>2, <1>3, <1>4, <2>1, <2>2 DEF IInv, AgeInv
  <1>8. ChainInv'
    <2>1. \A m \in Names, d \in Chains : Uses(m, d)' => Uses(m, d)
      BY <1>1, <1>2, <1>4 DEF Uses, Of
    <2>2. \A l \in Logins, d \in Chains : ~Granted(login[l], d)'
      BY <1>3 DEF Granted
    <2>3. \A d \in Chains : Granted(cmd, d)' <=> Granted(cmd, d)
      BY <1>1 DEF Granted
    <2> QED
      BY <2>1, <2>2, <2>3 DEF IInv, ChainInv
  <1> QED
    BY <1>1, <1>5, <1>6, <1>7, <1>8 DEF IInv, UidInv, SpentInv, MarkInv

----------------------------------------------------------------------------
(* The theorems. *)

LEMMA InitHolds ==
  ASSUME Init
  PROVE  IInv
  <1> DEFINE none == [n \in Names |-> None]
  <1>1. none \in [Names -> Copy] /\ \A n \in Names : none[n] = None
    BY DEF Copy
  <1>2. /\ users \in [Names -> Copy]
        /\ \A n \in Names : users[n] # None => /\ users[n].sub = Directory[n]
                                               /\ users[n].age = Expired
                                               /\ users[n].token = None /\ ~users[n].revoked
        /\ \A n \in Names : n # Owner => users[n] = None
    <2>1. users = EnsureOwnerAccount(none)
      BY DEF Init
    <2> HIDE DEF none
    <2> QED
      BY <1>1, <2>1, OwnerEntry
  <1>3. /\ login \in [Logins -> LoginType]
        /\ \A l \in Logins : /\ login[l].pc = "idle" /\ login[l].uc = None /\ LoginFits(login[l])
    BY IdleFits DEF Init
  <1>4. /\ daemon \in DaemonType /\ daemon.pc = "idle" /\ \A n \in Names : daemon.todo[n] = None
        /\ nss \in NSSType /\ nss.pc = "idle" /\ broker \in BrokerType /\ broker.pc = "idle"
        /\ cmd \in CmdType /\ cmd.pc = "idle" /\ cmd.uc = None
    BY IdleFits DEF Init
  <1>5. /\ dir = Directory /\ dir \in [Names -> Subs]
        /\ enabled = {Directory[n] : n \in Names} /\ enabled \in SUBSET Subs
    BY CacheAssumption DEF Init
  <1>6. /\ named \in [Subs -> Name]
        /\ \A n \in Names : named[Directory[n]] = n
    <2>1. named = [s \in Subs |-> IF \E n \in Names : Directory[n] = s
                                  THEN CHOOSE n \in Names : Directory[n] = s ELSE None]
      BY DEF Init
    <2>2. ASSUME NEW n \in Names
          PROVE  (CHOOSE m \in Names : Directory[m] = Directory[n]) = n
      BY CacheAssumption
    <2>3. \A n \in Names : Directory[n] \in Subs
      BY CacheAssumption
    <2>4. \A n \in Names : named[Directory[n]] = n
      BY <2>1, <2>2, <2>3
    <2>5. \A s \in Subs : named[s] \in Name
      BY <2>1, <2>4 DEF Name
    <2> QED
      BY <2>1, <2>4, <2>5
  <1>7. /\ chain \in [Chains -> [gen : 0..MaxGen, dead : BOOLEAN]]
        /\ vouched \in [Subs -> 0..Expired] /\ \A s \in Subs : vouched[s] = Expired
    BY Bounds DEF Init, Fresh
  <1>8. Control
    <2>1. Typed
      BY <1>2, <1>3, <1>4, <1>5, <1>6, <1>7 DEF Init, Typed
    <2>2. DaemonFits
      BY <1>4, Zenon DEF Init, DaemonFits, IdleDaemon
    <2>3. OpFits
      BY <1>4 DEF OpFits
    <2> QED
      BY <1>3, <2>1, <2>2, <2>3 DEF Control
  <1>9. NamedInv
    BY <1>2, <1>3, <1>4, <1>5, <1>6, Nulls DEF NamedInv
  <1>10. AgeInv
    BY <1>2, <1>3, <1>4, <1>7, CacheAssumption, Bounds DEF AgeInv
  <1>11. UidInv
    BY <1>2, <1>3, <1>4 DEF UidInv, Distinct, Apart, Allocating
  <1>12. ChainInv
    BY <1>2, <1>3, <1>4 DEF ChainInv, Uses, Granted, Of
  <1>13. SpentInv /\ MarkInv
    BY <1>2, <1>3, <1>4 DEF SpentInv, MarkInv
  <1> QED
    BY <1>8, <1>9, <1>10, <1>11, <1>12, <1>13 DEF IInv

LEMMA NextHolds ==
  ASSUME IInv, Next
  PROVE  IInv'
  <1>1. ASSUME NEW l \in Logins, PAM(l)
        PROVE  IInv'
    <2>1. CASE \E n \in SigningIn : Login(l, n)
      BY <2>1, LoginStep, CacheAssumption
    <2>2. CASE OfflineLogin(l) \/ LoginFails(l)
      BY <2>2, LoginEndsStep DEF OfflineLogin, LoginFails
    <2>3. CASE EmptyPassword(l)
      BY <2>3, EmptyPasswordStep
    <2>4. CASE LoginSave(l)
      BY <2>4, LoginSaveStep
    <2>5. CASE \E s \in Subs, c \in Chains : onlineLogin(l, s, c)
      BY <2>5, OnlineLoginStep
    <2> QED
      BY <1>1, <2>1, <2>2, <2>3, <2>4, <2>5 DEF PAM
  <1>2. CASE RenewHeard \/ Refresh
    BY <1>2, RenewStep, RefreshSaveStep, RefreshDoneStep DEF Refresh
  <1>3. CASE \E n \in Names : RefreshHeard(n) \/ RefreshGarbled(n)
                              \/ \E reached \in BOOLEAN : RefreshLost(n, reached)
    BY <1>3, RefreshHeardStep, RefreshGarbledStep, RefreshLostStep
  <1>4. CASE NSS
    BY <1>4, LookupStep, LookupAnsweredStep, LookupSaveStep DEF NSS
  <1>5. CASE Broker
    BY <1>5, BrokerStep DEF Broker, BrokerAnswers, BrokerRefused
  <1>6. CASE RunSignIn
    BY <1>6, SignInStep, SignInSaveStep, CacheAssumption DEF RunSignIn
  <1>7. CASE RunSignOut
    BY <1>7, SignOutStep, SignOutRevokeStep, SignOutRemoveStep DEF RunSignOut
  <1>8. CASE (\E n \in SigningIn : Disable(dir[n]) \/ \E s \in Subs : Reassign(n, s))
             \/ RevokeDevice
    BY <1>8, AdminStep
  <1>9. CASE Tick \/ Crash
    BY <1>9, TickStep, CrashStep
  <1> QED
    BY <1>1, <1>2, <1>3, <1>4, <1>5, <1>6, <1>7, <1>8, <1>9 DEF Next

LEMMA StutterHolds ==
  ASSUME IInv, UNCHANGED vars
  PROVE  IInv'
  <1>1. UNCHANGED <<users, status, login, daemon, nss, cmd, broker, dir, named, enabled, device,
                    chain, vouched, crashes, trouble>>
    BY DEF vars, procs, server, admin
  <1>2. Control'
    BY <1>1 DEF IInv, Control, Typed, LoginFits, DaemonFits, OpFits
  <1>3. NamedInv' /\ AgeInv' /\ ChainInv' /\ MarkInv'
    BY <1>1 DEF IInv, NamedInv, AgeInv, ChainInv, Uses, Granted, MarkInv, Justified, Leaving
  <1>4. UidInv' /\ SpentInv'
    BY <1>1 DEF IInv, UidInv, Distinct, Keeps, Apart, Allocating, SpentInv, Unspent, Saving, Leaving
  <1> QED
    BY <1>2, <1>3, <1>4 DEF IInv

\* The inductive invariant of conversations, refreshes, lookups, the broker,
\* signin, signout and crashes over the cache.
THEOREM Invariance == Spec => []IInv
  <1>1. Init => IInv
    BY InitHolds
  <1>2. IInv /\ [Next]_vars => IInv'
    BY NextHolds, StutterHolds
  <1> QED
    BY <1>1, <1>2, PTL DEF Spec

\* Every copy of an entry, and the server's state, has its type.
THEOREM TypeCorrect == Spec => []TypeOK
  <1>1. IInv => TypeOK
    <2>1. \A r \in Copy : r \in Entry \cup {None}
      BY OwnFields DEF Copy
    <2> QED
      BY <2>1 DEF IInv, Control, Typed, TypeOK, LoginType, DaemonType, Name
  <1> QED
    BY <1>1, Invariance, PTL

\* No order of whole-entry writes, of renamed and replaced accounts and of crashes
\* leaves one user's local password in the entry of another (the tests of uc.Sub
\* in onlineLogin and SignIn).
THEOREM SecretsAreOwn == Spec => []SecretBelongsToUser
  <1>1. IInv => SecretBelongsToUser
    BY OwnFields DEF IInv, Control, Typed, Copy, SecretBelongsToUser
  <1> QED
    BY <1>1, Invariance, PTL

\* Unless two operations allocate at once, or signin or signout changes an entry
\* under another operation, allocateUID's uids stay apart, however lookups,
\* sign-ins and refreshes interleave.
THEOREM UidsStayApart == Spec => []UidsDistinct
  <1>1. IInv => UidsDistinct
    BY DEF IInv, UidInv, Distinct, UidsDistinct
  <1> QED
    BY <1>1, Invariance, PTL

\* refreshUser's whole-entry write marks an entry only if the server turned the
\* user or the machine away, or signout is about to remove it: a rotated token is
\* never presented again while every reply arrives.
THEOREM LockedOutOnlyForCause == Spec => []LockedOutForCause
  <1>1. IInv => LockedOutForCause
    BY DEF IInv, MarkInv, Justified, Leaving, LockedOutForCause
  <1> QED
    BY <1>1, Invariance, PTL

\* An offline login is within the validity window and one conversation of the
\* server's last word for that user (offlineAllowed, with the time read once).
THEOREM OfflineLoginsAreBacked == Spec => OfflineLoginBacked
  <1> DEFINE A == \A l \in Logins : OfflineLogin(l) =>
                     vouched[login[l].uc.sub] <= Validity + ConversationLimit
  <1>1. IInv => A
    <2> SUFFICES ASSUME IInv, NEW l \in Logins, login[l].pc = "prompt"
                 PROVE  vouched[login[l].uc.sub] <= Validity + ConversationLimit
      BY DEF OfflineLogin
    <2>1. vouched[login[l].uc.sub] <= Validity + login[l].now
      BY DEF IInv, AgeInv
    <2>2. login[l].now \in 0..ConversationLimit
      BY DEF IInv, Control, Typed, LoginType
    <2>3. vouched[login[l].uc.sub] \in Nat
      BY OwnFields, Bounds DEF IInv, Control, Typed, LoginFits
    <2> QED
      BY <2>1, <2>2, <2>3, Bounds
  <1> QED
    BY <1>1, Invariance, PTL DEF OfflineLoginBacked
=============================================================================
