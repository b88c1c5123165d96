--------------------------- MODULE AccountsProofs ---------------------------
(***************************************************************************)
(* What Accounts keeps for any number of accounts, names, tokens, requests *)
(* and faults. A request carries what it read across its steps, so most of *)
(* the work is to say what is still true of it when it is used: whom it    *)
(* acts on and as whom (Fits), that the account it loaded has kept its     *)
(* name and its id (BoundInv), and what was overtaken (EntryInv, TokenInv).*)
(***************************************************************************)
EXTENDS Accounts, TLAPS

-----------------------------------------------------------------------------
(* The inductive invariant. *)

\* Steps of a deletion from its count of the administrators to its last
\* statement; dropSessions is shared with other requests.
Removing(q) ==
    \/ q.at \in {"count", "dirDelete", "deleteTokens", "deleteUser"}
    \/ q.at = "dropSessions" /\ q.op = "delete"

\* What a request carries when it stands before a step.
Fits(q) ==
    /\ q.at = "start" => ~q.flag
    /\ q.at \in {"setDisabled", "revokeTokens"} =>
          q.op = "toggle" /\ q.user \in Users /\ q.actor # q.user
    /\ q.at = "insert" =>
          /\ q.name \in Names /\ q.row \in Row
          /\ q.row.name = q.name /\ ~q.row.disabled
          /\ q.op = "setup" => ~q.flag
          /\ q.op = "signIn" => ~q.row.local
    /\ q.at \in {"dirCreate", "dirPassword"} =>
          /\ q.name \in Names /\ q.op \in {"createDirectory", "promote"}
          /\ q.op = "promote" => q.user \in Users
    /\ q.at = "upsert" =>
          /\ q.name \in Names /\ q.op \in {"createDirectory", "signIn"}
          /\ q.op = "signIn" => q.row \in Row
    /\ q.at = "load" =>
          /\ q.op \in {"promote", "edit", "delete"} /\ q.user \in Users
          /\ q.op = "delete" => q.actor # q.user
    /\ q.at \in {"lookup", "link"} =>
          q.op = "promote" /\ q.user \in Users /\ q.name \in Names
    /\ q.at \in {"mirror", "dirUpdate", "writeBack"} =>
          q.user \in Users /\ q.name \in Names /\ q.row \in Row
    /\ Removing(q) =>
          /\ q.op = "delete" /\ q.user \in Users /\ q.name \in Names
          /\ q.row \in Row /\ q.actor # q.user
    /\ q.at = "dirDelete" => ~q.row.local
    /\ q.at = "bind" => q.op = "signIn" /\ q.name \in Names
    /\ q.at \in {"session", "insertToken"} => q.user \in Users

Control == \A r \in Requests : Fits(work[r])

\* Steps at which a request relies on the name of the account it looked up.
Loaded(q) ==
    \/ q.at \in {"mirror", "session", "lookup", "link", "count", "dirDelete"}
    \/ q.at \in {"dirCreate", "dirPassword"} /\ q.op = "promote"

\* The account was there, and if it still is it has the name it had.
Bound(q) ==
    users[q.user] # None /\ (Exists(q.user) => users[q.user].name = q.name)

BoundInv ==
    /\ \A u, v \in Users :
          (Exists(u) /\ Exists(v) /\ users[u].name = users[v].name) => u = v
    /\ \A r \in Requests : Loaded(work[r]) => Bound(work[r])

\* The sessions of the directory, and the ones about to be opened.
TakeoverInv ==
    /\ \A s \in sessions : s.directory => Exists(s.user) /\ ~users[s.user].local
    /\ \A r \in Requests :
          (work[r].at \in {"mirror", "session"} /\ work[r].flag /\ Exists(work[r].user))
             => ~users[work[r].user].local

\* MirrorHasEntry's exceptions: a deletion of this very account has taken the
\* entry, or history names another reason.
Deleting(u) ==
    \E r \in Requests :
        /\ work[r].op = "delete" /\ work[r].user = u
        /\ work[r].name = users[u].name /\ ~work[r].row.local
        /\ work[r].at \in {"dropSessions", "deleteTokens", "deleteUser", "cut"}

Excused == cause \cap {"removed", "revived", "stale"} # {}

Mirroring(q) == q.at = "upsert" \/ (q.at = "insert" /\ ~q.row.local)

\* Mirrors, and the requests about to make one, have the entry.
EntryInv ==
    /\ \A u \in Users :
          (Exists(u) /\ ~users[u].local /\ entries[users[u].name] = None)
             => (Deleting(u) \/ Excused)
    /\ \A r \in Requests :
          Mirroring(work[r]) =>
             (entries[work[r].name] # None \/ work[r].crossed \/ Excused)
    /\ \A r \in Requests :
          (work[r].at = "link" /\ Exists(work[r].user)) =>
             (entries[work[r].name] # None \/ Deleting(work[r].user) \/ Excused)

\* No good token of u is left, nor is one about to be inserted unnoticed.
Stopped(u) ==
    /\ \A t \in Tokens :
          (pats[t] \in Pat /\ pats[t].user = u) => (pats[t].revoked \/ pats[t].crossed)
    /\ \A r \in Requests :
          (work[r].at = "insertToken" /\ work[r].user = u) => work[r].crossed

Pending(u) ==
    \E r \in Requests :
        /\ work[r].op = "toggle" /\ work[r].user = u
        /\ work[r].at \in {"revokeTokens", "cut"}

TokenInv ==
    \A u \in Users :
        \/ Stopped(u)
        \/ /\ device.status # "revoked"
           /\ (Exists(u) /\ users[u].disabled) => (Pending(u) \/ "overtaken" \in cause)

GatewayInv ==
    \A t \in gateway : pats[t] = Gone \/ (pats[t] \in Pat /\ pats[t].revoked)

-----------------------------------------------------------------------------
(* The steps of a request.                                                 *)

\* A request begins.
Begins(r) ==
    \/ \E a, u \in Users :
          \/ \E off \in BOOLEAN : ToggleUser(r, a, u, off)
          \/ \E op \in {"promote", "edit", "delete"}, flag \in BOOLEAN :
                ManageUser(r, a, u, op, flag)
    \/ \E a \in Users, n \in Names, flag \in BOOLEAN : CreateUser(r, a, n, flag)
    \/ \E n \in Names : SignIn(r, n) \/ Setup(r, n)
    \/ \E u \in Users : CreatePAT(r, u)

\* A request reads and decides: only the request changes (and faults).
Decides(r) ==
    \/ Load(r) \/ CountAdmins(r) \/ LookupDN(r) \/ DirUpdate(r)
    \/ Upsert(r) \/ Bind(r) \/ Cut(r)

\* A request writes the users table.
WritesUsers(r) ==
    \/ SetUserDisabled(r) \/ Insert(r) \/ Mirror(r) \/ Link(r)
    \/ WriteBack(r) \/ DeleteUser(r)

\* A request writes the directory, the sessions or the tokens.
WritesElse(r) ==
    \/ DirCreate(r) \/ DirSetPassword(r) \/ DirDelete(r)
    \/ DropSessions(r) \/ IssueSession(r)
    \/ RevokeTokens(r) \/ DeleteTokens(r) \/ InsertToken(r)

Acts(r) == Begins(r) \/ Decides(r) \/ WritesUsers(r) \/ WritesElse(r)

LEMMA StepCases ==
  ASSUME Next
  PROVE  \/ \E r \in Requests : Acts(r)
         \/ \E t \in Tokens : RevokePAT(t) \/ ExpireToken(t)
         \/ RevokeDevice \/ FetchRevoked
         \/ \E n \in Names : EditOutside(n)
  BY DEF Next, Administer, Directory, Enter, Delegate, Acts, Begins, Decides,
       WritesUsers, WritesElse

\* A request that does not move keeps everything; it may be marked as crossed.
Kept(p, q) ==
    /\ q.op = p.op /\ q.at = p.at /\ q.actor = p.actor /\ q.user = p.user
    /\ q.name = p.name /\ q.row = p.row /\ q.flag = p.flag
    /\ p.crossed => q.crossed

\* What Moved makes of a request.
LEMMA MovedFields ==
  ASSUME NEW p \in Request, NEW at \in Steps
  PROVE  /\ Moved(p, at) \in Request /\ Moved(p, at).at = at
         /\ at # "done" =>
              /\ Moved(p, at).op = p.op /\ Moved(p, at).actor = p.actor
              /\ Moved(p, at).user = p.user /\ Moved(p, at).name = p.name
              /\ Moved(p, at).row = p.row /\ Moved(p, at).flag = p.flag
              /\ Moved(p, at).crossed = p.crossed
  <1>1. Fresh \in Request
    BY DEF Fresh, Request, Ops, Steps
  <1>2. CASE at = "done"
    BY <1>1, <1>2 DEF Moved, Request
  <1>3. CASE at # "done"
    BY <1>3 DEF Moved, Request
  <1> QED
    BY <1>2, <1>3

LEMMA EndedFits ==
  ASSUME NEW q, q.at \in {"done", "cut"}
  PROVE  Fits(q)
  BY DEF Fits, Removing

\* A request that begins.
LEMMA BeginsMoves ==
  ASSUME TypeOK, Control, NEW r \in Requests, Begins(r)
  PROVE  \E q \in Request : Fits(q) /\ work' = [work EXCEPT ![r] = q]
  <1> DEFINE Goal == \E q \in Request : Fits(q) /\ work' = [work EXCEPT ![r] = q]
  <1>1. work[r] \in Request /\ Fits(work[r]) /\ work \in [Requests -> Request]
    BY DEF TypeOK, Control
  <1>2. work[r].at = "start" => ~work[r].flag
    BY <1>1 DEF Fits
  <1>3. ASSUME NEW a \in Users, NEW u \in Users, NEW off \in BOOLEAN, ToggleUser(r, a, u, off)
        PROVE  Goal
    <2> DEFINE q == [work[r] EXCEPT !.op = "toggle", !.at = "setDisabled",
                          !.actor = a, !.user = u, !.flag = off]
    <2>1. work' = [work EXCEPT ![r] = q] /\ a # u
      BY <1>1, <1>3 DEF ToggleUser
    <2>2. q \in Request
      BY <1>1 DEF Request, Ops, Steps
    <2>3. q.op = "toggle" /\ q.at = "setDisabled" /\ q.actor = a /\ q.user = u
      BY <1>1 DEF Request
    <2> HIDE DEF q
    <2>4. Fits(q)
      BY <2>1, <2>3 DEF Fits, Removing
    <2> QED
      BY <2>1, <2>2, <2>4
  <1>4. ASSUME NEW a \in Users, NEW u \in Users, NEW op \in {"promote", "edit", "delete"},
               NEW flag \in BOOLEAN, ManageUser(r, a, u, op, flag)
        PROVE  Goal
    <2> DEFINE q == [work[r] EXCEPT !.op = op, !.at = "load",
                          !.actor = a, !.user = u, !.flag = flag]
    <2>1. work' = [work EXCEPT ![r] = q] /\ (op = "delete" => a # u)
      BY <1>1, <1>4 DEF ManageUser
    <2>2. q \in Request
      BY <1>1 DEF Request, Ops, Steps
    <2>3. q.op = op /\ q.at = "load" /\ q.actor = a /\ q.user = u
      BY <1>1 DEF Request
    <2> HIDE DEF q
    <2>4. Fits(q)
      BY <2>1, <2>3 DEF Fits, Removing
    <2> QED
      BY <2>1, <2>2, <2>4
  <1>5. ASSUME NEW n \in Names, NEW admin \in BOOLEAN
        PROVE  /\ LocalRow(n, admin) \in Row
               /\ LocalRow(n, admin).name = n /\ ~LocalRow(n, admin).disabled
    BY DEF LocalRow, Row
  <1>6. ASSUME NEW a \in Users, NEW n \in Names, NEW flag \in BOOLEAN, CreateUser(r, a, n, flag)
        PROVE  Goal
    <2> DEFINE q == [work[r] EXCEPT !.op = "create", !.at = "insert", !.actor = a,
                          !.name = n, !.row = LocalRow(n, flag)]
               d == [work[r] EXCEPT !.op = "createDirectory", !.at = "dirCreate",
                          !.actor = a, !.name = n, !.flag = flag]
    <2>1. work' = [work EXCEPT ![r] = q] \/ work' = [work EXCEPT ![r] = d]
      BY <1>1, <1>6 DEF CreateUser
    <2>2. q \in Request /\ d \in Request
      BY <1>1, <1>5 DEF Request, Ops, Steps
    <2>3. /\ q.op = "create" /\ q.at = "insert" /\ q.name = n /\ q.row = LocalRow(n, flag)
          /\ d.op = "createDirectory" /\ d.at = "dirCreate" /\ d.name = n
      BY <1>1 DEF Request
    <2> HIDE DEF q, d
    <2>4. Fits(q) /\ Fits(d)
      BY <1>5, <2>3 DEF Fits, Removing
    <2> QED
      BY <2>1, <2>2, <2>4
  <1>7. ASSUME NEW n \in Names, Setup(r, n)
        PROVE  Goal
    <2> DEFINE q == [work[r] EXCEPT !.op = "setup", !.at = "insert", !.name = n,
                          !.row = LocalRow(n, TRUE)]
    <2>1. work' = [work EXCEPT ![r] = q] /\ work[r].at = "start"
      BY <1>1, <1>7 DEF Setup, At
    <2>2. q \in Request
      BY <1>1, <1>5 DEF Request, Ops, Steps
    <2>3. q.op = "setup" /\ q.at = "insert" /\ q.name = n /\ q.row = LocalRow(n, TRUE) /\ ~q.flag
      BY <1>1, <1>2, <2>1 DEF Request
    <2> HIDE DEF q
    <2>4. Fits(q)
      BY <1>5, <2>3 DEF Fits, Removing
    <2> QED
      BY <2>1, <2>2, <2>4
  <1>8. ASSUME NEW n \in Names, SignIn(r, n)
        PROVE  Goal
    <2>1. ASSUME NEW u \in Users, NEW at \in {"done", "session"},
                 work' = [work EXCEPT ![r] =
                            Moved([@ EXCEPT !.op = "signIn", !.name = n, !.user = u], at)]
          PROVE  Goal
      <3> DEFINE p == [work[r] EXCEPT !.op = "signIn", !.name = n, !.user = u]
      <3>1. p \in Request /\ p.user = u /\ work' = [work EXCEPT ![r] = Moved(p, at)]
        BY <1>1, <2>1 DEF Request, Ops
      <3> HIDE DEF p
      <3>2. at \in Steps
        BY DEF Steps
      <3>3. /\ Moved(p, at) \in Request /\ Moved(p, at).at = at
            /\ at = "session" => Moved(p, at).user = u
        BY <3>1, <3>2, MovedFields
      <3>4. Fits(Moved(p, at))
        BY <3>3 DEF Fits, Removing
      <3> QED
        BY <3>1, <3>3, <3>4
    <2>2. ASSUME work' = [work EXCEPT ![r].op = "signIn", ![r].name = n, ![r].at = "bind"]
          PROVE  Goal
      <3> DEFINE q == [work[r] EXCEPT !.op = "signIn", !.name = n, !.at = "bind"]
      <3>1. q \in Request /\ work' = [work EXCEPT ![r] = q]
        BY <1>1, <2>2 DEF Request, Ops, Steps
      <3>2. q.op = "signIn" /\ q.at = "bind" /\ q.name = n
        BY <1>1 DEF Request
      <3> HIDE DEF q
      <3>3. Fits(q)
        BY <3>2 DEF Fits, Removing
      <3> QED
        BY <3>1, <3>3
    <2> QED
      BY <1>8, <2>1, <2>2 DEF SignIn, ByName
  <1>9. ASSUME NEW u \in Users, CreatePAT(r, u)
        PROVE  Goal
    <2> DEFINE q == [work[r] EXCEPT !.op = "createPat", !.at = "insertToken", !.user = u]
    <2>1. work' = [work EXCEPT ![r] = q]
      BY <1>1, <1>9 DEF CreatePAT
    <2>2. q \in Request
      BY <1>1 DEF Request, Ops, Steps
    <2>3. q.at = "insertToken" /\ q.user = u
      BY <1>1 DEF Request
    <2> HIDE DEF q
    <2>4. Fits(q)
      BY <2>3 DEF Fits, Removing
    <2> QED
      BY <2>1, <2>2, <2>4
  <1> QED
    BY <1>3, <1>4, <1>6, <1>7, <1>8, <1>9 DEF Begins

\* A request that moves on, given that what it carries fits its next step.
LEMMA ContinueMoves ==
  ASSUME TypeOK, NEW r \in Requests, NEW at \in Steps, Continue(r, at),
         \A q \in Request :
            (/\ q.at = at
             /\ at # "done" => (/\ q.op = work[r].op /\ q.actor = work[r].actor
                                /\ q.user = work[r].user /\ q.name = work[r].name
                                /\ q.row = work[r].row /\ q.flag = work[r].flag))
            => Fits(q)
  PROVE  \E q \in Request : Fits(q) /\ work' = [work EXCEPT ![r] = q]
  <1>1. work[r] \in Request
    BY DEF TypeOK
  <1>2. work' = [work EXCEPT ![r] = Moved(work[r], at)]
    BY DEF Continue
  <1>3. Moved(work[r], at) \in Request /\ Fits(Moved(work[r], at))
    BY <1>1, MovedFields
  <1> QED
    BY <1>2, <1>3

LEMMA FinishMoves ==
  ASSUME TypeOK, NEW r \in Requests, NEW at \in {"done", "cut"}, Continue(r, at)
  PROVE  \E q \in Request : Fits(q) /\ work' = [work EXCEPT ![r] = q]
  BY ContinueMoves, EndedFits DEF Steps

\* A request that reads and decides.
LEMMA DecidesMoves ==
  ASSUME TypeOK, Control, NEW r \in Requests, Decides(r)
  PROVE  \E q \in Request : Fits(q) /\ work' = [work EXCEPT ![r] = q]
  <1> DEFINE Goal == \E q \in Request : Fits(q) /\ work' = [work EXCEPT ![r] = q]
  <1>1. work[r] \in Request /\ Fits(work[r]) /\ work \in [Requests -> Request]
    BY DEF TypeOK, Control
  <1>2. CASE Load(r)
    <2>1. work[r].at = "load"
      BY <1>2 DEF Load, At
    <2>2. /\ work[r].op \in {"promote", "edit", "delete"} /\ work[r].user \in Users
          /\ work[r].op = "delete" => work[r].actor # work[r].user
      BY <1>1, <2>1 DEF Fits
    <2>3. CASE Exists(work[r].user)
      <3> DEFINE row == users[work[r].user]
                 p == [work[r] EXCEPT !.row = row, !.name = row.name]
                 at == NextOf(work[r].op, row)
      <3>1. row \in Row /\ row.name \in Names
        BY <2>3 DEF Exists, Row
      <3>2. work' = [work EXCEPT ![r] = Moved(p, at)]
        BY <1>1, <1>2, <2>3 DEF Load
      <3>3. /\ p \in Request /\ p.row = row /\ p.name = row.name /\ p.op = work[r].op
            /\ p.user = work[r].user /\ p.actor = work[r].actor
        BY <1>1, <3>1 DEF Request
      <3>4. /\ at \in {"done", "lookup", "dirUpdate", "count", "dropSessions", "dirDelete"}
            /\ at = "lookup" => work[r].op = "promote"
            /\ at \in {"count", "dropSessions", "dirDelete"} => work[r].op = "delete"
            /\ at = "dirDelete" => ~row.local
        <4>1. CASE work[r].op = "promote"
          BY <4>1 DEF NextOf
        <4>2. CASE work[r].op = "edit"
          BY <4>2 DEF NextOf
        <4>3. CASE work[r].op = "delete"
          BY <4>3 DEF NextOf, DeleteFrom
        <4> QED
          BY <2>2, <4>1, <4>2, <4>3
      <3> HIDE DEF p, at, row
      <3>5. at \in Steps
        BY <3>4 DEF Steps
      <3> DEFINE q == Moved(p, at)
      <3>6. /\ q \in Request /\ q.at = at
            /\ at # "done" => /\ q.op = p.op /\ q.actor = p.actor /\ q.user = p.user
                              /\ q.name = p.name /\ q.row = p.row
        BY <3>3, <3>5, MovedFields
      <3> HIDE DEF q
      <3>7. Fits(q)
        <4>1. CASE at = "done"
          BY <3>6, <4>1, EndedFits
        <4>2. CASE at = "lookup"
          BY <2>2, <3>1, <3>3, <3>4, <3>6, <4>2 DEF Fits, Removing
        <4>3. CASE at = "dirUpdate"
          BY <2>2, <3>1, <3>3, <3>4, <3>6, <4>3 DEF Fits, Removing
        <4>4. CASE at \in {"count", "dropSessions", "dirDelete"}
          BY <2>2, <3>1, <3>3, <3>4, <3>6, <4>4 DEF Fits, Removing
        <4> QED
          BY <3>4, <4>1, <4>2, <4>3, <4>4
      <3> QED
        BY <3>2, <3>6, <3>7 DEF q
    <2>4. CASE ~Exists(work[r].user)
      BY <1>2, <2>4, FinishMoves DEF Load, Finish
    <2> QED
      BY <2>3, <2>4
  <1>3. CASE CountAdmins(r)
    <2>1. work[r].at = "count"
      BY <1>3 DEF CountAdmins, At
    <2>2. /\ work[r].op = "delete" /\ work[r].user \in Users /\ work[r].name \in Names
          /\ work[r].row \in Row /\ work[r].actor # work[r].user
      BY <1>1, <2>1 DEF Fits, Removing
    <2>3. PICK at \in {"done", "dropSessions", "dirDelete"} :
             Continue(r, at) /\ (at = "dirDelete" => ~work[r].row.local)
      BY <1>3 DEF CountAdmins, DeleteFrom
    <2>4. \A q \in Request :
            (/\ q.at = at
             /\ at # "done" => (/\ q.op = work[r].op /\ q.actor = work[r].actor
                                /\ q.user = work[r].user /\ q.name = work[r].name
                                /\ q.row = work[r].row /\ q.flag = work[r].flag))
            => Fits(q)
      BY <2>2, <2>3 DEF Fits, Removing
    <2> QED
      BY <2>3, <2>4, ContinueMoves DEF Steps
  <1>4. CASE LookupDN(r)
    <2>1. work[r].at = "lookup"
      BY <1>4 DEF LookupDN, At
    <2>2. work[r].op = "promote" /\ work[r].user \in Users /\ work[r].name \in Names
      BY <1>1, <2>1 DEF Fits
    <2>3. PICK at \in {"dirCreate", "link"} : Continue(r, at)
      BY <1>4 DEF LookupDN
    <2>4. \A q \in Request :
            (q.at = at /\ q.op = work[r].op /\ q.user = work[r].user /\ q.name = work[r].name)
            => Fits(q)
      BY <2>2 DEF Fits, Removing
    <2> QED
      BY <2>3, <2>4, ContinueMoves DEF Steps
  <1>5. CASE DirUpdate(r)
    <2>1. work[r].at = "dirUpdate"
      BY <1>5 DEF DirUpdate, At
    <2>2. work[r].user \in Users /\ work[r].name \in Names /\ work[r].row \in Row
      BY <1>1, <2>1 DEF Fits
    <2>3. PICK at \in {"done", "writeBack"} : Continue(r, at)
      BY <1>5 DEF DirUpdate
    <2>4. \A q \in Request :
            (/\ q.at = at
             /\ at # "done" => (/\ q.user = work[r].user /\ q.name = work[r].name
                                /\ q.row = work[r].row))
            => Fits(q)
      BY <2>2 DEF Fits, Removing
    <2> QED
      BY <2>3, <2>4, ContinueMoves DEF Steps
  <1>6. CASE Upsert(r)
    <2> DEFINE n == work[r].name
               admin == work[r].op = "signIn" /\ work[r].row.admin
               mirror == [name |-> n, admin |-> admin, disabled |-> FALSE, local |-> FALSE]
    <2>1. work[r].at = "upsert"
      BY <1>6 DEF Upsert, At
    <2>2. /\ n \in Names /\ work[r].op \in {"createDirectory", "signIn"}
          /\ work[r].op = "signIn" => work[r].row \in Row
      BY <1>1, <2>1 DEF Fits
    <2>3. admin \in BOOLEAN
      OBVIOUS
    <2> HIDE DEF n, admin
    <2>4. /\ mirror \in Row /\ mirror.name = n /\ ~mirror.disabled /\ ~mirror.local
      BY <2>2, <2>3 DEF Row
    <2>5. ASSUME NEW u \in Mirrors(n),
                 work' = [work EXCEPT ![r].at = "mirror", ![r].user = u,
                            ![r].row = [mirror EXCEPT !.disabled = users[u].disabled]]
          PROVE  Goal
      <3>1. u \in Users /\ users[u].disabled \in BOOLEAN
        BY <2>5 DEF Mirrors, ByName, Exists, Row
      <3>2. [mirror EXCEPT !.disabled = users[u].disabled] \in Row
        BY <2>4, <3>1 DEF Row
      <3> DEFINE row == [mirror EXCEPT !.disabled = users[u].disabled]
      <3> HIDE DEF row
      <3> DEFINE q == [work[r] EXCEPT !.at = "mirror", !.user = u, !.row = row]
      <3>3. work' = [work EXCEPT ![r] = q]
        BY <1>1, <2>5 DEF row
      <3>4. q \in Request /\ q.at = "mirror" /\ q.user = u /\ q.row = row /\ q.name = n
        BY <1>1, <3>1, <3>2 DEF Request, Steps, row, n
      <3> HIDE DEF q
      <3>5. Fits(q)
        BY <2>2, <3>1, <3>2, <3>4 DEF Fits, Removing, row
      <3> QED
        BY <3>3, <3>4, <3>5
    <2>6. ASSUME work' = [work EXCEPT ![r].at = "insert", ![r].row = mirror]
          PROVE  Goal
      <3> HIDE DEF mirror
      <3> DEFINE q == [work[r] EXCEPT !.at = "insert", !.row = mirror]
      <3>1. work' = [work EXCEPT ![r] = q]
        BY <1>1, <2>6
      <3>2. q \in Request /\ q.at = "insert" /\ q.op = work[r].op /\ q.row = mirror /\ q.name = n
        BY <1>1, <2>4 DEF Request, Steps, n
      <3> HIDE DEF q
      <3>3. Fits(q)
        BY <2>2, <2>4, <3>2 DEF Fits, Removing
      <3> QED
        BY <3>1, <3>2, <3>3
    <2>7. CASE Finish(r)
      BY <2>7, FinishMoves DEF Finish
    <2> QED
      BY <1>6, <2>5, <2>6, <2>7 DEF Upsert, n, admin
  <1>7. CASE Bind(r)
    <2> DEFINE n == work[r].name
    <2>1. work[r].at = "bind"
      BY <1>7 DEF Bind, At
    <2>2. work[r].op = "signIn" /\ n \in Names
      BY <1>1, <2>1 DEF Fits
    <2>3. ASSUME NEW admin \in BOOLEAN,
                 work' = [work EXCEPT ![r].at = "upsert", ![r].flag = TRUE,
                              ![r].row = [name |-> n, admin |-> admin,
                                          disabled |-> FALSE, local |-> FALSE]]
          PROVE  Goal
      <3> DEFINE row == [name |-> n, admin |-> admin, disabled |-> FALSE, local |-> FALSE]
      <3>1. row \in Row
        BY <2>2 DEF Row
      <3> HIDE DEF row
      <3> DEFINE q == [work[r] EXCEPT !.at = "upsert", !.flag = TRUE, !.row = row]
      <3>2. work' = [work EXCEPT ![r] = q]
        BY <1>1, <2>3 DEF row
      <3>3. q \in Request /\ q.at = "upsert" /\ q.op = "signIn" /\ q.row = row /\ q.name = n
        BY <1>1, <2>2, <3>1 DEF Request, Steps
      <3> HIDE DEF q
      <3>4. Fits(q)
        BY <2>2, <3>1, <3>3 DEF Fits, Removing
      <3> QED
        BY <3>2, <3>3, <3>4
    <2>4. CASE Finish(r)
      BY <2>4, FinishMoves DEF Finish
    <2> QED
      BY <1>7, <2>3, <2>4 DEF Bind
  <1>8. CASE Cut(r)
    BY <1>8, FinishMoves DEF Cut
  <1> QED
    BY <1>2, <1>3, <1>4, <1>5, <1>6, <1>7, <1>8 DEF Decides

\* A request that writes the users table.
LEMMA WritesUsersMoves ==
  ASSUME TypeOK, Control, NEW r \in Requests, WritesUsers(r)
  PROVE  \E q \in Request : Fits(q) /\ work' = [work EXCEPT ![r] = q]
  <1> DEFINE Goal == \E q \in Request : Fits(q) /\ work' = [work EXCEPT ![r] = q]
  <1>1. work[r] \in Request /\ Fits(work[r]) /\ work \in [Requests -> Request]
    BY DEF TypeOK, Control
  <1>2. Finish(r) => Goal
    BY FinishMoves DEF Finish
  <1>3. CASE SetUserDisabled(r)
    <2>1. work[r].at = "setDisabled"
      BY <1>3 DEF SetUserDisabled, At
    <2>2. work[r].op = "toggle" /\ work[r].user \in Users /\ work[r].actor # work[r].user
      BY <1>1, <2>1 DEF Fits
    <2>3. \A q \in Request :
            (/\ q.at = "revokeTokens" /\ q.op = work[r].op
             /\ q.user = work[r].user /\ q.actor = work[r].actor)
            => Fits(q)
      BY <2>2 DEF Fits, Removing
    <2>4. Continue(r, "revokeTokens") => Goal
      BY <2>3, ContinueMoves DEF Steps
    <2> QED
      BY <1>2, <1>3, <2>4 DEF SetUserDisabled
  <1>4. CASE Insert(r)
    <2>1. ASSUME NEW u \in Users, NEW at \in {"session", "done"},
                 work' = [work EXCEPT ![r] = Moved([@ EXCEPT !.user = u], at)]
          PROVE  Goal
      <3> DEFINE p == [work[r] EXCEPT !.user = u]
      <3>1. p \in Request /\ p.user = u /\ work' = [work EXCEPT ![r] = Moved(p, at)]
        BY <1>1, <2>1 DEF Request
      <3> HIDE DEF p
      <3>2. at \in Steps
        BY DEF Steps
      <3>3. /\ Moved(p, at) \in Request /\ Moved(p, at).at = at
            /\ at = "session" => Moved(p, at).user = u
        BY <3>1, <3>2, MovedFields
      <3>4. Fits(Moved(p, at))
        BY <3>3 DEF Fits, Removing
      <3> QED
        BY <3>1, <3>3, <3>4
    <2> QED
      BY <1>2, <1>4, <2>1 DEF Insert
  <1>5. CASE Mirror(r)
    <2>1. work[r].at = "mirror"
      BY <1>5 DEF Mirror, At
    <2>2. work[r].user \in Users
      BY <1>1, <2>1 DEF Fits
    <2>3. \A q \in Request : (q.at = "session" /\ q.user = work[r].user) => Fits(q)
      BY <2>2 DEF Fits, Removing
    <2>4. Continue(r, "session") => Goal
      BY <2>3, ContinueMoves DEF Steps
    <2> QED
      BY <1>2, <1>5, <2>4 DEF Mirror
  <1>6. CASE Link(r)
    <2>1. work[r].at = "link"
      BY <1>6 DEF Link, At
    <2>2. work[r].op = "promote"
      BY <1>1, <2>1 DEF Fits
    <2>3. \A q \in Request : (q.at = "dropSessions" /\ q.op = work[r].op) => Fits(q)
      BY <2>2 DEF Fits, Removing
    <2>4. Continue(r, "dropSessions") => Goal
      BY <2>3, ContinueMoves DEF Steps
    <2> QED
      BY <1>2, <1>6, <2>4 DEF Link
  <1>7. CASE WriteBack(r) \/ DeleteUser(r)
    BY <1>2, <1>7 DEF WriteBack, DeleteUser
  <1> QED
    BY <1>3, <1>4, <1>5, <1>6, <1>7 DEF WritesUsers

\* A request that writes elsewhere, except the two that mark other requests.
LEMMA WritesElseMoves ==
  ASSUME TypeOK, Control, NEW r \in Requests,
         \/ DirCreate(r) \/ DirSetPassword(r) \/ DropSessions(r) \/ IssueSession(r)
         \/ DeleteTokens(r) \/ InsertToken(r)
  PROVE  \E q \in Request : Fits(q) /\ work' = [work EXCEPT ![r] = q]
  <1> DEFINE Goal == \E q \in Request : Fits(q) /\ work' = [work EXCEPT ![r] = q]
  <1>1. work[r] \in Request /\ Fits(work[r]) /\ work \in [Requests -> Request]
    BY DEF TypeOK, Control
  <1>2. Finish(r) => Goal
    BY FinishMoves DEF Finish
  <1>3. ASSUME work[r].at \in {"dirCreate", "dirPassword"},
               NEW at \in {"dirPassword", "link", "upsert"}, Continue(r, at),
               at # "dirPassword" => (at = "link" <=> work[r].op = "promote")
        PROVE  Goal
    <2>1. /\ work[r].name \in Names /\ work[r].op \in {"createDirectory", "promote"}
          /\ work[r].op = "promote" => work[r].user \in Users
      BY <1>1, <1>3 DEF Fits
    <2>2. \A q \in Request :
            (q.at = at /\ q.op = work[r].op /\ q.user = work[r].user /\ q.name = work[r].name)
            => Fits(q)
      BY <1>3, <2>1 DEF Fits, Removing
    <2> QED
      BY <1>3, <2>2, ContinueMoves DEF Steps
  <1>4. CASE DirCreate(r)
    BY <1>2, <1>3, <1>4 DEF DirCreate, At
  <1>5. CASE DirSetPassword(r)
    BY <1>2, <1>3, <1>5 DEF DirSetPassword, At
  <1>6. ASSUME Removing(work[r]), NEW at \in {"deleteTokens", "deleteUser"}, Continue(r, at)
        PROVE  Goal
    <2>1. /\ work[r].op = "delete" /\ work[r].user \in Users /\ work[r].name \in Names
          /\ work[r].row \in Row /\ work[r].actor # work[r].user
      BY <1>1, <1>6 DEF Fits
    <2>2. \A q \in Request :
            (/\ q.at = at /\ q.op = work[r].op /\ q.user = work[r].user
             /\ q.name = work[r].name /\ q.row = work[r].row /\ q.actor = work[r].actor)
            => Fits(q)
      BY <2>1 DEF Fits, Removing
    <2> QED
      BY <1>6, <2>2, ContinueMoves DEF Steps
  <1>7. CASE DropSessions(r)
    BY <1>2, <1>6, <1>7 DEF DropSessions, At, Removing
  <1>8. CASE DeleteTokens(r)
    BY <1>6, <1>8 DEF DeleteTokens, At, Removing
  <1>9. CASE IssueSession(r) \/ InsertToken(r)
    BY <1>2, <1>9 DEF IssueSession, InsertToken
  <1> QED
    BY <1>4, <1>5, <1>7, <1>8, <1>9

\* Requests that are marked as crossed are otherwise the same.
LEMMA CrossedKept ==
  ASSUME NEW p \in Request
  PROVE  /\ [p EXCEPT !.crossed = TRUE] \in Request
         /\ Kept(p, [p EXCEPT !.crossed = TRUE]) /\ Kept(p, p)
         /\ [p EXCEPT !.crossed = TRUE].crossed
  BY DEF Request, Kept

LEMMA KeptFits ==
  ASSUME NEW p, NEW q, Kept(p, q), Fits(p)
  PROVE  Fits(q)
  BY DEF Kept, Fits, Removing

LEMMA CrossingKept ==
  ASSUME TypeOK, NEW S
  PROVE  /\ Crossing(S) \in [Requests -> Request]
         /\ \A q \in Requests : Kept(work[q], Crossing(S)[q])
         /\ \A q \in Requests :
               (work[q].at = "insertToken" /\ work[q].user \in S) => Crossing(S)[q].crossed
  BY CrossedKept DEF TypeOK, Crossing

\* One request moves to a step it fits; the others stay where they are.
LEMMA OneMoves ==
  ASSUME TypeOK, Control, NEW r \in Requests, Acts(r)
  PROVE  /\ work' \in [Requests -> Request]
         /\ Fits(work'[r])
         /\ \A q \in Requests \ {r} : Kept(work[q], work'[q])
  <1>1. work[r] \in Request /\ Fits(work[r]) /\ work \in [Requests -> Request]
    BY DEF TypeOK, Control
  <1>2. ASSUME NEW q \in Request, Fits(q), work' = [work EXCEPT ![r] = q]
        PROVE  /\ work' \in [Requests -> Request]
               /\ Fits(work'[r])
               /\ \A p \in Requests \ {r} : Kept(work[p], work'[p])
    BY <1>1, <1>2 DEF Kept
  <1>3. CASE RevokeTokens(r)
    <2> DEFINE u == work[r].user
               C == Crossing({u})
    <2>1. PICK at \in {"dropSessions", "done"} : work' = [C EXCEPT ![r] = Moved(@, at)]
      BY <1>3 DEF RevokeTokens
    <2>2. work[r].at = "revokeTokens"
      BY <1>3 DEF RevokeTokens, At
    <2>3. work[r].op = "toggle"
      BY <1>1, <2>2 DEF Fits
    <2>4. /\ C \in [Requests -> Request]
          /\ \A q \in Requests : Kept(work[q], C[q])
      BY CrossingKept
    <2> HIDE DEF C
    <2>5. work' = [C EXCEPT ![r] = Moved(C[r], at)]
      BY <2>1, <2>4
    <2>6. at \in Steps
      BY DEF Steps
    <2>7. /\ Moved(C[r], at) \in Request /\ Moved(C[r], at).at = at
          /\ at # "done" => Moved(C[r], at).op = "toggle"
      BY <2>3, <2>4, <2>6, MovedFields DEF Kept
    <2>8. Fits(Moved(C[r], at))
      BY <2>7 DEF Fits, Removing
    <2> QED
      BY <2>4, <2>5, <2>7, <2>8
  <1>4. CASE DirDelete(r)
    <2>1. CASE Finish(r)
      <3>1. \E q \in Request : Fits(q) /\ work' = [work EXCEPT ![r] = q]
        BY <2>1, FinishMoves DEF Finish
      <3> QED
        BY <1>2, <3>1
    <2>2. CASE ~Finish(r)
      <3> DEFINE n == work[r].name
                 p == [work[r] EXCEPT !.at = "dropSessions"]
      <3>1. work' = [q \in Requests |->
                       IF q = r THEN p
                       ELSE IF work[q].name = n /\ work[q].at \in {"upsert", "insert"}
                       THEN [work[q] EXCEPT !.crossed = TRUE]
                       ELSE work[q]]
        BY <1>4, <2>2 DEF DirDelete
      <3>2. work[r].at = "dirDelete"
        BY <1>4 DEF DirDelete, At
      <3>3. /\ work[r].op = "delete" /\ work[r].user \in Users /\ work[r].name \in Names
            /\ work[r].row \in Row /\ work[r].actor # work[r].user
        BY <1>1, <3>2 DEF Fits, Removing
      <3>4. /\ p \in Request /\ p.at = "dropSessions" /\ p.op = work[r].op
            /\ p.user = work[r].user /\ p.name = work[r].name /\ p.row = work[r].row
            /\ p.actor = work[r].actor
        BY <1>1 DEF Request, Steps
      <3> HIDE DEF p
      <3>5. Fits(p)
        BY <3>3, <3>4 DEF Fits, Removing
      <3> QED
        BY <1>1, <3>1, <3>4, <3>5, CrossedKept
    <2> QED
      BY <2>1, <2>2
  <1>5. CASE ~RevokeTokens(r) /\ ~DirDelete(r)
    <2>1. \E q \in Request : Fits(q) /\ work' = [work EXCEPT ![r] = q]
      BY <1>5, BeginsMoves, DecidesMoves, WritesUsersMoves, WritesElseMoves
         DEF Acts, WritesElse
    <2> QED
      BY <1>2, <2>1
  <1> QED
    BY <1>3, <1>4, <1>5

LEMMA ControlStep ==
  ASSUME TypeOK, Control, [Next]_vars
  PROVE  work' \in [Requests -> Request] /\ Control'
  <1>1. ASSUME NEW r \in Requests, Acts(r)
        PROVE  work' \in [Requests -> Request] /\ Control'
    BY <1>1, OneMoves, KeptFits DEF Control
  <1>2. CASE RevokeDevice
    BY <1>2, CrossingKept, KeptFits DEF RevokeDevice, Control
  <1>3. CASE UNCHANGED work
    BY <1>3 DEF Control, TypeOK
  <1> QED
    BY <1>1, <1>2, <1>3, StepCases
       DEF vars, RevokePAT, ExpireToken, FetchRevoked, EditOutside

-----------------------------------------------------------------------------
(* The users table.                                                        *)

\* A request that begins, or decides, changes nothing but itself.
LEMMA BeginsFrame ==
  ASSUME NEW r \in Requests, Begins(r)
  PROVE  /\ UNCHANGED <<users, entries, sessions, device, grants, pats, gateway, faults, cause>>
         /\ work[r].at = "start"
  <1> DEFINE Goal ==
        /\ UNCHANGED <<users, entries, sessions, device, grants, pats, gateway, faults, cause>>
        /\ work[r].at = "start"
  <1>1. ASSUME NEW a, NEW u, NEW off, ToggleUser(r, a, u, off) PROVE Goal
    BY <1>1 DEF ToggleUser, At
  <1>2. ASSUME NEW a, NEW u, NEW op, NEW flag, ManageUser(r, a, u, op, flag) PROVE Goal
    BY <1>2 DEF ManageUser, At
  <1>3. ASSUME NEW a, NEW n, NEW flag, CreateUser(r, a, n, flag) PROVE Goal
    BY <1>3 DEF CreateUser, At
  <1>4. ASSUME NEW n, SignIn(r, n) PROVE Goal
    BY <1>4 DEF SignIn, At
  <1>5. ASSUME NEW n, Setup(r, n) PROVE Goal
    BY <1>5 DEF Setup, At
  <1>6. ASSUME NEW u, CreatePAT(r, u) PROVE Goal
    BY <1>6 DEF CreatePAT, At
  <1> HIDE DEF Goal
  <1>7. Goal
    BY <1>1, <1>2, <1>3, <1>4, <1>5, <1>6 DEF Begins
  <1> QED
    BY <1>7 DEF Goal

\* Only these steps write it.
LEMMA UsersWriters ==
  ASSUME [Next]_vars, users' # users
  PROVE  \E r \in Requests : WritesUsers(r)
  <1>1. ASSUME NEW r \in Requests, Begins(r) PROVE users' = users
    BY <1>1, BeginsFrame
  <1>2. ASSUME NEW r \in Requests, Decides(r) PROVE users' = users
    BY <1>2 DEF Decides, Load, CountAdmins, LookupDN, DirUpdate, Upsert, Bind, Cut
  <1>3. ASSUME NEW r \in Requests, WritesElse(r) PROVE users' = users
    BY <1>3 DEF WritesElse, DirCreate, DirSetPassword, DirDelete, DropSessions, IssueSession,
         RevokeTokens, DeleteTokens, InsertToken
  <1> QED
    BY <1>1, <1>2, <1>3, StepCases
       DEF Acts, vars, RevokePAT, ExpireToken, RevokeDevice, FetchRevoked, EditOutside

\* A row is changed in place: it keeps its name, and once the directory keeps
\* the account it stays so. What is gone does not come back.
Evolves(p, q) ==
    /\ q \in Row \cup {None, Gone}
    /\ p # None => q # None
    /\ (p # None /\ q \in Row) =>
          p \in Row /\ q.name = p.name /\ (q.local => p.local)

LEMMA Unlike ==
  /\ None # Gone /\ None \notin Row /\ Gone \notin Row /\ None \notin Entry
  /\ None \notin Pat /\ Gone \notin Pat
  BY NullAssumption

\* A new row is the one a request brings, for a name that is not taken.
Adds(r, u) ==
    /\ work[r].at = "insert" /\ users[u] = None /\ ByName(work[r].name) = {}
    /\ users' = [users EXCEPT ![u] = work[r].row]
    /\ cause' = IF work[r].crossed THEN cause \cup {"revived"} ELSE cause

LEMMA Evolution ==
  ASSUME TypeOK, Control, [Next]_vars
  PROVE  /\ users' \in [Users -> Row \cup {None, Gone}]
         /\ \A u \in Users : Evolves(users[u], users'[u])
         /\ \A u \in Users :
               (users[u] = None /\ users'[u] # None) =>
                  \E r \in Requests : Insert(r) /\ Adds(r, u)
         /\ \A u \in Users :
               (users[u] \in Row /\ users'[u] \notin Row) =>
                  \E r \in Requests : DeleteUser(r) /\ work[r].user = u
  <1>1. users \in [Users -> Row \cup {None, Gone}]
    BY DEF TypeOK
  <1>2. ASSUME NEW u \in Users, NEW row \in Row \cup {None, Gone},
               users' = [users EXCEPT ![u] = row], Evolves(users[u], row), users[u] # None
        PROVE  /\ users' \in [Users -> Row \cup {None, Gone}]
               /\ \A v \in Users : Evolves(users[v], users'[v])
               /\ \A v \in Users : users[v] = None => users'[v] = None
               /\ \A v \in Users : (users[v] \in Row /\ users'[v] \notin Row) => v = u /\ row = Gone
    BY <1>1, <1>2 DEF Evolves
  <1>3. CASE users' = users
    BY <1>1, <1>3 DEF Evolves
  <1>4. ASSUME NEW r \in Requests, WritesUsers(r), users' # users
        PROVE  /\ users' \in [Users -> Row \cup {None, Gone}]
               /\ \A u \in Users : Evolves(users[u], users'[u])
               /\ \A u \in Users :
                     (users[u] = None /\ users'[u] # None) => Insert(r) /\ Adds(r, u)
               /\ \A u \in Users :
                     (users[u] \in Row /\ users'[u] \notin Row) =>
                        DeleteUser(r) /\ work[r].user = u
    <2>1. work[r] \in Request /\ Fits(work[r])
      BY DEF TypeOK, Control
    <2>2. CASE SetUserDisabled(r)
      <3> DEFINE u == work[r].user
                 row == [users[u] EXCEPT !.disabled = work[r].flag]
      <3>1. u \in Users /\ users[u] \in Row /\ users' = [users EXCEPT ![u] = row]
        BY <1>1, <1>4, <2>1, <2>2 DEF SetUserDisabled, At, Fits, Exists
      <3>2. row \in Row /\ row.name = users[u].name /\ row.local = users[u].local
        BY <2>1, <3>1 DEF Row, Request
      <3> HIDE DEF row
      <3>3. Evolves(users[u], row)
        BY <3>1, <3>2, Unlike DEF Evolves
      <3> QED
        BY <1>2, <3>1, <3>2, <3>3, Unlike
    <2>3. CASE Mirror(r)
      <3> DEFINE u == work[r].user
                 row == [users[u] EXCEPT !.admin = work[r].row.admin]
      <3>1. /\ u \in Users /\ users[u] \in Row /\ users' = [users EXCEPT ![u] = row]
            /\ work[r].row \in Row
        BY <1>1, <1>4, <2>1, <2>3 DEF Mirror, At, Fits, Exists
      <3>2. row \in Row /\ row.name = users[u].name /\ (row.local => users[u].local)
        BY <3>1 DEF Row
      <3> HIDE DEF row
      <3>3. Evolves(users[u], row)
        BY <3>1, <3>2, Unlike DEF Evolves
      <3> QED
        BY <1>2, <3>1, <3>2, <3>3, Unlike
    <2>4. CASE Link(r)
      <3> DEFINE u == work[r].user
                 row == [users[u] EXCEPT !.local = FALSE]
      <3>1. u \in Users /\ users[u] \in Row /\ users' = [users EXCEPT ![u] = row]
        BY <1>1, <1>4, <2>1, <2>4 DEF Link, At, Fits, Exists
      <3>2. row \in Row /\ row.name = users[u].name /\ (row.local => users[u].local)
        BY <3>1 DEF Row
      <3> HIDE DEF row
      <3>3. Evolves(users[u], row)
        BY <3>1, <3>2, Unlike DEF Evolves
      <3> QED
        BY <1>2, <3>1, <3>2, <3>3, Unlike
    <2>5. CASE WriteBack(r)
      <3> DEFINE u == work[r].user
                 row == [users[u] EXCEPT !.admin = work[r].row.admin,
                                         !.disabled = work[r].row.disabled]
      <3>1. /\ u \in Users /\ users[u] \in Row /\ users' = [users EXCEPT ![u] = row]
            /\ work[r].row \in Row
        BY <1>1, <1>4, <2>1, <2>5 DEF WriteBack, At, Fits, Exists
      <3>2. row \in Row /\ row.name = users[u].name /\ (row.local => users[u].local)
        BY <3>1 DEF Row
      <3> HIDE DEF row
      <3>3. Evolves(users[u], row)
        BY <3>1, <3>2, Unlike DEF Evolves
      <3> QED
        BY <1>2, <3>1, <3>2, <3>3, Unlike
    <2>6. CASE DeleteUser(r)
      <3> DEFINE u == work[r].user
      <3>1. u \in Users /\ users[u] \in Row /\ users' = [users EXCEPT ![u] = Gone]
        BY <1>1, <1>4, <2>1, <2>6 DEF DeleteUser, At, Fits, Removing, Exists
      <3>2. Evolves(users[u], Gone)
        BY <3>1, Unlike DEF Evolves
      <3> QED
        BY <1>2, <2>6, <3>1, <3>2, Unlike
    <2>7. CASE Insert(r)
      <3>1. PICK u \in Users : Adds(r, u)
        BY <1>4, <2>7 DEF Insert, At, Adds
      <3>2. work[r].row \in Row
        BY <2>1, <3>1 DEF Adds, Fits
      <3>3. \A v \in Users : v # u => users'[v] = users[v]
        BY <1>1, <3>1 DEF Adds
      <3>4. users'[u] = work[r].row /\ users' \in [Users -> Row \cup {None, Gone}]
        BY <1>1, <3>1, <3>2 DEF Adds
      <3>5. users[u] = None
        BY <3>1 DEF Adds
      <3> QED
        BY <1>1, <2>7, <3>1, <3>2, <3>3, <3>4, <3>5, Unlike DEF Evolves
    <2> QED
      BY <1>4, <2>2, <2>3, <2>4, <2>5, <2>6, <2>7 DEF WritesUsers
  <1> QED
    BY <1>3, <1>4, UsersWriters

-----------------------------------------------------------------------------
(* Types.                                                                  *)

LEMMA DecidesFrame ==
  ASSUME NEW r \in Requests, Decides(r)
  PROVE  UNCHANGED <<users, entries, sessions, device, grants, pats, gateway, cause>>
  BY DEF Decides, Load, CountAdmins, LookupDN, DirUpdate, Upsert, Bind, Cut

Causes == {"overtaken", "demoted", "removed", "revived", "stale"}

\* The other tables, the history and the bound on faults.
Typed ==
    /\ entries \in [Names -> Entry \cup {None}]
    /\ sessions \subseteq Session
    /\ device \in [status : {"active", "revoked", "gone"}, owner : Users]
    /\ grants \subseteq Users
    /\ pats \in [Tokens -> Pat \cup {None, Gone}]
    /\ gateway \subseteq Tokens
    /\ faults \in 0 .. MaxFaults
    /\ cause \subseteq Causes

LEMMA RevokedTyped ==
  ASSUME TypeOK, NEW S
  PROVE  /\ Revoked(S) \in [Tokens -> Pat \cup {None, Gone}]
         /\ \A t \in Tokens :
               /\ pats[t] \notin Pat => Revoked(S)[t] = pats[t]
               /\ pats[t] \in Pat =>
                     /\ Revoked(S)[t] \in Pat
                     /\ Revoked(S)[t].user = pats[t].user
                     /\ Revoked(S)[t].crossed = pats[t].crossed
                     /\ pats[t].revoked => Revoked(S)[t].revoked
                     /\ pats[t].user \in S => Revoked(S)[t].revoked
  <1>1. ASSUME NEW p \in Pat
        PROVE  /\ [p EXCEPT !.revoked = TRUE] \in Pat
               /\ [p EXCEPT !.revoked = TRUE].user = p.user
               /\ [p EXCEPT !.revoked = TRUE].crossed = p.crossed
               /\ [p EXCEPT !.revoked = TRUE].revoked
    BY DEF Pat
  <1> QED
    BY <1>1 DEF TypeOK, Revoked

LEMMA TypedStep ==
  ASSUME TypeOK, Control, [Next]_vars
  PROVE  Typed'
  <1>1. Typed
    BY DEF TypeOK, Typed, Causes
  <1>2. CASE UNCHANGED <<entries, sessions, device, grants, pats, gateway, faults, cause>>
    BY <1>1, <1>2 DEF Typed
  <1>3. ASSUME NEW r \in Requests, Decides(r) PROVE Typed'
    <2>1. faults' = faults \/ (faults < MaxFaults /\ faults' = faults + 1)
      <3>1. CASE Bind(r)
        BY <3>1 DEF Bind, isAdmin
      <3> QED
        BY <1>3, <3>1 DEF Decides, Load, CountAdmins, LookupDN, DirUpdate, Upsert, Cut
    <2>2. faults' \in 0 .. MaxFaults
      BY <2>1, NullAssumption DEF TypeOK
    <2> QED
      BY <1>1, <1>3, <2>2, DecidesFrame DEF Typed
  <1>4. ASSUME NEW r \in Requests, WritesUsers(r) PROVE Typed'
    <2>1. UNCHANGED <<entries, grants, pats, gateway, faults>>
      BY <1>4 DEF WritesUsers, SetUserDisabled, Insert, Mirror, Link, WriteBack, DeleteUser
    <2>2. sessions' \subseteq sessions
      BY <1>4 DEF WritesUsers, SetUserDisabled, Insert, Mirror, Link, WriteBack, DeleteUser
    <2>3. device' \in [status : {"active", "revoked", "gone"}, owner : Users]
      <3>1. device' = device \/ device' = [device EXCEPT !.status = "gone"]
        BY <1>4 DEF WritesUsers, SetUserDisabled, Insert, Mirror, Link, WriteBack, DeleteUser
      <3> QED
        BY <1>1, <3>1 DEF Typed
    <2>4. cause' \subseteq cause \cup Causes
      BY <1>4 DEF WritesUsers, SetUserDisabled, Insert, Mirror, Link, WriteBack, DeleteUser,
           Causes, Overtaken
    <2> QED
      BY <1>1, <2>1, <2>2, <2>3, <2>4 DEF Typed
  <1>5. ASSUME NEW r \in Requests, WritesElse(r) PROVE Typed'
    <2>1. work[r] \in Request /\ Fits(work[r])
      BY DEF TypeOK, Control
    <2>2. UNCHANGED <<device, grants, gateway, faults>>
      BY <1>5 DEF WritesElse, DirCreate, DirSetPassword, DirDelete, DropSessions, IssueSession,
           RevokeTokens, DeleteTokens, InsertToken
    <2>3. cause' \subseteq cause \cup Causes
      BY <1>5 DEF WritesElse, DirCreate, DirSetPassword, DirDelete, DropSessions, IssueSession,
           RevokeTokens, DeleteTokens, InsertToken, Causes
    <2>4. entries' \in [Names -> Entry \cup {None}]
      <3>1. CASE DirCreate(r) \/ DirDelete(r)
        <4>1. [pw |-> FALSE, admin |-> FALSE] \in Entry
          BY DEF Entry
        <4> QED
          BY <1>1, <3>1, <4>1 DEF DirCreate, DirDelete, Typed
      <3>2. CASE DirSetPassword(r)
        <4>1. CASE entries' = entries
          BY <1>1, <4>1 DEF Typed
        <4>2. CASE entries' # entries
          <5> DEFINE n == work[r].name
          <5>1. n \in Names /\ entries[n] # None /\ entries' = [entries EXCEPT ![n].pw = TRUE]
            BY <2>1, <3>2, <4>2 DEF DirSetPassword, At, Fits
          <5>2. entries[n] \in Entry
            BY <1>1, <5>1 DEF Typed
          <5> QED
            BY <1>1, <5>1, <5>2 DEF Typed, Entry
        <4> QED
          BY <4>1, <4>2
      <3> QED
        BY <1>1, <1>5, <3>1, <3>2 DEF Typed, WritesElse, DropSessions, IssueSession,
             RevokeTokens, DeleteTokens, InsertToken
    <2>5. sessions' \subseteq Session
      <3>1. CASE IssueSession(r)
        <4>1. work[r].user \in Users /\ work[r].flag \in BOOLEAN
          BY <2>1, <3>1 DEF IssueSession, At, Fits, Request
        <4> QED
          BY <1>1, <3>1, <4>1 DEF Typed, IssueSession, Session
      <3> QED
        BY <1>1, <1>5, <3>1 DEF Typed, WritesElse, DropSessions, DirCreate, DirSetPassword,
             DirDelete, RevokeTokens, DeleteTokens, InsertToken
    <2>6. pats' \in [Tokens -> Pat \cup {None, Gone}]
      <3>1. CASE RevokeTokens(r)
        BY <3>1, RevokedTyped DEF RevokeTokens
      <3>2. CASE DeleteTokens(r)
        BY <1>1, <3>2 DEF Typed, DeleteTokens
      <3>3. CASE InsertToken(r)
        <4>1. Issued(work[r].user, work[r].crossed) \in Pat
          BY <2>1, <3>3 DEF InsertToken, At, Fits, Request, Issued, Pat
        <4> QED
          BY <1>1, <3>3, <4>1 DEF Typed, InsertToken
      <3> QED
        BY <1>1, <1>5, <3>1, <3>2, <3>3 DEF Typed, WritesElse, DropSessions, DirCreate,
             DirSetPassword, DirDelete, IssueSession
    <2> QED
      BY <1>1, <2>2, <2>3, <2>4, <2>5, <2>6 DEF Typed
  <1>6. ASSUME NEW t \in Tokens, RevokePAT(t) \/ ExpireToken(t) PROVE Typed'
    <2>1. pats' \in [Tokens -> Pat \cup {None, Gone}]
      <3>1. pats[t] \in Pat => [pats[t] EXCEPT !.revoked = TRUE] \in Pat
        BY DEF Pat
      <3> QED
        BY <1>1, <1>6, <3>1 DEF Typed, RevokePAT, ExpireToken
    <2> QED
      BY <1>1, <1>6, <2>1 DEF Typed, RevokePAT, ExpireToken
  <1>7. CASE RevokeDevice
    BY <1>1, <1>7, RevokedTyped DEF Typed, RevokeDevice
  <1>8. CASE FetchRevoked
    BY <1>1, <1>8 DEF Typed, FetchRevoked, RevokedTokens
  <1>9. ASSUME NEW n \in Names, EditOutside(n) PROVE Typed'
    <2>1. entries[n] \in Entry
      BY <1>1, <1>9 DEF Typed, EditOutside
    <2>2. entries' \in [Names -> Entry \cup {None}]
      <3>1. [entries[n] EXCEPT !.admin = ~entries[n].admin] \in Entry
        BY <2>1 DEF Entry
      <3> QED
        BY <1>1, <1>9, <3>1 DEF Typed, EditOutside
    <2>3. faults' \in 0 .. MaxFaults /\ cause' \subseteq cause \cup Causes
      BY <1>1, <1>9, NullAssumption DEF Typed, EditOutside, Causes
    <2> QED
      BY <1>1, <1>9, <2>2, <2>3 DEF Typed, EditOutside
  <1> QED
    BY <1>2, <1>3, <1>4, <1>5, <1>6, <1>7, <1>8, <1>9, StepCases, BeginsFrame DEF Acts, vars

LEMMA TypeStep ==
  ASSUME TypeOK, Control, [Next]_vars
  PROVE  TypeOK' /\ Control'
  BY TypedStep, ControlStep, Evolution DEF Typed, TypeOK, Causes

-----------------------------------------------------------------------------
(* What a request carries from one step to the next.                       *)

\* The steps that follow one another while a request keeps what it carries.
Follows(p, at) ==
    \/ at = "cut"
    \/ p.at = "setDisabled" /\ at = "revokeTokens"
    \/ p.at \in {"revokeTokens", "link"} /\ at = "dropSessions" /\ p.op # "delete"
    \/ p.at = "mirror" /\ at = "session"
    \/ p.at = "lookup" /\ at \in {"dirCreate", "link"}
    \/ p.at = "dirCreate" /\ at = "dirPassword"
    \/ p.at \in {"dirCreate", "dirPassword"} /\ at = "link" /\ p.op = "promote"
    \/ p.at \in {"dirCreate", "dirPassword"} /\ at = "upsert" /\ p.op # "promote"
    \/ p.at = "dirUpdate" /\ at = "writeBack"
    \/ p.at = "count" /\ at \in {"dropSessions", "dirDelete"}
    \/ p.at = "dirDelete" /\ at = "dropSessions"
    \/ p.at = "dropSessions" /\ at = "deleteTokens"
    \/ p.at = "deleteTokens" /\ at = "deleteUser"

SameCargo(p, q) ==
    /\ q.op = p.op /\ q.actor = p.actor /\ q.user = p.user
    /\ q.name = p.name /\ q.row = p.row /\ q.flag = p.flag

\* These steps replace what the request carries.
Fills(r) == Begins(r) \/ Load(r) \/ Upsert(r) \/ Insert(r) \/ Bind(r)

LEMMA ContinueCarries ==
  ASSUME TypeOK, NEW r \in Requests, NEW at \in Steps, Continue(r, at)
  PROVE  /\ work'[r].at = at
         /\ at # "done" => SameCargo(work[r], work'[r])
  <1>1. work[r] \in Request /\ work \in [Requests -> Request]
    BY DEF TypeOK
  <1>2. work'[r] = Moved(work[r], at)
    BY <1>1 DEF Continue
  <1> QED
    BY <1>1, <1>2, MovedFields DEF SameCargo

\* Any other step hands it on, or ends the request.
LEMMA Carries ==
  ASSUME TypeOK, Control, NEW r \in Requests, Acts(r), ~Fills(r)
  PROVE  \/ work'[r].at = "done"
         \/ Follows(work[r], work'[r].at) /\ SameCargo(work[r], work'[r])
  <1> DEFINE Goal == \/ work'[r].at = "done"
                     \/ Follows(work[r], work'[r].at) /\ SameCargo(work[r], work'[r])
  <1>1. work[r] \in Request /\ Fits(work[r]) /\ work \in [Requests -> Request]
    BY DEF TypeOK, Control
  <1>2. ASSUME NEW at \in Steps, Continue(r, at), at = "done" \/ Follows(work[r], at)
        PROVE  Goal
    BY <1>2, ContinueCarries
  <1>3. Finish(r) => Goal
    BY <1>2 DEF Finish, Steps
  <1>4. CASE CountAdmins(r)
    <2>1. PICK at \in {"done", "dropSessions", "dirDelete"} : Continue(r, at)
      BY <1>4 DEF CountAdmins, DeleteFrom
    <2>2. work[r].at = "count"
      BY <1>4 DEF CountAdmins, At
    <2> QED
      BY <1>2, <2>1, <2>2 DEF Follows, Steps
  <1>5. CASE LookupDN(r) \/ DirUpdate(r)
    <2>1. PICK at \in {"done", "dirCreate", "link", "writeBack"} :
             /\ Continue(r, at)
             /\ \/ work[r].at = "lookup" /\ at \in {"dirCreate", "link"}
                \/ work[r].at = "dirUpdate" /\ at \in {"done", "writeBack"}
      BY <1>5 DEF LookupDN, DirUpdate, At
    <2> QED
      BY <1>2, <2>1 DEF Follows, Steps
  <1>6. CASE Cut(r)
    BY <1>2, <1>6 DEF Cut, Follows, Steps
  <1>7. CASE SetUserDisabled(r)
    BY <1>2, <1>3, <1>7 DEF SetUserDisabled, At, Follows, Steps
  <1>8. CASE Mirror(r)
    BY <1>2, <1>3, <1>8 DEF Mirror, At, Follows, Steps
  <1>9. CASE Link(r)
    <2>1. work[r].op = "promote" /\ work[r].at = "link"
      BY <1>1, <1>9 DEF Link, At, Fits
    <2> QED
      BY <1>2, <1>3, <1>9, <2>1 DEF Link, Follows, Steps
  <1>10. CASE WriteBack(r) \/ DeleteUser(r) \/ IssueSession(r) \/ InsertToken(r)
    BY <1>3, <1>10 DEF WriteBack, DeleteUser, IssueSession, InsertToken
  <1>11. CASE DirCreate(r)
    <2>1. CASE Finish(r)
      BY <1>3, <2>1
    <2>2. CASE ~Finish(r)
      <3>1. PICK at \in {"dirPassword", "link", "upsert"} :
               /\ Continue(r, at) /\ work[r].at = "dirCreate"
               /\ at = "link" => work[r].op = "promote"
               /\ at = "upsert" => work[r].op # "promote"
        BY <1>11, <2>2 DEF DirCreate, At
      <3> QED
        BY <1>2, <3>1 DEF Follows, Steps
    <2> QED
      BY <2>1, <2>2
  <1>12. CASE DirSetPassword(r)
    <2>1. CASE Finish(r)
      BY <1>3, <2>1
    <2>2. CASE ~Finish(r)
      <3>1. PICK at \in {"link", "upsert"} :
               /\ Continue(r, at) /\ work[r].at = "dirPassword"
               /\ at = "link" => work[r].op = "promote"
               /\ at = "upsert" => work[r].op # "promote"
        BY <1>12, <2>2 DEF DirSetPassword, At
      <3> QED
        BY <1>2, <3>1 DEF Follows, Steps
    <2> QED
      BY <2>1, <2>2
  <1>13. CASE DirDelete(r)
    <2>1. CASE Finish(r)
      BY <1>3, <2>1
    <2>2. CASE ~Finish(r)
      <3> DEFINE p == [work[r] EXCEPT !.at = "dropSessions"]
      <3>1. work'[r] = p /\ work[r].at = "dirDelete"
        BY <1>13, <2>2 DEF DirDelete, At
      <3>2. p.at = "dropSessions" /\ SameCargo(work[r], p)
        BY <1>1 DEF Request, SameCargo
      <3> HIDE DEF p
      <3> QED
        BY <3>1, <3>2 DEF Follows
    <2> QED
      BY <2>1, <2>2
  <1>14. CASE DropSessions(r)
    BY <1>2, <1>3, <1>14 DEF DropSessions, At, Follows, Steps
  <1>15. CASE DeleteTokens(r)
    BY <1>2, <1>15 DEF DeleteTokens, At, Follows, Steps
  <1>16. CASE RevokeTokens(r)
    <2> DEFINE C == Crossing({work[r].user})
    <2>1. PICK at \in {"dropSessions", "done"} : work' = [C EXCEPT ![r] = Moved(@, at)]
      BY <1>16 DEF RevokeTokens
    <2>2. C \in [Requests -> Request] /\ Kept(work[r], C[r])
      BY CrossingKept
    <2> HIDE DEF C
    <2>3. work'[r] = Moved(C[r], at) /\ at \in Steps
      BY <2>1, <2>2 DEF Steps
    <2>4. work'[r].at = at /\ (at # "done" => SameCargo(work[r], work'[r]))
      BY <2>2, <2>3, MovedFields DEF Kept, SameCargo
    <2>5. work[r].at = "revokeTokens" /\ work[r].op = "toggle"
      BY <1>1, <1>16 DEF RevokeTokens, At, Fits
    <2> QED
      BY <2>4, <2>5 DEF Follows
  <1> QED
    BY <1>4, <1>5, <1>6, <1>7, <1>8, <1>9, <1>10, <1>11, <1>12, <1>13, <1>14, <1>15, <1>16
       DEF Fills, Acts, Decides, WritesUsers, WritesElse

-----------------------------------------------------------------------------
(* Names.                                                                  *)

\* A bound request that does not move is bound to the same account.
LEMMA BoundKept ==
  ASSUME TypeOK, Control, [Next]_vars, NEW p, NEW q,
         p.user \in Users, q.user = p.user, q.name = p.name, Bound(p)
  PROVE  /\ users'[q.user] # None
         /\ users'[q.user] \in Row => users'[q.user].name = q.name
  BY Evolution DEF Evolves, Bound, Exists

LEMMA LoadedUser ==
  ASSUME NEW q, Fits(q), Loaded(q)
  PROVE  q.user \in Users
  BY DEF Fits, Loaded, Removing

LEMMA UniqueStep ==
  ASSUME TypeOK, Control, BoundInv, [Next]_vars,
         NEW u \in Users, NEW v \in Users, users'[u] \in Row, users'[v] \in Row,
         users'[u].name = users'[v].name
  PROVE  u = v
  <1>1. \A w \in Users : Evolves(users[w], users'[w])
    BY Evolution
  <1>2. users'[u] # None /\ users'[v] # None
    BY Unlike
  <1>3. CASE users[u] # None /\ users[v] # None
    <2>1. /\ users[u] \in Row /\ users'[u].name = users[u].name
          /\ users[v] \in Row /\ users'[v].name = users[v].name
      BY <1>1, <1>3 DEF Evolves
    <2> QED
      BY <2>1 DEF BoundInv, Exists
  <1>4. ASSUME NEW x \in Users, NEW y \in Users, users[x] = None, x # y,
               users'[x] # None, users'[y] \in Row, users'[x].name = users'[y].name
        PROVE  FALSE
    <2>1. PICK r \in Requests : Adds(r, x)
      BY <1>4, Evolution
    <2>2. Fits(work[r]) /\ users \in [Users -> Row \cup {None, Gone}]
      BY DEF Control, TypeOK
    <2>3. work[r].row.name = work[r].name
      BY <2>1, <2>2 DEF Adds, Fits
    <2>4. users'[y] = users[y] /\ users'[x] = work[r].row
      BY <1>4, <2>1, <2>2 DEF Adds
    <2>5. y \in ByName(work[r].name)
      BY <1>4, <2>3, <2>4 DEF ByName, Exists
    <2> QED
      BY <2>1, <2>5 DEF Adds
  <1> QED
    BY <1>2, <1>3, <1>4

\* Where a request stands after a step that replaces what it carries.
LEMMA BeginsArrives ==
  ASSUME TypeOK, Control, NEW r \in Requests, Begins(r)
  PROVE  LET q == work'[r] IN
         /\ q.at \in {"done", "setDisabled", "load", "insert", "dirCreate", "insertToken",
                      "bind", "session"}
         /\ q.at = "insert" => q.row.local
         /\ q.at = "dirCreate" => q.op = "createDirectory"
         /\ q.at = "session" => q.user \in ByName(q.name) /\ ~q.flag
         /\ q.at = "insertToken" => device.status = "active" /\ Enabled(q.user)
  <1> DEFINE q == work'[r]
             Goal ==
               /\ q.at \in {"done", "setDisabled", "load", "insert", "dirCreate",
                            "insertToken", "bind", "session"}
               /\ q.at = "insert" => q.row.local
               /\ q.at = "dirCreate" => q.op = "createDirectory"
               /\ q.at = "session" => q.user \in ByName(q.name) /\ ~q.flag
               /\ q.at = "insertToken" => device.status = "active" /\ Enabled(q.user)
  <1>1. work[r] \in Request /\ Fits(work[r]) /\ work \in [Requests -> Request]
    BY DEF TypeOK, Control
  <1>2. ~work[r].flag
    BY <1>1, BeginsFrame DEF Fits
  <1>3. ASSUME NEW a, NEW u, NEW off, ToggleUser(r, a, u, off) PROVE Goal
    <2>1. q.at = "setDisabled"
      BY <1>1, <1>3 DEF ToggleUser, Request
    <2> HIDE DEF q
    <2> QED
      BY <2>1
  <1>4. ASSUME NEW a, NEW u, NEW op, NEW flag, ManageUser(r, a, u, op, flag) PROVE Goal
    <2>1. q.at = "load"
      BY <1>1, <1>4 DEF ManageUser, Request
    <2> HIDE DEF q
    <2> QED
      BY <2>1
  <1>5. ASSUME NEW a, NEW n, NEW flag, CreateUser(r, a, n, flag) PROVE Goal
    <2>1. \/ q.at = "insert" /\ q.row = LocalRow(n, flag)
          \/ q.at = "dirCreate" /\ q.op = "createDirectory"
      BY <1>1, <1>5 DEF CreateUser, Request
    <2>2. LocalRow(n, flag).local
      BY DEF LocalRow
    <2> HIDE DEF q
    <2> QED
      BY <2>1, <2>2
  <1>6. ASSUME NEW n, Setup(r, n) PROVE Goal
    <2>1. q.at = "insert" /\ q.row = LocalRow(n, TRUE)
      BY <1>1, <1>6 DEF Setup, Request
    <2>2. LocalRow(n, TRUE).local
      BY DEF LocalRow
    <2> HIDE DEF q
    <2> QED
      BY <2>1, <2>2
  <1>7. ASSUME NEW u, CreatePAT(r, u) PROVE Goal
    <2>1. q.at = "insertToken" /\ q.user = u
      BY <1>1, <1>7 DEF CreatePAT, Request
    <2>2. device.status = "active" /\ Enabled(u)
      BY <1>7 DEF CreatePAT
    <2> HIDE DEF q
    <2> QED
      BY <2>1, <2>2
  <1>8. ASSUME NEW n \in Names, SignIn(r, n) PROVE Goal
    <2>1. ASSUME NEW u \in ByName(n), NEW at \in {"done", "session"},
                 work' = [work EXCEPT ![r] =
                            Moved([@ EXCEPT !.op = "signIn", !.name = n, !.user = u], at)]
          PROVE  Goal
      <3> DEFINE p == [work[r] EXCEPT !.op = "signIn", !.name = n, !.user = u]
      <3>1. u \in Users
        BY DEF ByName
      <3>2. /\ p \in Request /\ p.user = u /\ p.name = n /\ ~p.flag
            /\ q = Moved(p, at) /\ at \in Steps
        BY <1>1, <1>2, <2>1, <3>1 DEF Request, Ops, Steps
      <3> HIDE DEF p, q
      <3>3. q.at = at /\ (at = "session" => q.user = u /\ q.name = n /\ ~q.flag)
        BY <3>2, MovedFields
      <3> QED
        BY <2>1, <3>3
    <2>2. ASSUME work' = [work EXCEPT ![r].op = "signIn", ![r].name = n, ![r].at = "bind"]
          PROVE  Goal
      <3>1. q.at = "bind"
        BY <1>1, <2>2 DEF Request
      <3> HIDE DEF q
      <3> QED
        BY <3>1
    <2> QED
      BY <1>8, <2>1, <2>2 DEF SignIn
  <1> HIDE DEF Goal
  <1>9. Goal
    BY <1>3, <1>4, <1>5, <1>6, <1>7, <1>8 DEF Begins
  <1> QED
    BY <1>9 DEF Goal

LEMMA LoadArrives ==
  ASSUME TypeOK, Control, NEW r \in Requests, Load(r)
  PROVE  LET q == work'[r] IN
         /\ q.at \in {"done", "lookup", "dirUpdate", "count", "dropSessions", "dirDelete"}
         /\ q.at # "done" => (q.user \in Users /\ Exists(q.user) /\ q.name = users[q.user].name)
  <1>1. work[r] \in Request /\ Fits(work[r]) /\ work \in [Requests -> Request]
    BY DEF TypeOK, Control
  <1>2. CASE Finish(r)
    BY <1>2, ContinueCarries DEF Finish, Steps
  <1>3. CASE ~Finish(r)
    <2> DEFINE u == work[r].user
               p == [work[r] EXCEPT !.row = users[u], !.name = users[u].name]
               at == NextOf(work[r].op, users[u])
    <2>1. /\ u \in Users /\ Exists(u)
          /\ work[r].op \in {"promote", "edit", "delete"}
          /\ work' = [work EXCEPT ![r] = Moved(p, at)]
      BY <1>1, <1>3 DEF Load, At, Fits
    <2>2. at \in {"done", "lookup", "dirUpdate", "count", "dropSessions", "dirDelete"}
      BY <2>1 DEF NextOf, DeleteFrom
    <2>3. p \in Request /\ p.user = u /\ p.name = users[u].name
      BY <1>1, <2>1 DEF Request, Row, Exists
    <2>4. work'[r] = Moved(p, at)
      BY <1>1, <2>1
    <2> HIDE DEF p, at, u
    <2>5. at \in Steps
      BY <2>2 DEF Steps
    <2>6. /\ work'[r].at = at
          /\ at # "done" => (work'[r].user = u /\ work'[r].name = users[u].name)
      BY <2>3, <2>4, <2>5, MovedFields
    <2> QED
      BY <2>1, <2>2, <2>6
  <1> QED
    BY <1>2, <1>3

LEMMA UpsertArrives ==
  ASSUME TypeOK, Control, NEW r \in Requests, Upsert(r)
  PROVE  LET q == work'[r] IN
         \/ q.at = "done"
         \/ /\ q.at = "mirror" /\ q.user \in Mirrors(q.name)
         \/ /\ q.at = "insert" /\ q.name = work[r].name /\ q.crossed = work[r].crossed
  <1>1. work[r] \in Request /\ Fits(work[r]) /\ work \in [Requests -> Request]
    BY DEF TypeOK, Control
  <1>2. Finish(r) => work'[r].at = "done"
    BY ContinueCarries DEF Finish, Steps
  <1>3. ASSUME NEW row, work' = [work EXCEPT ![r].at = "insert", ![r].row = row]
        PROVE  work'[r].at = "insert" /\ work'[r].name = work[r].name
               /\ work'[r].crossed = work[r].crossed
    BY <1>1, <1>3 DEF Request
  <1>4. ASSUME NEW u \in Mirrors(work[r].name), NEW row,
               work' = [work EXCEPT ![r].at = "mirror", ![r].user = u, ![r].row = row]
        PROVE  work'[r].at = "mirror" /\ work'[r].user = u /\ work'[r].name = work[r].name
    BY <1>1, <1>4 DEF Request
  <1>5. \/ Finish(r)
        \/ \E row : work' = [work EXCEPT ![r].at = "insert", ![r].row = row]
        \/ \E u \in Mirrors(work[r].name) :
             \E row : work' = [work EXCEPT ![r].at = "mirror", ![r].user = u, ![r].row = row]
    BY DEF Upsert
  <1> QED
    BY <1>2, <1>3, <1>4, <1>5

LEMMA BindArrives ==
  ASSUME TypeOK, Control, NEW r \in Requests, Bind(r)
  PROVE  LET q == work'[r] IN
         \/ q.at = "done"
         \/ q.at = "upsert" /\ q.name = work[r].name /\ entries[q.name] # None
  <1>1. work[r] \in Request /\ Fits(work[r]) /\ work \in [Requests -> Request]
    BY DEF TypeOK, Control
  <1>2. Finish(r) => work'[r].at = "done"
    BY ContinueCarries DEF Finish, Steps
  <1>3. ASSUME NEW row,
               work' = [work EXCEPT ![r].at = "upsert", ![r].flag = TRUE, ![r].row = row]
        PROVE  work'[r].at = "upsert" /\ work'[r].name = work[r].name
    BY <1>1, <1>3 DEF Request
  <1> QED
    BY <1>2, <1>3 DEF Bind, BindsAs

LEMMA InsertArrives ==
  ASSUME TypeOK, Control, NEW r \in Requests, Insert(r)
  PROVE  LET q == work'[r] IN
         \/ q.at = "done"
         \/ /\ q.at = "session" /\ q.user \in Users /\ q.name = work[r].name
            /\ users'[q.user] \in Row /\ users'[q.user].name = q.name
            /\ q.flag => ~users'[q.user].local
  <1>1. work[r] \in Request /\ Fits(work[r]) /\ work \in [Requests -> Request]
    BY DEF TypeOK, Control
  <1>2. CASE Finish(r)
    BY <1>2, ContinueCarries DEF Finish, Steps
  <1>3. CASE ~Finish(r)
    <2>1. PICK u \in Users, at \in {"session", "done"} :
             /\ work' = [work EXCEPT ![r] = Moved([@ EXCEPT !.user = u], at)]
             /\ users' = [users EXCEPT ![u] = work[r].row]
             /\ at = "session" => work[r].op \in {"setup", "signIn"}
      BY <1>3 DEF Insert
    <2> DEFINE p == [work[r] EXCEPT !.user = u]
    <2>2. /\ p \in Request /\ p.user = u /\ p.name = work[r].name /\ p.flag = work[r].flag
          /\ work'[r] = Moved(p, at) /\ at \in Steps
      BY <1>1, <2>1 DEF Request, Steps
    <2> HIDE DEF p
    <2>3. /\ work'[r].at = at
          /\ at # "done" => (/\ work'[r].user = u /\ work'[r].name = work[r].name
                             /\ work'[r].flag = work[r].flag)
      BY <2>2, MovedFields
    <2>4. /\ work[r].row \in Row /\ work[r].row.name = work[r].name
          /\ work[r].op = "setup" => ~work[r].flag
          /\ work[r].op = "signIn" => ~work[r].row.local
      BY <1>1 DEF Insert, At, Fits
    <2>5. users'[u] = work[r].row
      BY <2>1 DEF TypeOK
    <2> QED
      BY <2>1, <2>3, <2>4, <2>5
  <1> QED
    BY <1>2, <1>3

LEMMA BoundStep ==
  ASSUME TypeOK, Control, BoundInv, [Next]_vars
  PROVE  BoundInv'
  <1> DEFINE Safe(q) ==
        Loaded(q) => (/\ users'[q.user] # None
                      /\ users'[q.user] \in Row => users'[q.user].name = q.name)
  <1>1. ASSUME NEW q \in Requests, Kept(work[q], work'[q]) PROVE Safe(work'[q])
    <2>1. Fits(work[q]) /\ (Loaded(work[q]) => Bound(work[q]))
      BY DEF Control, BoundInv
    <2>2. Loaded(work'[q]) => Loaded(work[q])
      BY <1>1 DEF Kept, Loaded
    <2>3. work'[q].user = work[q].user /\ work'[q].name = work[q].name
      BY <1>1 DEF Kept
    <2> QED
      BY <2>1, <2>2, <2>3, LoadedUser, BoundKept
  <1>2. ASSUME NEW r \in Requests, Acts(r) PROVE Safe(work'[r])
    <2>1. Fits(work[r])
      BY DEF Control
    <2>2. CASE ~Fills(r)
      <3>1. CASE work'[r].at = "done"
        BY <3>1 DEF Loaded
      <3>2. CASE Follows(work[r], work'[r].at) /\ SameCargo(work[r], work'[r])
        <4>1. Loaded(work'[r]) => Loaded(work[r])
          BY <3>2 DEF Follows, SameCargo, Loaded
        <4>2. work'[r].user = work[r].user /\ work'[r].name = work[r].name
          BY <3>2 DEF SameCargo
        <4> QED
          BY <2>1, <4>1, <4>2, LoadedUser, BoundKept DEF BoundInv
      <3> QED
        BY <1>2, <2>2, <3>1, <3>2, Carries
    <2>3. CASE Begins(r)
      <3>1. users' = users
        BY <2>3, BeginsFrame
      <3> QED
        BY <2>3, <3>1, BeginsArrives, Unlike DEF Loaded, ByName, Exists
    <2>4. CASE Load(r)
      <3>1. users' = users
        BY <2>4 DEF Load
      <3> QED
        BY <2>4, <3>1, LoadArrives, Unlike DEF Loaded, Exists
    <2>5. CASE Upsert(r)
      <3>1. users' = users
        BY <2>5 DEF Upsert
      <3> QED
        BY <2>5, <3>1, UpsertArrives, Unlike DEF Loaded, Mirrors, ByName, Exists
    <2>6. CASE Bind(r)
      BY <2>6, BindArrives DEF Loaded
    <2>7. CASE Insert(r)
      BY <2>7, InsertArrives, Unlike DEF Loaded
    <2> QED
      BY <2>2, <2>3, <2>4, <2>5, <2>6, <2>7 DEF Fills
  <1>3. \A q \in Requests : Safe(work'[q])
    <2>1. CASE \E r \in Requests : Acts(r)
      BY <1>1, <1>2, <2>1, OneMoves
    <2>2. CASE RevokeDevice
      BY <1>1, <2>2, CrossingKept DEF RevokeDevice
    <2>3. CASE UNCHANGED work
      BY <1>1, <2>3 DEF Kept
    <2> QED
      BY <2>1, <2>2, <2>3, StepCases
         DEF vars, RevokePAT, ExpireToken, FetchRevoked, EditOutside
  <1>4. ASSUME NEW r \in Requests, Loaded(work'[r]) PROVE Bound(work[r])'
    <2>1. /\ users'[work'[r].user] # None
          /\ users'[work'[r].user] \in Row => users'[work'[r].user].name = work'[r].name
      BY <1>3, <1>4
    <2> QED
      BY <2>1 DEF Bound, Exists
  <1>5. (\A u, v \in Users :
           (Exists(u) /\ Exists(v) /\ users[u].name = users[v].name) => u = v)'
    BY UniqueStep DEF Exists
  <1> QED
    BY <1>4, <1>5 DEF BoundInv

-----------------------------------------------------------------------------
(* Takeover.                                                               *)

LEMMA TakeoverStep ==
  ASSUME TypeOK, Control, BoundInv, TakeoverInv, [Next]_vars
  PROVE  TakeoverInv'
  <1>0. \A u \in Users : Evolves(users[u], users'[u])
    BY Evolution
  <1> DEFINE Safe(q) ==
        (q.at \in {"mirror", "session"} /\ q.flag /\ users'[q.user] \in Row)
           => ~users'[q.user].local
  <1>1. ASSUME NEW q \in Requests, NEW at \in {"mirror", "session"}, work[q].at = at,
               work'[q].user = work[q].user, work'[q].flag = work[q].flag
        PROVE  Safe(work'[q])
    <2>1. Fits(work[q]) /\ Bound(work[q]) /\ Loaded(work[q])
      BY <1>1 DEF Control, BoundInv, Loaded
    <2>2. work[q].user \in Users /\ users[work[q].user] # None
      BY <2>1, LoadedUser DEF Bound
    <2>3. users'[work[q].user] \in Row =>
             /\ users[work[q].user] \in Row
             /\ users'[work[q].user].local => users[work[q].user].local
      BY <1>0, <2>2 DEF Evolves
    <2> QED
      BY <1>1, <2>3 DEF TakeoverInv, Exists
  <1>2. ASSUME NEW q \in Requests, Kept(work[q], work'[q]) PROVE Safe(work'[q])
    BY <1>1, <1>2 DEF Kept
  <1>3. ASSUME NEW r \in Requests, Acts(r) PROVE Safe(work'[r])
    <2>1. CASE ~Fills(r)
      <3>1. CASE work'[r].at \notin {"mirror", "session"}
        BY <3>1
      <3>2. CASE work'[r].at \in {"mirror", "session"}
        <4>1. Follows(work[r], work'[r].at) /\ SameCargo(work[r], work'[r])
          BY <1>3, <2>1, <3>2, Carries
        <4>2. work[r].at = "mirror"
          BY <3>2, <4>1 DEF Follows
        <4> QED
          BY <1>1, <4>1, <4>2 DEF SameCargo
      <3> QED
        BY <3>1, <3>2
    <2>2. CASE Begins(r)
      BY <2>2, BeginsArrives
    <2>3. CASE Load(r)
      BY <2>3, LoadArrives
    <2>4. CASE Upsert(r)
      <3>1. users' = users
        BY <2>4 DEF Upsert
      <3> QED
        BY <2>4, <3>1, UpsertArrives DEF Mirrors
    <2>5. CASE Bind(r)
      BY <2>5, BindArrives
    <2>6. CASE Insert(r)
      BY <2>6, InsertArrives
    <2> QED
      BY <2>1, <2>2, <2>3, <2>4, <2>5, <2>6 DEF Fills
  <1>4. \A q \in Requests : Safe(work'[q])
    <2>1. CASE \E r \in Requests : Acts(r)
      BY <1>2, <1>3, <2>1, OneMoves
    <2>2. CASE RevokeDevice
      BY <1>2, <2>2, CrossingKept DEF RevokeDevice
    <2>3. CASE UNCHANGED work
      BY <1>2, <2>3 DEF Kept
    <2> QED
      BY <2>1, <2>2, <2>3, StepCases
         DEF vars, RevokePAT, ExpireToken, FetchRevoked, EditOutside
  <1>5. ASSUME NEW s \in sessions', s.directory
        PROVE  users'[s.user] \in Row /\ ~users'[s.user].local
    <2>1. \/ s \in sessions /\ \A r \in Requests : DeleteUser(r) => s.user # work[r].user
          \/ \E r \in Requests : IssueSession(r) /\ s \notin sessions
      <3>1. ASSUME NEW r \in Requests, DeleteUser(r) PROVE s \in sessions /\ s.user # work[r].user
        BY <1>5, <3>1 DEF DeleteUser
      <3>2. ASSUME \A r \in Requests : ~DeleteUser(r), s \notin sessions
            PROVE  \E r \in Requests : IssueSession(r)
        <4>1. ASSUME NEW r \in Requests, WritesUsers(r) PROVE sessions' = sessions
          BY <3>2, <4>1 DEF WritesUsers, SetUserDisabled, Insert, Mirror, Link, WriteBack
        <4>2. ASSUME NEW r \in Requests, WritesElse(r), ~IssueSession(r)
              PROVE  sessions' \subseteq sessions
          BY <4>2 DEF WritesElse, DirCreate, DirSetPassword, DirDelete, DropSessions,
               RevokeTokens, DeleteTokens, InsertToken
        <4> QED
          BY <1>5, <3>2, <4>1, <4>2, StepCases, BeginsFrame, DecidesFrame
             DEF Acts, vars, RevokePAT, ExpireToken, RevokeDevice, FetchRevoked, EditOutside
      <3> QED
        BY <3>1, <3>2
    <2>2. CASE s \in sessions /\ \A r \in Requests : DeleteUser(r) => s.user # work[r].user
      <3>1. s.user \in Users
        BY <2>2 DEF TypeOK, Session
      <3>2. users[s.user] \in Row /\ ~users[s.user].local
        BY <1>5, <2>2 DEF TakeoverInv, Exists
      <3>3. users'[s.user] \in Row
        BY <2>2, <3>1, <3>2, Evolution
      <3> QED
        BY <1>0, <3>1, <3>2, <3>3, Unlike DEF Evolves
    <2>3. ASSUME NEW r \in Requests, IssueSession(r), s \notin sessions
          PROVE  users'[s.user] \in Row /\ ~users'[s.user].local
      <3>1. s = [user |-> work[r].user, directory |-> work[r].flag] /\ Exists(work[r].user)
        BY <1>5, <2>3 DEF IssueSession
      <3>2. s.user = work[r].user /\ s.directory = work[r].flag /\ users' = users
        BY <2>3, <3>1 DEF IssueSession
      <3>3. work[r].at = "session"
        BY <2>3 DEF IssueSession, At
      <3> QED
        BY <1>5, <3>1, <3>2, <3>3 DEF TakeoverInv, Exists
    <2> QED
      BY <2>1, <2>2, <2>3
  <1> QED
    BY <1>4, <1>5 DEF TakeoverInv, Exists

LEMMA TakeoverImplied ==
  ASSUME BoundInv, TakeoverInv
  PROVE  NoTakeover
  BY DEF BoundInv, TakeoverInv, NoTakeover, Loaded, Bound

-----------------------------------------------------------------------------
(* Entries of the directory.                                               *)

\* Which step a request takes where it stands.
LEMMA ActsAt ==
  ASSUME NEW r \in Requests, Acts(r)
  PROVE  /\ work[r].at # "cut"
         /\ work[r].at = "lookup" => LookupDN(r) \/ Cut(r)
         /\ work[r].at = "dirCreate" => DirCreate(r) \/ Cut(r)
         /\ work[r].at = "dirPassword" => DirSetPassword(r) \/ Cut(r)
         /\ work[r].at = "dropSessions" => DropSessions(r) \/ Cut(r)
         /\ work[r].at = "deleteTokens" => DeleteTokens(r) \/ Cut(r)
         /\ work[r].at = "deleteUser" => DeleteUser(r) \/ Cut(r)
         /\ work[r].at = "revokeTokens" => RevokeTokens(r) \/ Cut(r)
         /\ work[r].at = "insertToken" => InsertToken(r) \/ Cut(r)
  <1>1. Begins(r) => work[r].at = "start"
    BY BeginsFrame
  <1>2. /\ Load(r) => work[r].at = "load"
        /\ CountAdmins(r) => work[r].at = "count"
        /\ LookupDN(r) => work[r].at = "lookup"
        /\ DirUpdate(r) => work[r].at = "dirUpdate"
        /\ Upsert(r) => work[r].at = "upsert"
        /\ Bind(r) => work[r].at = "bind"
    BY DEF Load, CountAdmins, LookupDN, DirUpdate, Upsert, Bind, At
  <1>3. Cut(r) => work[r].at # "cut"
    BY DEF Cut
  <1>4. /\ SetUserDisabled(r) => work[r].at = "setDisabled"
        /\ Insert(r) => work[r].at = "insert"
        /\ Mirror(r) => work[r].at = "mirror"
        /\ Link(r) => work[r].at = "link"
        /\ WriteBack(r) => work[r].at = "writeBack"
        /\ DeleteUser(r) => work[r].at = "deleteUser"
    BY DEF SetUserDisabled, Insert, Mirror, Link, WriteBack, DeleteUser, At
  <1>5. /\ DirCreate(r) => work[r].at = "dirCreate"
        /\ DirSetPassword(r) => work[r].at = "dirPassword"
        /\ DirDelete(r) => work[r].at = "dirDelete"
        /\ DropSessions(r) => work[r].at = "dropSessions"
        /\ IssueSession(r) => work[r].at = "session"
        /\ RevokeTokens(r) => work[r].at = "revokeTokens"
        /\ DeleteTokens(r) => work[r].at = "deleteTokens"
        /\ InsertToken(r) => work[r].at = "insertToken"
    BY DEF DirCreate, DirSetPassword, DirDelete, DropSessions, IssueSession, RevokeTokens,
         DeleteTokens, InsertToken, At
  <1> QED
    BY <1>1, <1>2, <1>3, <1>4, <1>5 DEF Acts, Decides, WritesUsers, WritesElse

\* History is only added to.
LEMMA CauseGrows ==
  ASSUME [Next]_vars
  PROVE  cause \subseteq cause'
  <1>1. ASSUME NEW r \in Requests, WritesUsers(r) PROVE cause \subseteq cause'
    BY <1>1 DEF WritesUsers, SetUserDisabled, Insert, Mirror, Link, WriteBack, DeleteUser
  <1>2. ASSUME NEW r \in Requests, WritesElse(r) PROVE cause \subseteq cause'
    BY <1>2 DEF WritesElse, DirCreate, DirSetPassword, DirDelete, DropSessions, IssueSession,
         RevokeTokens, DeleteTokens, InsertToken
  <1> QED
    BY <1>1, <1>2, StepCases, BeginsFrame, DecidesFrame
       DEF Acts, vars, RevokePAT, ExpireToken, RevokeDevice, FetchRevoked, EditOutside

\* A request that no step of its own moves.
LEMMA Waits ==
  ASSUME TypeOK, Control, [Next]_vars, NEW q \in Requests
  PROVE  Acts(q) \/ Kept(work[q], work'[q])
  <1>1. CASE \E r \in Requests : Acts(r)
    BY <1>1, OneMoves
  <1>2. CASE RevokeDevice
    BY <1>2, CrossingKept DEF RevokeDevice
  <1>3. CASE UNCHANGED work
    BY <1>3 DEF Kept
  <1> QED
    BY <1>1, <1>2, <1>3, StepCases
       DEF vars, RevokePAT, ExpireToken, FetchRevoked, EditOutside

\* A deletion under way stays so until the account is gone.
LEMMA DeletingKept ==
  ASSUME TypeOK, Control, [Next]_vars, NEW u \in Users, Deleting(u),
         users[u] \in Row, users'[u] \in Row
  PROVE  Deleting(u)'
  <1>1. users'[u].name = users[u].name
    BY Evolution, Unlike DEF Evolves
  <1>2. PICK r \in Requests :
           /\ work[r].op = "delete" /\ work[r].user = u
           /\ work[r].name = users[u].name /\ ~work[r].row.local
           /\ work[r].at \in {"dropSessions", "deleteTokens", "deleteUser", "cut"}
    BY DEF Deleting
  <1>3. CASE Kept(work[r], work'[r])
    BY <1>1, <1>2, <1>3 DEF Kept, Deleting
  <1>4. CASE Acts(r)
    <2>1. work'[r].at \in {"deleteTokens", "deleteUser", "cut"} /\ SameCargo(work[r], work'[r])
      <3>1. CASE DropSessions(r)
        BY <1>2, <3>1, ContinueCarries DEF DropSessions, Steps
      <3>2. CASE DeleteTokens(r)
        BY <3>2, ContinueCarries DEF DeleteTokens, Steps
      <3>3. CASE Cut(r)
        BY <3>3, ContinueCarries DEF Cut, Steps
      <3>4. CASE DeleteUser(r)
        <4>1. users' = [users EXCEPT ![u] = Gone]
          BY <1>2, <3>4 DEF DeleteUser, Exists
        <4>2. users'[u] = Gone
          BY <4>1 DEF TypeOK
        <4> QED
          BY <4>2, Unlike
      <3> QED
        BY <1>2, <1>4, <3>1, <3>2, <3>3, <3>4, ActsAt
    <2> QED
      BY <1>1, <1>2, <2>1 DEF SameCargo, Deleting
  <1> QED
    BY <1>3, <1>4, Waits

\* Only a deletion, or the directory's own tools, remove an entry.
LEMMA EntryLoss ==
  ASSUME TypeOK, Control, [Next]_vars, NEW n \in Names, entries[n] # None, entries'[n] = None
  PROVE  \/ "removed" \in cause'
         \/ \E r \in Requests : DirDelete(r) /\ work[r].name = n
  <1>1. entries \in [Names -> Entry \cup {None}]
    BY DEF TypeOK
  <1>2. ASSUME NEW r \in Requests, WritesUsers(r) PROVE entries' = entries
    BY <1>2 DEF WritesUsers, SetUserDisabled, Insert, Mirror, Link, WriteBack, DeleteUser
  <1>3. ASSUME NEW r \in Requests, WritesElse(r) PROVE DirDelete(r) /\ work[r].name = n
    <2>1. Fits(work[r])
      BY DEF Control
    <2>2. CASE DirCreate(r)
      <3>1. [pw |-> FALSE, admin |-> FALSE] \in Entry
        BY DEF Entry
      <3> QED
        BY <1>1, <2>2, <3>1, Unlike DEF DirCreate
    <2>3. CASE DirSetPassword(r)
      <3> DEFINE m == work[r].name
      <3>1. \/ entries' = entries
            \/ /\ m \in Names /\ entries[m] \in Entry
               /\ entries' = [entries EXCEPT ![m] = [entries[m] EXCEPT !.pw = TRUE]]
        BY <1>1, <2>1, <2>3 DEF DirSetPassword, At, Fits
      <3>2. entries[m] \in Entry => [entries[m] EXCEPT !.pw = TRUE] \in Entry
        BY DEF Entry
      <3> QED
        BY <1>1, <3>1, <3>2, Unlike
    <2>4. CASE DirDelete(r)
      BY <1>1, <2>4 DEF DirDelete
    <2> QED
      BY <1>3, <2>2, <2>3, <2>4 DEF WritesElse, DropSessions, IssueSession, RevokeTokens,
           DeleteTokens, InsertToken
  <1>4. ASSUME NEW m \in Names, EditOutside(m) PROVE "removed" \in cause'
    <2>1. \/ "removed" \in cause'
          \/ /\ entries[m] \in Entry
             /\ entries' = [entries EXCEPT ![m] = [entries[m] EXCEPT !.admin = ~entries[m].admin]]
      BY <1>1, <1>4 DEF EditOutside
    <2>2. entries[m] \in Entry => [entries[m] EXCEPT !.admin = ~entries[m].admin] \in Entry
      BY DEF Entry
    <2> QED
      BY <1>1, <2>1, <2>2, Unlike
  <1> QED
    BY <1>2, <1>3, <1>4, StepCases, BeginsFrame, DecidesFrame
       DEF Acts, vars, RevokePAT, ExpireToken, RevokeDevice, FetchRevoked

\* An account that loses its entry is being deleted, unless it is excused.
LEMMA EntryLost ==
  ASSUME TypeOK, Control, BoundInv, [Next]_vars, NEW u \in Users, users[u] \in Row,
         entries[users[u].name] # None, entries'[users[u].name] = None
  PROVE  Deleting(u)' \/ Excused'
  <1>1. users[u].name \in Names
    BY DEF Row
  <1>2. CASE "removed" \in cause'
    BY <1>2 DEF Excused
  <1>3. ASSUME NEW r \in Requests, DirDelete(r), work[r].name = users[u].name
        PROVE  Deleting(u)' \/ Excused'
    <2> DEFINE n == work[r].name
               p == [work[r] EXCEPT !.at = "dropSessions"]
    <2>1. entries[n] # None /\ users' = users /\ work[r].at = "dirDelete"
      BY <1>3 DEF DirDelete, At
    <2>2. CASE ~Exists(work[r].user)
      BY <1>3, <2>1, <2>2 DEF DirDelete, Excused
    <2>3. CASE Exists(work[r].user)
      <3>1. work[r] \in Request /\ Fits(work[r]) /\ Loaded(work[r])
        BY <2>1 DEF TypeOK, Control, Loaded
      <3>2. /\ work[r].user \in Users /\ work[r].op = "delete" /\ ~work[r].row.local
        BY <2>1, <3>1 DEF Fits, Removing
      <3>3. work[r].user = u
        BY <1>3, <2>3, <3>1, <3>2 DEF BoundInv, Bound, Exists
      <3>4. work'[r] = p
        BY <1>3, <2>1 DEF DirDelete
      <3>5. p.at = "dropSessions" /\ SameCargo(work[r], p)
        BY <3>1 DEF Request, SameCargo
      <3> HIDE DEF p
      <3> QED
        BY <1>3, <2>1, <3>2, <3>3, <3>4, <3>5 DEF SameCargo, Deleting
    <2> QED
      BY <2>2, <2>3
  <1> QED
    BY <1>1, <1>2, <1>3, EntryLoss

LEMMA ExcusedKept ==
  ASSUME [Next]_vars, Excused
  PROVE  Excused'
  BY CauseGrows DEF Excused

\* An account with an entry, or excused for having none, stays one of the two.
LEMMA AccountStep ==
  ASSUME TypeOK, Control, BoundInv, [Next]_vars, NEW u \in Users,
         users[u] \in Row, users'[u] \in Row,
         entries[users[u].name] # None \/ Deleting(u) \/ Excused
  PROVE  entries'[users[u].name] # None \/ Deleting(u)' \/ Excused'
  BY EntryLost, DeletingKept, ExcusedKept

LEMMA EntryStep ==
  ASSUME TypeOK, Control, BoundInv, EntryInv, [Next]_vars
  PROVE  EntryInv'
  <1>0. \A u \in Users : Evolves(users[u], users'[u])
    BY Evolution
  <1>1. ASSUME NEW u \in Users, users'[u] \in Row, ~users'[u].local,
               entries'[users'[u].name] = None
        PROVE  Deleting(u)' \/ Excused'
    <2>1. CASE users[u] = None
      <3>1. PICK r \in Requests : Insert(r) /\ Adds(r, u)
        BY <1>1, <2>1, Evolution, Unlike
      <3>2. Fits(work[r]) /\ users'[u] = work[r].row /\ work[r].at = "insert"
        BY <3>1 DEF Control, Adds, TypeOK
      <3>3. work[r].row.name = work[r].name /\ Mirroring(work[r])
        BY <1>1, <3>2 DEF Fits, Mirroring
      <3>4. entries' = entries
        BY <3>1 DEF Insert
      <3>5. work[r].crossed \/ Excused
        BY <1>1, <3>2, <3>3, <3>4 DEF EntryInv
      <3>6. work[r].crossed => Excused'
        BY <3>1 DEF Adds, Excused
      <3> QED
        BY <3>5, <3>6, ExcusedKept
    <2>2. CASE users[u] # None
      <3>1. users[u] \in Row /\ users'[u].name = users[u].name
        BY <1>0, <1>1, <2>2 DEF Evolves
      <3>2. CASE ~users[u].local
        <4>1. entries[users[u].name] # None \/ Deleting(u) \/ Excused
          BY <3>1, <3>2 DEF EntryInv, Exists
        <4> QED
          BY <1>1, <3>1, <4>1, AccountStep
      <3>3. CASE users[u].local
        <4>1. PICK r \in Requests : Link(r) /\ work[r].user = u
          <5>1. PICK r \in Requests : WritesUsers(r)
            BY <1>1, <3>3, UsersWriters
          <5>2. work[r] \in Request /\ Fits(work[r]) /\ users \in [Users -> Row \cup {None, Gone}]
            BY DEF TypeOK, Control
          <5>3. CASE SetUserDisabled(r)
            BY <1>1, <3>1, <3>3, <5>2, <5>3 DEF SetUserDisabled, At, Fits, Exists, Row
          <5>4. CASE Mirror(r)
            BY <1>1, <3>1, <3>3, <5>2, <5>4 DEF Mirror, At, Fits, Exists, Row
          <5>5. CASE WriteBack(r)
            <6> DEFINE w == work[r].user
                       row == [users[w] EXCEPT !.admin = work[r].row.admin,
                                               !.disabled = work[r].row.disabled]
            <6>1. users' = users \/ (users[w] \in Row /\ users' = [users EXCEPT ![w] = row])
              BY <5>5 DEF WriteBack, Exists
            <6>2. users[w] \in Row => row.local = users[w].local
              BY DEF Row
            <6> HIDE DEF row
            <6> QED
              BY <1>1, <3>1, <3>3, <5>2, <6>1, <6>2
          <5>6. CASE DeleteUser(r)
            BY <1>1, <3>1, <3>3, <5>2, <5>6, Unlike DEF DeleteUser, At, Fits, Removing
          <5>7. CASE Insert(r)
            BY <1>1, <2>2, <3>3, <5>2, <5>7 DEF Insert
          <5>8. CASE Link(r)
            BY <1>1, <3>1, <3>3, <5>2, <5>8 DEF Link, At, Fits
          <5> QED
            BY <5>1, <5>3, <5>4, <5>5, <5>6, <5>7, <5>8 DEF WritesUsers
        <4>2. work[r].at = "link" /\ entries' = entries
          BY <4>1 DEF Link, At
        <4>3. work[r].name = users[u].name
          BY <3>1, <4>1, <4>2 DEF BoundInv, Loaded, Bound, Exists
        <4>4. entries[users[u].name] # None \/ Deleting(u) \/ Excused
          BY <3>1, <4>1, <4>2, <4>3 DEF EntryInv, Exists
        <4> QED
          BY <1>1, <3>1, <4>4, AccountStep
      <3> QED
        BY <3>2, <3>3
    <2> QED
      BY <2>1, <2>2
  <1>2. ASSUME NEW q \in Requests, Kept(work[q], work'[q]), Mirroring(work'[q])
        PROVE  entries'[work'[q].name] # None \/ work'[q].crossed \/ Excused'
    <2> DEFINE n == work[q].name
    <2>1. work[q].at \in {"upsert", "insert"} /\ Mirroring(work[q]) /\ Fits(work[q])
      BY <1>2 DEF Kept, Mirroring, Control
    <2>2. n \in Names /\ work'[q].name = n /\ (work[q].crossed => work'[q].crossed)
      BY <1>2, <2>1 DEF Fits, Kept
    <2>3. CASE work[q].crossed \/ Excused
      BY <2>2, <2>3, ExcusedKept
    <2>4. CASE entries[n] # None /\ entries'[n] = None
      <3>1. CASE "removed" \in cause'
        BY <3>1 DEF Excused
      <3>2. ASSUME NEW r \in Requests, DirDelete(r), work[r].name = n
            PROVE  work'[q].crossed
        <4>1. q # r
          BY <2>1, <3>2 DEF DirDelete, At
        <4>2. work'[q] = [work[q] EXCEPT !.crossed = TRUE]
          BY <2>1, <2>4, <3>2, <4>1 DEF DirDelete
        <4>3. work[q] \in Request
          BY DEF TypeOK
        <4> QED
          BY <4>2, <4>3, CrossedKept
      <3> QED
        BY <2>2, <2>4, <3>1, <3>2, EntryLoss
    <2> QED
      BY <2>1, <2>2, <2>3, <2>4 DEF EntryInv
  <1>3. ASSUME NEW r \in Requests, DirCreate(r) \/ DirSetPassword(r),
               work'[r].at \in {"upsert", "link"}
        PROVE  entries'[work[r].name] # None
    <2>1. ~Finish(r)
      BY <1>3, ContinueCarries DEF Finish, Steps
    <2>2. Fits(work[r]) /\ entries \in [Names -> Entry \cup {None}]
      BY DEF Control, TypeOK
    <2>3. work[r].name \in Names
      BY <1>3, <2>2 DEF DirCreate, DirSetPassword, At, Fits
    <2>4. CASE DirCreate(r)
      <3>1. entries' = [entries EXCEPT ![work[r].name] = [pw |-> FALSE, admin |-> FALSE]]
        BY <2>1, <2>4 DEF DirCreate
      <3>2. [pw |-> FALSE, admin |-> FALSE] \in Entry
        BY DEF Entry
      <3> QED
        BY <2>2, <2>3, <3>1, <3>2, Unlike
    <2>5. CASE DirSetPassword(r)
      <3>1. /\ entries' = [entries EXCEPT ![work[r].name] = [entries[work[r].name] EXCEPT !.pw = TRUE]]
            /\ entries[work[r].name] \in Entry
        BY <2>1, <2>2, <2>3, <2>5 DEF DirSetPassword
      <3>2. [entries[work[r].name] EXCEPT !.pw = TRUE] \in Entry
        BY <3>1 DEF Entry
      <3> QED
        BY <2>2, <2>3, <3>1, <3>2, Unlike
    <2> QED
      BY <1>3, <2>4, <2>5
  <1>4. ASSUME NEW r \in Requests, Acts(r), Mirroring(work'[r])
        PROVE  entries'[work'[r].name] # None \/ work'[r].crossed \/ Excused'
    <2>1. CASE ~Fills(r)
      <3>1. Follows(work[r], work'[r].at) /\ SameCargo(work[r], work'[r])
        BY <1>4, <2>1, Carries DEF Mirroring
      <3>2. work'[r].at = "upsert" /\ work[r].at \in {"dirCreate", "dirPassword"}
        BY <1>4, <3>1 DEF Follows, Mirroring
      <3>3. ~Cut(r)
        BY <3>2, ContinueCarries DEF Cut, Steps
      <3>4. DirCreate(r) \/ DirSetPassword(r)
        BY <1>4, <3>2, <3>3, ActsAt
      <3> QED
        BY <1>3, <3>1, <3>2, <3>4 DEF SameCargo
    <2>2. CASE Begins(r)
      BY <1>4, <2>2, BeginsArrives DEF Mirroring
    <2>3. CASE Load(r)
      BY <1>4, <2>3, LoadArrives DEF Mirroring
    <2>4. CASE Upsert(r)
      <3>1. work[r].at = "upsert" /\ entries' = entries
        BY <2>4 DEF Upsert, At
      <3>2. entries[work[r].name] # None \/ work[r].crossed \/ Excused
        BY <3>1 DEF EntryInv, Mirroring
      <3>3. work'[r].name = work[r].name /\ work'[r].crossed = work[r].crossed
        BY <1>4, <2>4, UpsertArrives DEF Mirroring
      <3> QED
        BY <3>1, <3>2, <3>3, ExcusedKept
    <2>5. CASE Bind(r)
      <3>1. entries' = entries
        BY <2>5 DEF Bind
      <3> QED
        BY <1>4, <2>5, <3>1, BindArrives DEF Mirroring
    <2>6. CASE Insert(r)
      BY <1>4, <2>6, InsertArrives DEF Mirroring
    <2> QED
      BY <2>1, <2>2, <2>3, <2>4, <2>5, <2>6 DEF Fills
  <1>5. ASSUME NEW q \in Requests, work'[q].at = "link", users'[work'[q].user] \in Row
        PROVE  entries'[work'[q].name] # None \/ Deleting(work[q].user)' \/ Excused'
    <2>1. CASE Kept(work[q], work'[q])
      <3> DEFINE u == work[q].user
      <3>1. work[q].at = "link" /\ work'[q].user = u /\ work'[q].name = work[q].name
        BY <1>5, <2>1 DEF Kept
      <3>2. u \in Users /\ Bound(work[q])
        BY <3>1 DEF Control, Fits, BoundInv, Loaded
      <3>3. users[u] \in Row /\ users[u].name = work[q].name
        BY <1>0, <1>5, <3>1, <3>2 DEF Evolves, Bound, Exists
      <3>4. entries[users[u].name] # None \/ Deleting(u) \/ Excused
        BY <3>1, <3>3 DEF EntryInv, Exists
      <3>5. entries'[users[u].name] # None \/ Deleting(u)' \/ Excused'
        BY <1>5, <3>1, <3>2, <3>3, <3>4, AccountStep
      <3>6. Deleting(u)' => Deleting(work[q].user)'
        BY <3>1 DEF Deleting
      <3> QED
        BY <3>1, <3>3, <3>5, <3>6
    <2>2. CASE Acts(q)
      <3>1. ~Fills(q)
        BY <1>5, BeginsArrives, LoadArrives, UpsertArrives, BindArrives, InsertArrives DEF Fills
      <3>2. Follows(work[q], "link") /\ SameCargo(work[q], work'[q])
        BY <1>5, <2>2, <3>1, Carries
      <3>3. ~Cut(q)
        BY <1>5, ContinueCarries DEF Cut, Steps
      <3>4. LookupDN(q) \/ DirCreate(q) \/ DirSetPassword(q)
        BY <2>2, <3>2, <3>3, ActsAt DEF Follows
      <3>5. CASE LookupDN(q)
        <4>1. entries[work[q].name] # None
          BY <1>5, <3>5, ContinueCarries DEF LookupDN, Steps
        <4> QED
          BY <3>2, <3>5, <4>1 DEF LookupDN, SameCargo
      <3> QED
        BY <1>3, <1>5, <3>2, <3>4, <3>5 DEF SameCargo
    <2> QED
      BY <2>1, <2>2, Waits
  <1>6. \A u \in Users :
          ((Exists(u) /\ ~users[u].local /\ entries[users[u].name] = None)
             => (Deleting(u) \/ Excused))'
    BY <1>1 DEF Exists
  <1>7. \A q \in Requests : (Mirroring(work[q]) =>
             (entries[work[q].name] # None \/ work[q].crossed \/ Excused))'
    BY <1>2, <1>4, Waits
  <1>8. \A q \in Requests : ((work[q].at = "link" /\ Exists(work[q].user)) =>
             (entries[work[q].name] # None \/ Deleting(work[q].user) \/ Excused))'
    BY <1>5 DEF Exists
  <1> QED
    BY <1>6, <1>7, <1>8 DEF EntryInv

LEMMA EntryImplied ==
  ASSUME EntryInv
  PROVE  MirrorHasEntry
  BY DEF EntryInv, MirrorHasEntry, Deleting, EntryDeleted, Excused

-----------------------------------------------------------------------------
(* Tokens.                                                                 *)

\* A token row is revoked, or removed, and never changes hands.
TokenEvolves(p, q) ==
    /\ p = Gone => q = Gone
    /\ p \in Pat => \/ q = Gone
                     \/ /\ q \in Pat /\ q.user = p.user /\ q.crossed = p.crossed
                        /\ p.revoked => q.revoked
    /\ (p \notin Pat /\ q \in Pat) => p = None

LEMMA TokenEvolution ==
  ASSUME TypeOK, Control, [Next]_vars, NEW t \in Tokens
  PROVE  /\ TokenEvolves(pats[t], pats'[t])
         /\ (pats[t] = None /\ pats'[t] \in Pat) =>
               \E r \in Requests : /\ InsertToken(r)
                                  /\ pats'[t] = Issued(work[r].user, work[r].crossed)
  <1> DEFINE Goal(x) ==
        /\ TokenEvolves(pats[t], pats'[t])
        /\ (pats[t] = None /\ pats'[t] \in Pat) =>
              /\ InsertToken(x)
              /\ pats'[t] = Issued(work[x].user, work[x].crossed)
  <1>1. pats \in [Tokens -> Pat \cup {None, Gone}]
    BY DEF TypeOK
  <1>2. CASE pats' = pats
    BY <1>2, Unlike DEF TokenEvolves
  <1>3. ASSUME NEW S, pats' = Revoked(S)
        PROVE  TokenEvolves(pats[t], pats'[t]) /\ (pats'[t] \in Pat => pats[t] # None)
    BY <1>1, <1>3, RevokedTyped, Unlike DEF TokenEvolves
  <1>4. ASSUME NEW r \in Requests, DeleteTokens(r)
        PROVE  TokenEvolves(pats[t], pats'[t]) /\ (pats'[t] \in Pat => pats[t] # None)
    BY <1>1, <1>4, Unlike DEF DeleteTokens, TokenEvolves
  <1>5. ASSUME NEW r \in Requests, InsertToken(r)
        PROVE  Goal(r)
    BY <1>1, <1>5, Unlike DEF InsertToken, TokenEvolves
  <1>6. ASSUME NEW x \in Tokens, RevokePAT(x) \/ ExpireToken(x)
        PROVE  TokenEvolves(pats[t], pats'[t]) /\ (pats'[t] \in Pat => pats[t] # None)
    <2>1. \/ pats' = [pats EXCEPT ![x] = [pats[x] EXCEPT !.revoked = TRUE]]
          \/ pats' = [pats EXCEPT ![x] = Gone]
      BY <1>1, <1>6 DEF RevokePAT, ExpireToken
    <2>2. pats[x] \in Pat
      BY <1>6 DEF RevokePAT, ExpireToken
    <2> DEFINE p == [pats[x] EXCEPT !.revoked = TRUE]
    <2>3. p \in Pat /\ p.user = pats[x].user /\ p.crossed = pats[x].crossed /\ p.revoked
      BY <2>2 DEF Pat
    <2> HIDE DEF p
    <2> QED
      BY <1>1, <2>1, <2>2, <2>3, Unlike DEF TokenEvolves, p
  <1>7. ASSUME NEW r \in Requests, WritesUsers(r) PROVE pats' = pats
    BY <1>7 DEF WritesUsers, SetUserDisabled, Insert, Mirror, Link, WriteBack, DeleteUser
  <1>8. ASSUME NEW r \in Requests, WritesElse(r), ~RevokeTokens(r), ~DeleteTokens(r), ~InsertToken(r)
        PROVE  pats' = pats
    BY <1>8 DEF WritesElse, DirCreate, DirSetPassword, DirDelete, DropSessions, IssueSession
  <1>9. ASSUME NEW r \in Requests, RevokeTokens(r)
        PROVE  TokenEvolves(pats[t], pats'[t]) /\ (pats'[t] \in Pat => pats[t] # None)
    BY <1>3, <1>9 DEF RevokeTokens
  <1>10. CASE RevokeDevice
    BY <1>3, <1>10 DEF RevokeDevice
  <1> QED
    BY <1>2, <1>4, <1>5, <1>6, <1>7, <1>8, <1>9, <1>10, StepCases, BeginsFrame, DecidesFrame
       DEF Acts, vars, FetchRevoked, EditOutside

\* An account whose tokens have stopped gets no other, unless a new request
\* finds it enabled and the device active.
LEMMA StoppedKept ==
  ASSUME TypeOK, Control, [Next]_vars, NEW u \in Users, Stopped(u),
         device.status # "active" \/ ~Enabled(u)
  PROVE  Stopped(u)'
  <1>1. ASSUME NEW t \in Tokens, pats'[t] \in Pat, pats'[t].user = u
        PROVE  pats'[t].revoked \/ pats'[t].crossed
    <2>1. CASE pats[t] \in Pat
      BY <1>1, <2>1, TokenEvolution, Unlike DEF TokenEvolves, Stopped
    <2>2. CASE pats[t] \notin Pat
      <3>1. PICK r \in Requests : InsertToken(r) /\ pats'[t] = Issued(work[r].user, work[r].crossed)
        BY <1>1, <2>2, TokenEvolution DEF TokenEvolves
      <3>2. work[r].user = u /\ pats'[t].crossed = work[r].crossed
        BY <1>1, <3>1 DEF Issued
      <3>3. work[r].at = "insertToken"
        BY <3>1 DEF InsertToken, At
      <3> QED
        BY <3>2, <3>3 DEF Stopped
    <2> QED
      BY <2>1, <2>2
  <1>2. ASSUME NEW q \in Requests, work'[q].at = "insertToken", work'[q].user = u
        PROVE  work'[q].crossed
    <2>1. CASE Kept(work[q], work'[q])
      BY <1>2, <2>1 DEF Kept, Stopped
    <2>2. CASE Acts(q)
      <3>1. CASE Begins(q)
        BY <1>2, <3>1, BeginsArrives
      <3>2. CASE Fills(q) /\ ~Begins(q)
        BY <1>2, <3>2, LoadArrives, UpsertArrives, BindArrives, InsertArrives DEF Fills
      <3>3. CASE ~Fills(q)
        BY <1>2, <2>2, <3>3, Carries DEF Follows
      <3> QED
        BY <3>1, <3>2, <3>3
    <2> QED
      BY <2>1, <2>2, Waits
  <1> QED
    BY <1>1, <1>2 DEF Stopped

LEMMA RevokingStops ==
  ASSUME TypeOK, Control, NEW u \in Users,
         RevokeDevice \/ \E r \in Requests : RevokeTokens(r) /\ work[r].user = u
  PROVE  Stopped(u)'
  <1>1. ASSUME NEW S, u \in S, pats' = Revoked(S), NEW t \in Tokens,
               pats'[t] \in Pat, pats'[t].user = u
        PROVE  pats'[t].revoked
    BY <1>1, RevokedTyped
  <1>2. CASE RevokeDevice
    <2>1. ASSUME NEW t \in Tokens, pats'[t] \in Pat, pats'[t].user = u PROVE pats'[t].revoked
      BY <1>1, <1>2, <2>1 DEF RevokeDevice
    <2>2. ASSUME NEW q \in Requests, work'[q].at = "insertToken", work'[q].user = u
          PROVE  work'[q].crossed
      BY <1>2, <2>2, CrossingKept DEF RevokeDevice, Kept
    <2> QED
      BY <2>1, <2>2 DEF Stopped
  <1>3. ASSUME NEW r \in Requests, RevokeTokens(r), work[r].user = u
        PROVE  Stopped(u)'
    <2>1. ASSUME NEW t \in Tokens, pats'[t] \in Pat, pats'[t].user = u PROVE pats'[t].revoked
      BY <1>1, <1>3, <2>1 DEF RevokeTokens
    <2> DEFINE C == Crossing({u})
    <2>2. PICK at \in {"dropSessions", "done"} : work' = [C EXCEPT ![r] = Moved(@, at)]
      BY <1>3 DEF RevokeTokens
    <2>3. /\ C \in [Requests -> Request]
          /\ \A q \in Requests : Kept(work[q], C[q])
          /\ \A q \in Requests :
                (work[q].at = "insertToken" /\ work[q].user = u) => C[q].crossed
      BY CrossingKept
    <2> HIDE DEF C
    <2>4. work'[r].at = at
      <3>1. at \in Steps /\ work'[r] = Moved(C[r], at)
        BY <2>2, <2>3 DEF Steps
      <3> QED
        BY <2>3, <3>1, MovedFields
    <2>5. ASSUME NEW q \in Requests, work'[q].at = "insertToken", work'[q].user = u
          PROVE  work'[q].crossed
      <3>1. q # r /\ work'[q] = C[q]
        BY <2>2, <2>3, <2>4, <2>5
      <3> QED
        BY <2>3, <2>5, <3>1 DEF Kept
    <2> QED
      BY <2>1, <2>5 DEF Stopped
  <1> QED
    BY <1>2, <1>3

\* An account is disabled by SetUserDisabled, or by a row written back.
LEMMA Disabling ==
  ASSUME TypeOK, Control, [Next]_vars, NEW u \in Users,
         users'[u] \in Row, users'[u].disabled, ~(users[u] \in Row /\ users[u].disabled)
  PROVE  Pending(u)' \/ "overtaken" \in cause'
  <1>1. users \in [Users -> Row \cup {None, Gone}]
    BY DEF TypeOK
  <1>2. CASE users[u] \notin Row
    <2>1. users[u] = None
      BY <1>2, Evolution DEF Evolves
    <2>2. PICK r \in Requests : Adds(r, u)
      BY <2>1, Evolution, Unlike
    <2>3. Fits(work[r]) /\ users'[u] = work[r].row
      BY <1>1, <2>2 DEF Control, Adds
    <2>4. ~work[r].row.disabled
      BY <2>2, <2>3 DEF Adds, Fits
    <2> QED
      BY <2>3, <2>4
  <1>3. CASE users[u] \in Row
    <2>1. ~users[u].disabled
      BY <1>3
    <2>2. PICK r \in Requests : WritesUsers(r)
      BY <2>1, UsersWriters
    <2>3. work[r] \in Request /\ Fits(work[r])
      BY DEF TypeOK, Control
    <2>4. CASE SetUserDisabled(r)
      <3>1. work[r].at = "setDisabled"
        BY <2>4 DEF SetUserDisabled, At
      <3>2. work[r].op = "toggle" /\ work[r].user \in Users
        BY <2>3, <3>1 DEF Fits
      <3>3. work[r].user = u /\ work[r].flag
        BY <1>1, <1>3, <2>1, <2>4, <3>2 DEF SetUserDisabled, Row
      <3>4. Continue(r, "revokeTokens")
        BY <2>4, <3>3 DEF SetUserDisabled
      <3>5. work'[r].at = "revokeTokens" /\ SameCargo(work[r], work'[r])
        BY <3>4, ContinueCarries DEF Steps
      <3> QED
        BY <3>2, <3>3, <3>5 DEF SameCargo, Pending
    <2>5. CASE Mirror(r)
      BY <1>1, <1>3, <2>1, <2>5 DEF Mirror, Row
    <2>6. CASE Link(r)
      BY <1>1, <1>3, <2>1, <2>6 DEF Link, Row
    <2>7. CASE WriteBack(r)
      <3> DEFINE w == work[r].user
                 row == [users[w] EXCEPT !.admin = work[r].row.admin,
                                         !.disabled = work[r].row.disabled]
      <3>1. \/ users' = users
            \/ /\ users' = [users EXCEPT ![w] = row]
               /\ row # users[w] => "overtaken" \in cause'
        BY <2>7 DEF WriteBack
      <3> HIDE DEF row
      <3> QED
        BY <1>1, <2>1, <3>1
    <2>8. CASE DeleteUser(r)
      BY <1>1, <1>3, <2>1, <2>8, Unlike DEF DeleteUser
    <2>9. CASE Insert(r)
      BY <1>1, <1>3, <2>1, <2>9, Unlike DEF Insert
    <2> QED
      BY <2>2, <2>4, <2>5, <2>6, <2>7, <2>8, <2>9 DEF WritesUsers
  <1> QED
    BY <1>2, <1>3

LEMMA PendingKept ==
  ASSUME TypeOK, Control, [Next]_vars, NEW u \in Users, Pending(u)
  PROVE  Pending(u)' \/ Stopped(u)'
  <1>1. PICK r \in Requests :
           /\ work[r].op = "toggle" /\ work[r].user = u
           /\ work[r].at \in {"revokeTokens", "cut"}
    BY DEF Pending
  <1>2. CASE Kept(work[r], work'[r])
    BY <1>1, <1>2 DEF Kept, Pending
  <1>3. CASE RevokeTokens(r)
    BY <1>1, <1>3, RevokingStops
  <1>4. CASE Cut(r)
    <2>1. work'[r].at = "cut" /\ SameCargo(work[r], work'[r])
      BY <1>4, ContinueCarries DEF Cut, Steps
    <2> QED
      BY <1>1, <2>1 DEF SameCargo, Pending
  <1> QED
    BY <1>1, <1>2, <1>3, <1>4, Waits, ActsAt

LEMMA TokenStep ==
  ASSUME TypeOK, Control, TokenInv, [Next]_vars
  PROVE  TokenInv'
  <1> SUFFICES ASSUME NEW u \in Users
               PROVE  (\/ Stopped(u)
                       \/ /\ device.status # "revoked"
                          /\ (Exists(u) /\ users[u].disabled)
                               => (Pending(u) \/ "overtaken" \in cause))'
    BY DEF TokenInv
  <1> DEFINE D == /\ device.status # "revoked"
                  /\ (Exists(u) /\ users[u].disabled) => (Pending(u) \/ "overtaken" \in cause)
  <1>1. CASE ~D
    <2>1. Stopped(u)
      BY <1>1 DEF TokenInv
    <2>2. device.status # "active" \/ ~Enabled(u)
      BY <1>1 DEF Enabled
    <2> QED
      BY <2>1, <2>2, StoppedKept
  <1>2. CASE D
    <2>1. CASE RevokeDevice
      BY <2>1, RevokingStops
    <2>2. CASE ~RevokeDevice
      <3>1. device'.status # "revoked"
        <4>1. device' = device \/ device' = [device EXCEPT !.status = "gone"]
          <5>1. ASSUME NEW r \in Requests, WritesUsers(r)
                PROVE  device' = device \/ device' = [device EXCEPT !.status = "gone"]
            BY <5>1 DEF WritesUsers, SetUserDisabled, Insert, Mirror, Link, WriteBack, DeleteUser
          <5>2. ASSUME NEW r \in Requests, WritesElse(r) PROVE device' = device
            BY <5>2 DEF WritesElse, DirCreate, DirSetPassword, DirDelete, DropSessions,
                 IssueSession, RevokeTokens, DeleteTokens, InsertToken
          <5> QED
            BY <2>2, <5>1, <5>2, StepCases, BeginsFrame, DecidesFrame
               DEF Acts, vars, RevokePAT, ExpireToken, FetchRevoked, EditOutside
        <4> QED
          BY <1>2, <4>1 DEF TypeOK
      <3>2. (users'[u] \in Row /\ users'[u].disabled) =>
               (Pending(u)' \/ Stopped(u)' \/ "overtaken" \in cause')
        BY <1>2, Disabling, PendingKept, CauseGrows DEF Exists
      <3> QED
        BY <3>1, <3>2 DEF Exists
    <2> QED
      BY <2>1, <2>2
  <1> QED
    BY <1>1, <1>2

LEMMA TokenImplied ==
  ASSUME TypeOK, TokenInv
  PROVE  TokensStopWithAccount
  <1> SUFFICES ASSUME NEW t \in Tokens, pats[t] \in Pat, ~pats[t].revoked, ~pats[t].crossed
               PROVE  /\ device.status # "revoked"
                      /\ (Exists(pats[t].user) /\ users[pats[t].user].disabled) =>
                            (Pending(pats[t].user) \/ "overtaken" \in cause)
    BY DEF TokensStopWithAccount, Pending
  <1>1. pats[t].user \in Users
    BY DEF Pat
  <1>2. ~Stopped(pats[t].user)
    BY DEF Stopped
  <1> QED
    BY <1>1, <1>2 DEF TokenInv

\* Only the gateway's poll replaces its list.
LEMMA GatewayWriters ==
  ASSUME [Next]_vars
  PROVE  FetchRevoked \/ gateway' = gateway
  <1>1. ASSUME NEW r \in Requests, WritesUsers(r) PROVE gateway' = gateway
    BY <1>1 DEF WritesUsers, SetUserDisabled, Insert, Mirror, Link, WriteBack, DeleteUser
  <1>2. ASSUME NEW r \in Requests, WritesElse(r) PROVE gateway' = gateway
    BY <1>2 DEF WritesElse, DirCreate, DirSetPassword, DirDelete, DropSessions,
         IssueSession, RevokeTokens, DeleteTokens, InsertToken
  <1> QED
    BY <1>1, <1>2, StepCases, BeginsFrame, DecidesFrame
       DEF Acts, vars, RevokePAT, ExpireToken, RevokeDevice, EditOutside

LEMMA GatewayStep ==
  ASSUME TypeOK, Control, GatewayInv, [Next]_vars
  PROVE  GatewayInv'
  <1>1. CASE FetchRevoked
    BY <1>1 DEF FetchRevoked, RevokedTokens, GatewayInv
  <1>2. CASE gateway' = gateway
    <2>1. ASSUME NEW t \in gateway
          PROVE  pats'[t] = Gone \/ (pats'[t] \in Pat /\ pats'[t].revoked)
      <3>1. t \in Tokens
        BY DEF TypeOK
      <3>2. TokenEvolves(pats[t], pats'[t])
        BY <3>1, TokenEvolution
      <3> QED
        BY <2>1, <3>2 DEF GatewayInv, TokenEvolves
    <2> QED
      BY <1>2, <2>1 DEF GatewayInv
  <1> QED
    BY <1>1, <1>2, GatewayWriters

LEMMA RejectionStep ==
  ASSUME TypeOK, GatewayInv, [Next]_vars, NEW t \in gateway \ gateway'
  PROVE  pats[t] = Gone
  <1>1. FetchRevoked
    BY GatewayWriters
  <1>2. t \in Tokens /\ t \notin RevokedTokens
    BY <1>1 DEF TypeOK, FetchRevoked
  <1> QED
    BY <1>2 DEF GatewayInv, RevokedTokens

-----------------------------------------------------------------------------
(* Administrators.                                                         *)

LEMMA AdministratorStep ==
  ASSUME TypeOK, Control, [Next]_vars, Admins # {}
  PROVE  Admins' # {} \/ cause' \cap {"overtaken", "demoted"} # {}
  <1>1. users \in [Users -> Row \cup {None, Gone}]
    BY DEF TypeOK
  <1>2. PICK a \in Users : users[a] \in Row /\ ~users[a].disabled /\ users[a].admin
    BY DEF Admins, Enabled, Exists
  <1>3. ASSUME NEW b \in Users, users'[b] \in Row, ~users'[b].disabled, users'[b].admin
        PROVE  Admins' # {}
    BY <1>3 DEF Admins, Enabled, Exists
  <1>4. CASE users' = users
    BY <1>2, <1>3, <1>4
  <1>5. ASSUME NEW r \in Requests, WritesUsers(r)
        PROVE  Admins' # {} \/ cause' \cap {"overtaken", "demoted"} # {}
    <2>1. work[r] \in Request /\ Fits(work[r])
      BY DEF TypeOK, Control
    <2>2. ASSUME "overtaken" \notin cause', cause' = cause \cup Overtaken(r)
          PROVE  /\ work[r].actor \in Users /\ users[work[r].actor] \in Row
                 /\ ~users[work[r].actor].disabled /\ users[work[r].actor].admin
      BY <2>2 DEF Overtaken, Admins, Enabled, Exists
    <2>3. CASE SetUserDisabled(r)
      <3>1. work[r].user \in Users /\ work[r].actor # work[r].user
        BY <2>1, <2>3 DEF SetUserDisabled, At, Fits
      <3>2. CASE work[r].flag
        <4>1. users'[work[r].actor] = users[work[r].actor] \/ work[r].actor \notin Users
          BY <1>1, <2>3, <3>1 DEF SetUserDisabled
        <4>2. cause' = cause \cup Overtaken(r)
          BY <2>3, <3>2 DEF SetUserDisabled
        <4> QED
          BY <1>3, <2>2, <4>1, <4>2
      <3>3. CASE ~work[r].flag
        <4> DEFINE u == work[r].user
                   row == [users[u] EXCEPT !.disabled = work[r].flag]
        <4>1. users' = users \/ (users[u] \in Row /\ users' = [users EXCEPT ![u] = row])
          BY <1>1, <2>3 DEF SetUserDisabled, Exists
        <4>2. users[u] \in Row => (row \in Row /\ ~row.disabled /\ row.admin = users[u].admin)
          BY <2>1, <3>3 DEF Row, Request
        <4> HIDE DEF row
        <4> QED
          BY <1>1, <1>2, <1>3, <3>1, <4>1, <4>2
      <3> QED
        BY <3>2, <3>3
    <2>4. CASE DeleteUser(r)
      <3>1. work[r].user \in Users /\ work[r].actor # work[r].user
        BY <2>1, <2>4 DEF DeleteUser, At, Fits, Removing
      <3>2. users'[work[r].actor] = users[work[r].actor] \/ work[r].actor \notin Users
        BY <1>1, <2>4, <3>1 DEF DeleteUser
      <3>3. cause' = cause \cup Overtaken(r)
        BY <2>4 DEF DeleteUser
      <3> QED
        BY <1>3, <2>2, <3>2, <3>3
    <2>5. CASE Mirror(r)
      <3> DEFINE u == work[r].user
                 row == [users[u] EXCEPT !.admin = work[r].row.admin]
      <3>1. \/ users' = users
            \/ /\ users[u] \in Row /\ users' = [users EXCEPT ![u] = row]
               /\ "demoted" \in cause' \/ ~(users[u].admin /\ ~work[r].row.admin)
        BY <1>1, <2>5 DEF Mirror, Exists
      <3>2. work[r].row \in Row
        BY <2>1, <2>5 DEF Mirror, At, Fits
      <3>3. users[u] \in Row =>
              (/\ row \in Row /\ row.disabled = users[u].disabled
               /\ row.admin = work[r].row.admin)
        BY <3>2 DEF Row
      <3> HIDE DEF row
      <3> QED
        BY <1>1, <1>2, <1>3, <1>4, <3>1, <3>3
    <2>6. CASE Link(r)
      <3> DEFINE u == work[r].user
                 row == [users[u] EXCEPT !.local = FALSE]
      <3>1. users' = users \/ (users[u] \in Row /\ users' = [users EXCEPT ![u] = row])
        BY <1>1, <2>6 DEF Link, Exists
      <3>2. users[u] \in Row =>
              (row \in Row /\ row.disabled = users[u].disabled /\ row.admin = users[u].admin)
        BY DEF Row
      <3> HIDE DEF row
      <3> QED
        BY <1>1, <1>2, <1>3, <1>4, <3>1, <3>2
    <2>7. CASE WriteBack(r)
      <3> DEFINE u == work[r].user
                 row == [users[u] EXCEPT !.admin = work[r].row.admin,
                                         !.disabled = work[r].row.disabled]
      <3>1. \/ users' = users
            \/ /\ users' = [users EXCEPT ![u] = row]
               /\ row # users[u] => "overtaken" \in cause'
        BY <2>7 DEF WriteBack
      <3> HIDE DEF row
      <3> QED
        BY <1>1, <1>2, <1>3, <1>4, <3>1
    <2>8. CASE Insert(r)
      <3>1. users'[a] = users[a]
        BY <1>1, <1>2, <2>8, Unlike DEF Insert
      <3> QED
        BY <1>2, <1>3, <3>1
    <2> QED
      BY <1>5, <2>3, <2>4, <2>5, <2>6, <2>7, <2>8 DEF WritesUsers
  <1> QED
    BY <1>4, <1>5, UsersWriters

-----------------------------------------------------------------------------
(* Theorems.                                                               *)

IInv ==
    /\ TypeOK /\ Control /\ BoundInv
    /\ TakeoverInv /\ EntryInv /\ TokenInv /\ GatewayInv

LEMMA InitIInv == Init => IInv
  <1> SUFFICES ASSUME Init PROVE IInv
    OBVIOUS
  <1>1. users \in [Users -> Row \cup {None}] /\ ConsistentTable(users)
    BY TablesAssumption DEF Init
  <1>2. Fresh \in Request /\ Fresh.at = "start" /\ ~Fresh.flag
    BY DEF Fresh, Request, Ops, Steps
  <1>3. work \in [Requests -> Request] /\ \A r \in Requests : work[r] = Fresh
    BY <1>2 DEF Init
  <1>4. \A r \in Requests : work[r].at = "start" /\ ~work[r].flag
    BY <1>2, <1>3
  <1>5. \A n \in Names : entries[n] \in Entry \cup {None} /\ (Mirrors(n) # {} => entries[n] \in Entry)
    <2>1. PICK known \in SUBSET {n \in Names : Mirrors(n) = {}} :
             entries = [n \in Names |->
                       IF n \in known THEN [pw |-> TRUE, admin |-> FALSE]
                       ELSE IF Mirrors(n) = {} THEN None
                       ELSE [pw |-> TRUE, admin |-> \E u \in Mirrors(n) : users[u].admin]]
      BY DEF Init
    <2>2. ASSUME NEW b \in BOOLEAN PROVE [pw |-> TRUE, admin |-> b] \in Entry
      BY DEF Entry
    <2>3. ASSUME NEW n \in Names PROVE (\E u \in Mirrors(n) : users[u].admin) \in BOOLEAN
      OBVIOUS
    <2> QED
      BY <2>1, <2>2, <2>3
  <1>6. DOMAIN entries = Names /\ entries = [n \in Names |-> entries[n]]
    BY DEF Init
  <1>7. entries \in [Names -> Entry \cup {None}]
    BY <1>5, <1>6
  <1>8. sessions \subseteq Session
    <2>1. ASSUME NEW u \in Admins PROVE [user |-> u, directory |-> ~users[u].local] \in Session
      BY DEF Admins, Session
    <2> QED
      BY <2>1 DEF Init
  <1>9. \A s \in sessions : s.directory => Exists(s.user) /\ ~users[s.user].local
    <2> SUFFICES ASSUME NEW s \in sessions, s.directory
                 PROVE  Exists(s.user) /\ ~users[s.user].local
      OBVIOUS
    <2>1. sessions = {[user |-> u, directory |-> ~users[u].local] : u \in Admins}
      BY DEF Init
    <2>2. PICK u \in Admins : s = [user |-> u, directory |-> ~users[u].local]
      BY <2>1
    <2>3. s.user = u /\ s.directory = ~users[u].local
      BY <2>2
    <2>4. Exists(u)
      BY DEF Admins, Enabled
    <2> QED
      BY <2>3, <2>4
  <1>10. pats \in [Tokens -> Pat \cup {None, Gone}]
    <2>1. ASSUME NEW u \in Users PROVE Issued(u, FALSE) \in Pat
      BY DEF Issued, Pat
    <2>2. {Issued(u, FALSE) : u \in {v \in grants : Enabled(v)}} \subseteq Pat
      BY <2>1 DEF Init
    <2> QED
      BY <2>2 DEF Init
  <1>11. \A t \in Tokens : pats[t] \in Pat => Enabled(pats[t].user)
    <2> SUFFICES ASSUME NEW t \in Tokens, pats[t] \in Pat PROVE Enabled(pats[t].user)
      OBVIOUS
    <2>1. pats[t] \in {None} \cup {Issued(u, FALSE) : u \in {v \in grants : Enabled(v)}}
      BY DEF Init
    <2>2. PICK u \in {v \in grants : Enabled(v)} : pats[t] = Issued(u, FALSE)
      BY <2>1, Unlike
    <2>3. pats[t].user = u
      BY <2>2 DEF Issued
    <2> QED
      BY <2>3
  <1>12. /\ device \in [status : {"active", "revoked", "gone"}, owner : Users]
         /\ device.status # "revoked"
    BY TablesAssumption DEF Init
  <1>13. TypeOK
    BY <1>1, <1>3, <1>7, <1>8, <1>10, <1>12, NullAssumption DEF TypeOK, Init
  <1>14. Control
    BY <1>4 DEF Control, Fits, Removing
  <1>15. BoundInv
    <2>1. \A r \in Requests : ~Loaded(work[r])
      BY <1>4 DEF Loaded
    <2>2. \A u, v \in Users :
            (Exists(u) /\ Exists(v) /\ users[u].name = users[v].name) => u = v
      BY <1>1, Unlike DEF ConsistentTable, Exists
    <2> QED
      BY <2>1, <2>2 DEF BoundInv
  <1>16. TakeoverInv
    BY <1>4, <1>9 DEF TakeoverInv
  <1>17. EntryInv
    <2>1. ASSUME NEW u \in Users, Exists(u), ~users[u].local PROVE entries[users[u].name] # None
      <3>1. users[u].name \in Names /\ u \in Mirrors(users[u].name)
        BY <2>1 DEF Exists, Row, Mirrors, ByName
      <3> QED
        BY <1>5, <3>1, Unlike
    <2> QED
      BY <1>4, <2>1 DEF EntryInv, Mirroring
  <1>18. TokenInv
    BY <1>4, <1>11, <1>12 DEF TokenInv, Stopped, Enabled
  <1>19. GatewayInv
    BY DEF GatewayInv, Init
  <1> QED
    BY <1>13, <1>14, <1>15, <1>16, <1>17, <1>18, <1>19 DEF IInv

LEMMA NextIInv == IInv /\ [Next]_vars => IInv'
  BY TypeStep, BoundStep, TakeoverStep, EntryStep, TokenStep, GatewayStep DEF IInv

\* The inductive invariant: the tables are typed, every request carries what
\* its step needs, the account it loaded keeps its name, and sessions, entries,
\* tokens and the gateway's list are as the theorems below say.
THEOREM Invariance == Spec => []IInv
  BY InitIInv, NextIInv, PTL DEF Spec

\* Type correctness of the tables, the directory and the requests.
THEOREM TypeCorrect == Spec => []TypeOK
  <1>1. IInv => TypeOK
    BY DEF IInv
  <1> QED
    BY <1>1, Invariance, PTL

\* A directory sign-in (authViaConnectors, UpsertExternalUser) opens or changes
\* the mirror of its entry only, however many accounts are created, promoted
\* and deleted between its lookups and its writes.
THEOREM NoAccountTaken == Spec => []NoTakeover
  <1>1. IInv => NoTakeover
    BY TakeoverImplied DEF IInv
  <1> QED
    BY <1>1, Invariance, PTL

\* Directory first: creating, promoting, editing and deleting accounts leave no
\* mirror without its entry, other than by the exceptions the property names.
THEOREM EntryBehindMirror == Spec => []MirrorHasEntry
  <1>1. IInv => MirrorHasEntry
    BY EntryImplied DEF IInv
  <1> QED
    BY <1>1, Invariance, PTL

\* Disabling an account or revoking the device (SetUserDisabled, RevokeDevice)
\* stops its personal access tokens.
THEOREM TokensStop == Spec => []TokensStopWithAccount
  <1>1. IInv => TokensStopWithAccount
    BY TokenImplied DEF IInv
  <1> QED
    BY <1>1, Invariance, PTL

\* No step leaves the server without an enabled administrator, unless the
\* directory demoted him or a request acted on what was no longer so.
THEOREM AdministratorStays == Spec => AdministratorRemains
  <1>1. IInv /\ [Next]_vars =>
          [Admins # {} => Admins' # {} \/ cause' \cap {"overtaken", "demoted"} # {}]_vars
    BY AdministratorStep DEF IInv
  <1> QED
    BY <1>1, Invariance, PTL DEF Spec, AdministratorRemains

\* The gateway's list (handleRevokedTokens) loses a token only when its row is
\* gone: enabling an account again revives none of its tokens.
THEOREM RejectionStays == Spec => RejectionIsFinal
  <1>1. IInv /\ [Next]_vars => [\A t \in gateway \ gateway' : pats[t] = Gone]_vars
    BY RejectionStep DEF IInv
  <1> QED
    BY <1>1, Invariance, PTL DEF Spec, RejectionIsFinal

=============================================================================
