------------------------ MODULE AuthorizeFlowProofs ------------------------
(***************************************************************************)
(* Theorems about AuthorizeFlow, for every set of browsers, users, clients,*)
(* parked requests and concurrent handlers.                                *)
(***************************************************************************)
EXTENDS AuthorizeFlow, TLAPS

-----------------------------------------------------------------------------
(* The inductive invariant.                                                *)

Request == [browser : Browsers \cup {NoParams.browser}, id : ReqIds \cup {NoReq},
            client : Clients \cup {NoClient}, uri : Uris \cup {NoUri},
            ask : Asks \cup {NoAsk}, after : 0..MaxLogins, prompt : Prompts,
            user : Users \cup {NoUser}, login : 0..MaxLogins,
            then : PCs \cup {"on", "off"}]

Typed ==
    /\ TypeOK
    /\ req \in [Handlers -> Request]
    /\ spent \subseteq ReqIds
    /\ late \in [Handlers -> BOOLEAN] /\ fit \in [Handlers -> BOOLEAN]

\* The handler belongs to a browser (the others are the administrator's).
Browsing(h) == pc[h] \notin {"idle", "endSessions", "update"}

\* The handler names a row of auth_requests, which it may or may not have read.
Resuming(h) ==
    \/ pc[h] \in {"row", "client", "password", "resume", "allow", "deny", "drop", "dropDenied"}
    \/ pc[h] = "session" /\ req[h].then # "idle"

\* The handler knows the request it works for, and has found its client good.
Validated(h) ==
    \/ pc[h] \in {"authorize", "park", "password", "resume", "allow", "deny", "drop",
                  "dropDenied", "issue"}
    \/ pc[h] = "session" /\ req[h].then = "resume"

\* The handler carries the user and the time of a sign-in.
SignedOn(h) ==
    \/ pc[h] \in {"resume", "drop", "issue"}
    \/ pc[h] \in {"row", "client"} /\ req[h].then = "resume"

\* What each handler in flight can rely on.
HandlerTrue(h) ==
    /\ Browsing(h) => req[h].browser \in Browsers
    /\ Resuming(h) => req[h].id \in ReqIds
    /\ pc[h] = "session" => req[h].then \in {"idle", "row", "resume"} /\ req[h].user \in Users
    /\ pc[h] = "password" => req[h].user \in Users
    /\ pc[h] \in {"row", "client"} => req[h].then \in {"resume", "password", "allow", "deny"}
    /\ pc[h] \in {"row", "client"} /\ req[h].then = "password" => req[h].user \in Users
    /\ Validated(h) \/ pc[h] = "client" =>
          req[h].client \in Clients /\ req[h].uri \in Uris /\ req[h].ask \in Asks
    /\ (Validated(h) \/ pc[h] = "client") /\ req[h].id \in ReqIds =>
          parked[req[h].id] # "new"
    /\ pc[h] = "update" => req[h].client \in Clients
    /\ SignedOn(h) => <<req[h].browser, req[h].user, req[h].login>> \in signIns
    /\ pc[h] \in {"drop", "issue"} =>
          req[h].client \in Trusted \/ <<req[h].user, req[h].id>> \in consents

\* The history of each handler: it is late only for a row that is spent, and a
\* handler that has read its row found it unspent.
HistoryTrue(h) ==
    /\ late[h] => req[h].id \in spent
    /\ Validated(h) \/ pc[h] = "client" => ~late[h]
    /\ Validated(h) => fit[h]

SessionsTrue ==
    \A b \in Browsers : session[b] # NoSession =>
        <<b, session[b].user, session[b].login>> \in signIns

SignInsTyped == signIns \subseteq Browsers \X Users \X (1..MaxLogins)

SpentIsGone == \A i \in spent : parked[i] = "gone"

IInv ==
    /\ Typed
    /\ SignInsTyped
    /\ SessionsTrue
    /\ SpentIsGone
    /\ \A h \in Handlers : HandlerTrue(h) /\ HistoryTrue(h)
    /\ CodeNeedsConsent
    /\ CodeNamesASignIn

-----------------------------------------------------------------------------
(* Lemmas.                                                                 *)

LEMMA NoParamsTyped == NoParams \in Request /\ NoParams.id = NoReq /\ NoParams.then = "idle"
                       /\ NoParams.client = NoClient
  BY LoginsAssumption DEF NoParams, Request, Prompts, PCs

\* The initial state satisfies the inductive invariant.
LEMMA InitIInv == Init => IInv
  <1> SUFFICES ASSUME Init PROVE IInv
    OBVIOUS
  <1> USE DEF Init
  <1>1. Typed
    BY NoParamsTyped, LoginsAssumption DEF Typed, TypeOK, PCs, Issued
  <1>2. SignInsTyped /\ SessionsTrue /\ SpentIsGone
    BY DEF SignInsTyped, SessionsTrue, SpentIsGone
  <1>3. \A h \in Handlers : HandlerTrue(h) /\ HistoryTrue(h)
    BY DEF HandlerTrue, HistoryTrue, Browsing, Resuming, Validated, SignedOn
  <1>4. CodeNeedsConsent /\ CodeNamesASignIn
    BY DEF CodeNeedsConsent, CodeNamesASignIn, Issued
  <1> QED
    BY <1>1, <1>2, <1>3, <1>4 DEF IInv

\* A handler begins a request.
Begins(g) ==
    \/ \E b \in Browsers :
        \/ \E c \in Clients, u \in Uris, a \in Asks, p \in Prompts : Authorize(g, b, c, u, a, p)
        \/ \E u \in Users : PasskeyLoginFinish(g, b, u)
        \/ \E i \in ReqIds :
            \/ LoginForm(g, b, i)
            \/ \E u \in Users : LoginSubmit(g, b, i, u) \/ MFASubmit(g, b, i, u)
            \/ \E answer \in {"allow", "deny"} : ConsentSubmit(g, b, i, answer)
    \/ \E u \in Users : ToggleUser(g, u)
    \/ \E c \in Edited : EditClient(g, c)

\* A handler goes on with a request.
Proceeds(g) ==
    \/ AuthorizeSession(g) \/ Password(g) \/ Issue(g) \/ LoadRow(g) \/ LoadClient(g)
    \/ Resume(g) \/ ConsentSession(g) \/ Drop(g) \/ DropFails(g)

\* Consents, sign-ins and spent rows are never forgotten.
LEMMA Grows ==
  ASSUME Step
  PROVE  consents \subseteq consents' /\ signIns \subseteq signIns' /\ spent \subseteq spent'
  <1> USE DEF history
  <1>1. ASSUME NEW h \in Handlers, Begins(h) PROVE UNCHANGED history
    BY <1>1, NoParamsTyped
    DEF Begins, Authorize, PasskeyLoginFinish, LoginForm, LoginSubmit, MFASubmit,
        ConsentSubmit, ToggleUser, EditClient, Start, Become
  <1>2. ASSUME NEW h \in Handlers, Issue(h)
        PROVE  UNCHANGED <<spent, consents>> /\ signIns \subseteq signIns'
    BY <1>2 DEF Issue
  <1>3. ASSUME NEW h \in Handlers, ConsentSession(h) \/ Drop(h)
        PROVE  UNCHANGED signIns /\ spent \subseteq spent' /\ consents \subseteq consents'
    BY <1>3 DEF ConsentSession, Drop
  <1>4. ASSUME NEW h \in Handlers,
               \/ AuthorizeSession(h) \/ Password(h) \/ LoadRow(h) \/ LoadClient(h)
               \/ Resume(h) \/ DropFails(h) \/ Abandon(h) \/ DeleteSessionsForUser(h)
               \/ \E i \in ReqIds : Park(h, i)
               \/ \E c \in Codes : IssueCode(h, c)
               \/ \E S \in SUBSET Uris : UpdateClient(h, S)
        PROVE  UNCHANGED history
    BY <1>4 DEF AuthorizeSession, Password, LoadRow, LoadClient, Resume, DropFails, Abandon,
                DeleteSessionsForUser, Park, IssueCode, UpdateClient
  <1>5. CASE \/ \E i \in ReqIds : ExpireRequest(i)
             \/ \E b \in Browsers : EndSession(b)
             \/ \E c \in Edited : ToggleClient(c)
    BY <1>5 DEF ExpireRequest, EndSession, ToggleClient
  <1> QED
    BY <1>1, <1>2, <1>3, <1>4, <1>5 DEF Step, Begins

\* A parked request is never forgotten either: no identifier is used again.
LEMMA ParkedStays ==
  ASSUME Typed, Step, NEW i \in ReqIds, parked[i] # "new" PROVE parked'[i] # "new"
  <1>t. parked \in [ReqIds -> {"new", "parked", "gone"}]
    BY DEF Typed, TypeOK
  <1>1. ASSUME NEW h \in Handlers, Begins(h) PROVE UNCHANGED rows
    BY <1>1, NoParamsTyped
    DEF Begins, Authorize, PasskeyLoginFinish, LoginForm, LoginSubmit, MFASubmit,
        ConsentSubmit, ToggleUser, EditClient, Start, Become
  <1>2. ASSUME NEW h \in Handlers,
               \/ AuthorizeSession(h) \/ Password(h) \/ Issue(h) \/ LoadRow(h) \/ LoadClient(h)
               \/ Resume(h) \/ ConsentSession(h) \/ DropFails(h) \/ Abandon(h)
               \/ DeleteSessionsForUser(h)
               \/ \E c \in Codes : IssueCode(h, c)
               \/ \E S \in SUBSET Uris : UpdateClient(h, S)
        PROVE  UNCHANGED parked
    BY <1>2 DEF AuthorizeSession, Password, Issue, LoadRow, LoadClient, Resume, ConsentSession,
                DropFails, Abandon, DeleteSessionsForUser, IssueCode, UpdateClient, rows
  <1>3. ASSUME NEW h \in Handlers, Drop(h) \/ \E j \in ReqIds : Park(h, j)
        PROVE  parked'[i] # "new"
    BY <1>t, <1>3 DEF Drop, Park
  <1>4. CASE \/ \E j \in ReqIds : ExpireRequest(j)
             \/ \E b \in Browsers : EndSession(b)
             \/ \E c \in Edited : ToggleClient(c)
    BY <1>t, <1>4 DEF ExpireRequest, EndSession, ToggleClient, rows
  <1> QED
    BY <1>1, <1>2, <1>3, <1>4 DEF Step, Begins, rows

\* A step leaves a handler alone, ends its request, or is its own.
LEMMA Moves ==
  ASSUME Typed, Step, NEW g \in Handlers
  PROVE  \/ pc'[g] = pc[g] /\ req'[g] = req[g]
         \/ pc'[g] = "idle" /\ req'[g] = NoParams
         \/ Begins(g)
         \/ Proceeds(g)
  <1> pc \in [Handlers -> PCs] /\ req \in [Handlers -> Request]
    BY DEF Typed, TypeOK
  <1> DEFINE Kept == pc'[g] = pc[g] /\ req'[g] = req[g]
             Ended == pc'[g] = "idle" /\ req'[g] = NoParams
  <1>1. ASSUME NEW h \in Handlers, Begins(h) \/ Proceeds(h), h # g PROVE Kept
    BY <1>1 DEF Begins, Proceeds, Authorize, PasskeyLoginFinish, LoginForm, LoginSubmit,
         MFASubmit, ConsentSubmit, ToggleUser, EditClient, AuthorizeSession, Password, Issue,
         LoadRow, LoadClient, Resume, ConsentSession, Drop, DropFails, Start, Goto, Become,
         Return
  <1>2. ASSUME NEW h \in Handlers,
               \/ \E i \in ReqIds : Park(h, i)
               \/ \E c \in Codes : IssueCode(h, c)
               \/ Abandon(h) \/ DeleteSessionsForUser(h)
               \/ \E S \in SUBSET Uris : UpdateClient(h, S)
        PROVE  Kept \/ Ended
    BY <1>2 DEF Park, IssueCode, Abandon, DeleteSessionsForUser, UpdateClient, Return, Become
  <1>3. CASE \/ \E i \in ReqIds : ExpireRequest(i)
             \/ \E b \in Browsers : EndSession(b)
             \/ \E c \in Edited : ToggleClient(c)
    BY <1>3 DEF ExpireRequest, EndSession, ToggleClient
  <1> QED
    BY <1>1, <1>2, <1>3 DEF Step, Begins, Proceeds
\* Every step keeps what the handlers in flight rely on.
LEMMA HandlerStep ==
  ASSUME IInv, Step, NEW g \in Handlers
  PROVE  HandlerTrue(g)'
  <1> USE DEF HandlerTrue, Browsing, Resuming, Validated, SignedOn
  <1>t. /\ pc \in [Handlers -> PCs] /\ req \in [Handlers -> Request]
        /\ session \in [Browsers -> Session \cup {NoSession}]
        /\ row \in [ReqIds -> Row \cup {NoRow}]
        /\ \A i \in ReqIds : parked[i] # "new" => row[i] \in Row
        /\ HandlerTrue(g) /\ SessionsTrue /\ logins \in 0..MaxLogins
    BY DEF IInv, Typed, TypeOK
  <1>g. /\ consents \subseteq consents' /\ signIns \subseteq signIns'
        /\ \A i \in ReqIds : parked[i] # "new" => parked'[i] # "new"
    BY Grows, ParkedStays DEF IInv
  <1>1. CASE pc'[g] = pc[g] /\ req'[g] = req[g]
    BY <1>1, <1>t, <1>g
  <1>2. CASE pc'[g] = "idle" /\ req'[g] = NoParams
    BY <1>2
  <1>3. CASE Begins(g)
    <2> USE <1>t, NoParamsTyped DEF Start, Become, Request
    <2>1. ASSUME NEW b \in Browsers, NEW c \in Clients, NEW u \in Uris, NEW a \in Asks,
                 NEW p \in Prompts, Authorize(g, b, c, u, a, p)
          PROVE  HandlerTrue(g)'
      BY <2>1, NullAssumption DEF Authorize
    <2>2. ASSUME NEW b \in Browsers, NEW u \in Users, PasskeyLoginFinish(g, b, u)
          PROVE  HandlerTrue(g)'
      BY <2>2 DEF PasskeyLoginFinish
    <2>3. ASSUME NEW b \in Browsers, NEW i \in ReqIds, LoginForm(g, b, i)
          PROVE  HandlerTrue(g)'
      BY <2>3, <1>g DEF LoginForm, SessionsTrue, Session
    <2>4. ASSUME NEW b \in Browsers, NEW i \in ReqIds, NEW u \in Users,
                 LoginSubmit(g, b, i, u) \/ MFASubmit(g, b, i, u)
          PROVE  HandlerTrue(g)'
      <3>1. CASE LoginSubmit(g, b, i, u)
        BY <3>1 DEF LoginSubmit
      <3>2. CASE MFASubmit(g, b, i, u)
        BY <3>2 DEF MFASubmit
      <3> QED
        BY <2>4, <3>1, <3>2
    <2>5. ASSUME NEW b \in Browsers, NEW i \in ReqIds, NEW answer \in {"allow", "deny"},
                 ConsentSubmit(g, b, i, answer)
          PROVE  HandlerTrue(g)'
      BY <2>5 DEF ConsentSubmit
    <2>6. ASSUME NEW u \in Users, ToggleUser(g, u) PROVE HandlerTrue(g)'
      BY <2>6 DEF ToggleUser
    <2>7. ASSUME NEW c \in Edited, EditClient(g, c) PROVE HandlerTrue(g)'
      BY <2>7, EditedAssumption DEF EditClient
    <2> HIDE DEF HandlerTrue, Start, Become
    <2> QED
      BY <1>3, <2>1, <2>2, <2>3, <2>4, <2>5, <2>6, <2>7 DEF Begins
  <1>4. CASE Proceeds(g)
    <2> USE <1>t DEF Goto, Become, Return, Request
    <2>1. CASE AuthorizeSession(g)
      <3> DEFINE s == session[req[g].browser]
      <3>1. pc[g] = "authorize" /\ req[g].browser \in Browsers
        BY <2>1 DEF AuthorizeSession
      <3>2. CASE pc'[g] = "issue"
        <4>1. /\ req'[g] = [req[g] EXCEPT !.user = s.user, !.login = s.login]
              /\ s # NoSession /\ req[g].client \in Trusted
          BY <2>1, <3>1, <3>2 DEF AuthorizeSession
        <4>2. <<req[g].browser, s.user, s.login>> \in signIns'
          BY <3>1, <4>1, <1>g DEF SessionsTrue
        <4> QED
          BY <3>1, <3>2, <4>1, <4>2, <1>g
      <3>3. CASE pc'[g] # "issue"
        <4>1. pc'[g] = "idle" \/ (pc'[g] = "park" /\ req'[g] = req[g])
          BY <2>1, <3>1, <3>3 DEF AuthorizeSession
        <4> QED
          BY <3>1, <4>1, <1>g
      <3> QED
        BY <3>2, <3>3
    <2>2. CASE Password(g)
      BY <2>2, <1>g DEF Password
    <2>3. CASE Issue(g)
      <3>1. CASE req[g].then = "idle"
        BY <2>3, <3>1 DEF Issue
      <3>2. CASE req[g].then # "idle"
        <4>1. /\ <<req[g].browser, req[g].user, logins + 1>> \in signIns'
              /\ req' = [req EXCEPT ![g] = [req[g] EXCEPT !.login = logins + 1,
                                                          !.then = "resume"]]
              /\ pc' = [pc EXCEPT ![g] = req[g].then]
              /\ pc[g] = "session"
          BY <2>3, <3>2 DEF Issue
        <4>2. req[g].then \in {"row", "resume"} /\ req[g].browser \in Browsers
              /\ req[g].id \in ReqIds /\ req[g].user \in Users
          BY <4>1, <3>2
        <4> QED
          BY <4>1, <4>2, <1>g
      <3> QED
        BY <3>1, <3>2
    <2>4. CASE LoadRow(g)
      <3> DEFINE r == row[req[g].id]
      <3>1. pc[g] = "row" /\ req[g].id \in ReqIds
        BY <2>4 DEF LoadRow
      <3>2. CASE parked[req[g].id] = "parked"
        <4>1. /\ pc'[g] = "client"
              /\ req'[g] = [req[g] EXCEPT !.client = r.client, !.uri = r.uri, !.ask = r.ask,
                                          !.after = r.after]
          BY <2>4, <3>2 DEF LoadRow
        <4>2. r.client \in Clients /\ r.uri \in Uris /\ r.ask \in Asks
          BY <3>1, <3>2 DEF Row
        <4> QED
          BY <3>1, <3>2, <4>1, <4>2, <1>g
      <3>3. CASE parked[req[g].id] # "parked"
        BY <2>4, <3>3 DEF LoadRow
      <3> QED
        BY <3>2, <3>3
    <2>5. CASE LoadClient(g)
      BY <2>5, <1>g DEF LoadClient
    <2>6. CASE Resume(g)
      BY <2>6, <1>g DEF Resume
    <2>7. CASE ConsentSession(g)
      <3> DEFINE s == session[req[g].browser]
      <3>1. pc[g] \in {"allow", "deny"} /\ req[g].browser \in Browsers
        BY <2>7 DEF ConsentSession
      <3>2. CASE s = NoSession
        BY <2>7, <3>2 DEF ConsentSession
      <3>3. CASE s # NoSession
        <4>1. /\ pc'[g] = IF pc[g] = "allow" THEN "drop" ELSE "dropDenied"
              /\ req'[g] = [req[g] EXCEPT !.user = s.user, !.login = s.login]
              /\ pc[g] = "allow" => <<s.user, req[g].id>> \in consents'
          BY <2>7, <3>3 DEF ConsentSession
        <4>2. <<req[g].browser, s.user, s.login>> \in signIns'
          BY <3>1, <3>3, <1>g DEF SessionsTrue
        <4> QED
          BY <3>1, <4>1, <4>2, <1>g
      <3> QED
        BY <3>2, <3>3
    <2>8. CASE Drop(g) \/ DropFails(g)
      BY <2>8, <1>g DEF Drop, DropFails
    <2> QED
      BY <1>4, <2>1, <2>2, <2>3, <2>4, <2>5, <2>6, <2>7, <2>8 DEF Proceeds
  <1> QED
    BY <1>1, <1>2, <1>3, <1>4, Moves DEF IInv

\* Every step keeps the histories late and fit true.
LEMMA HistoryStep ==
  ASSUME IInv, Step, Remember, NEW g \in Handlers
  PROVE  HistoryTrue(g)'
  <1> USE DEF Validated, Resuming
  <1>t. /\ pc \in [Handlers -> PCs] /\ req \in [Handlers -> Request]
        /\ HandlerTrue(g) /\ HistoryTrue(g) /\ SpentIsGone
        /\ spent \subseteq ReqIds /\ NoReq \notin spent
    BY NullAssumption DEF IInv, Typed, TypeOK
  <1>l. late'[g] = (pc'[g] # "idle" /\ IF pc[g] = "idle" THEN req'[g].id \in spent ELSE late[g])
    BY DEF Remember
  <1>f. fit'[g] = (/\ pc'[g] # "idle"
                   /\ \/ pc[g] # "idle" /\ fit[g]
                      \/ /\ req'[g].client # NoClient
                         /\ Registered(req[g].client, req[g].uri)')
    BY DEF Remember
  <1>g. spent \subseteq spent'
    BY Grows
  <1> USE <1>t
  <1>1. CASE pc'[g] = pc[g] /\ req'[g] = req[g]
    BY <1>1, <1>l, <1>f, <1>g DEF HistoryTrue
  <1>2. CASE pc'[g] = "idle" /\ req'[g] = NoParams
    BY <1>2, <1>l, <1>f DEF HistoryTrue
  <1>3. CASE Begins(g)
    <2> USE NoParamsTyped DEF Start, Become, Request
    <2>0. pc[g] = "idle"
      BY <1>3 DEF Begins, Authorize, PasskeyLoginFinish, LoginForm, LoginSubmit, MFASubmit,
                  ConsentSubmit, ToggleUser, EditClient
    <2>1. ASSUME NEW b \in Browsers, NEW c \in Clients, NEW u \in Uris, NEW a \in Asks,
                 NEW p \in Prompts, Authorize(g, b, c, u, a, p)
          PROVE  HistoryTrue(g)'
      <3>1. /\ pc'[g] = "authorize" /\ req'[g].id = NoReq
            /\ req'[g].client = c /\ req'[g].uri = u
        BY <2>1 DEF Authorize
      <3>2. Registered(req[g].client, req[g].uri)'
        BY <2>1, <3>1 DEF Authorize, Registered, admin
      <3> QED
        BY <2>0, <3>1, <3>2, <1>l, <1>f, NullAssumption DEF HistoryTrue
    <2>2. CASE ~Validated(g)' /\ pc'[g] # "client"
      BY <2>0, <2>2, <1>l, <1>g DEF HistoryTrue
    <2>3. ASSUME NEW b \in Browsers, NEW u \in Users, PasskeyLoginFinish(g, b, u)
          PROVE  ~Validated(g)' /\ pc'[g] # "client"
      BY <2>3 DEF PasskeyLoginFinish
    <2>4. ASSUME NEW b \in Browsers, NEW i \in ReqIds, NEW u \in Users,
                 LoginSubmit(g, b, i, u)
          PROVE  ~Validated(g)' /\ pc'[g] # "client"
      BY <2>4 DEF LoginSubmit
    <2>5. ASSUME NEW b \in Browsers, NEW i \in ReqIds, LoginForm(g, b, i)
          PROVE  ~Validated(g)' /\ pc'[g] # "client"
      BY <2>5 DEF LoginForm
    <2>6. ASSUME NEW b \in Browsers, NEW i \in ReqIds, NEW u \in Users, MFASubmit(g, b, i, u)
          PROVE  ~Validated(g)' /\ pc'[g] # "client"
      BY <2>6 DEF MFASubmit
    <2>7. ASSUME NEW b \in Browsers, NEW i \in ReqIds, NEW answer \in {"allow", "deny"},
                 ConsentSubmit(g, b, i, answer)
          PROVE  ~Validated(g)' /\ pc'[g] # "client"
      BY <2>7 DEF ConsentSubmit
    <2>8. ASSUME NEW u \in Users, ToggleUser(g, u) PROVE ~Validated(g)' /\ pc'[g] # "client"
      BY <2>8 DEF ToggleUser
    <2>9. ASSUME NEW c \in Edited, EditClient(g, c) PROVE ~Validated(g)' /\ pc'[g] # "client"
      BY <2>9 DEF EditClient
    <2> HIDE DEF Validated, Start, Become
    <2> QED
      BY <1>3, <2>1, <2>2, <2>3, <2>4, <2>5, <2>6, <2>7, <2>8, <2>9 DEF Begins
  <1>4. CASE Proceeds(g)
    <2> USE DEF Goto, Become, Return, Request
    <2>1. CASE pc'[g] = "idle"
      BY <2>1, <1>l, <1>f DEF HistoryTrue
    <2>2. CASE LoadRow(g) /\ pc'[g] # "idle"
      <3>1. /\ pc[g] = "row" /\ parked[req[g].id] = "parked" /\ pc'[g] = "client"
            /\ req'[g].id = req[g].id
        BY <2>2 DEF LoadRow
      <3>2. ~late[g]
        BY <3>1 DEF HistoryTrue, SpentIsGone
      <3> QED
        BY <3>1, <3>2, <1>l DEF HistoryTrue
    <2>3. CASE LoadClient(g) /\ pc'[g] # "idle"
      <3>1. /\ pc[g] = "client" /\ pc'[g] = req[g].then /\ req'[g] = req[g]
            /\ Registered(req[g].client, req[g].uri)'
        BY <2>3 DEF LoadClient, Registered, admin
      <3>2. req[g].client # NoClient /\ req[g].then \in {"resume", "password", "allow", "deny"}
        BY <3>1, NullAssumption DEF HandlerTrue
      <3> QED
        BY <3>1, <3>2, <1>l, <1>f, <1>g DEF HistoryTrue
    <2>4. CASE /\ AuthorizeSession(g) \/ Password(g) \/ Resume(g) \/ ConsentSession(g)
                  \/ Drop(g) \/ DropFails(g)
               /\ pc'[g] # "idle"
      <3>1. Validated(g) /\ req'[g].id = req[g].id
        BY <2>4 DEF AuthorizeSession, Password, Resume, ConsentSession, Drop, DropFails
      <3>2. pc[g] # "idle" /\ fit[g] /\ ~late[g]
        BY <3>1 DEF HistoryTrue
      <3> QED
        BY <2>4, <3>1, <3>2, <1>l, <1>f, <1>g DEF HistoryTrue
    <2>5. CASE Issue(g) /\ pc'[g] # "idle"
      <3>1. /\ pc[g] = "session" /\ req'[g].id = req[g].id /\ pc'[g] = req[g].then
        BY <2>5 DEF Issue
      <3> QED
        BY <3>1, <1>l, <1>f, <1>g DEF HistoryTrue, HandlerTrue
    <2> QED
      BY <1>4, <2>1, <2>2, <2>3, <2>4, <2>5 DEF Proceeds
  <1> QED
    BY <1>1, <1>2, <1>3, <1>4, Moves DEF IInv
\* Every step keeps the types of the handlers' own variables.
LEMMA ParamsStep ==
  ASSUME IInv, Step
  PROVE  pc' \in [Handlers -> PCs] /\ req' \in [Handlers -> Request]
  <1>t. /\ pc \in [Handlers -> PCs] /\ req \in [Handlers -> Request]
        /\ session \in [Browsers -> Session \cup {NoSession}]
        /\ row \in [ReqIds -> Row \cup {NoRow}]
        /\ \A i \in ReqIds : parked[i] # "new" => row[i] \in Row
        /\ logins \in 0..MaxLogins
    BY DEF IInv, Typed, TypeOK
  <1>h. \A h \in Handlers : HandlerTrue(h)
    BY DEF IInv
  <1>1. ASSUME NEW h \in Handlers, NEW l \in PCs, NEW q \in Request, Become(h, l, q)
        PROVE  pc' \in [Handlers -> PCs] /\ req' \in [Handlers -> Request]
    BY <1>1, <1>t DEF Become
  <1>2. ASSUME NEW h \in Handlers, Begins(h)
        PROVE  \E l \in PCs, q \in Request : Become(h, l, q)
    <2> USE <1>t, NoParamsTyped DEF Start, PCs
    <2>1. ASSUME NEW b \in Browsers, NEW c \in Clients, NEW u \in Uris, NEW a \in Asks,
                 NEW p \in Prompts, Authorize(h, b, c, u, a, p)
          PROVE  \E l \in PCs, q \in Request : Become(h, l, q)
      <3>1. [NoParams EXCEPT !.browser = b, !.client = c, !.uri = u, !.ask = a,
                             !.prompt = p] \in Request
        BY DEF Request
      <3> QED
        BY <2>1, <3>1 DEF Authorize
    <2>2. ASSUME NEW b \in Browsers, NEW u \in Users, PasskeyLoginFinish(h, b, u)
          PROVE  \E l \in PCs, q \in Request : Become(h, l, q)
      <3>1. [NoParams EXCEPT !.browser = b, !.user = u] \in Request
        BY DEF Request
      <3> QED
        BY <2>2, <3>1 DEF PasskeyLoginFinish
    <2>3. ASSUME NEW b \in Browsers, NEW i \in ReqIds, LoginForm(h, b, i)
          PROVE  \E l \in PCs, q \in Request : Become(h, l, q)
      <3>1. session[b].user \in Users /\ session[b].login \in 0..MaxLogins
        BY <2>3, LoginsAssumption DEF LoginForm, Session
      <3>2. [NoParams EXCEPT !.browser = b, !.id = i, !.then = "resume",
               !.user = session[b].user, !.login = session[b].login] \in Request
        BY <3>1 DEF Request
      <3> QED
        BY <2>3, <3>2 DEF LoginForm
    <2>4. ASSUME NEW b \in Browsers, NEW i \in ReqIds, NEW u \in Users,
                 LoginSubmit(h, b, i, u)
          PROVE  \E l \in PCs, q \in Request : Become(h, l, q)
      <3>1. [NoParams EXCEPT !.browser = b, !.id = i, !.then = "password",
               !.user = u] \in Request
        BY DEF Request
      <3> QED
        BY <2>4, <3>1 DEF LoginSubmit
    <2>5. ASSUME NEW b \in Browsers, NEW i \in ReqIds, NEW u \in Users, MFASubmit(h, b, i, u)
          PROVE  \E l \in PCs, q \in Request : Become(h, l, q)
      <3>1. [NoParams EXCEPT !.browser = b, !.id = i, !.then = "row", !.user = u] \in Request
        BY DEF Request
      <3> QED
        BY <2>5, <3>1 DEF MFASubmit
    <2>6. ASSUME NEW b \in Browsers, NEW i \in ReqIds, NEW answer \in {"allow", "deny"},
                 ConsentSubmit(h, b, i, answer)
          PROVE  \E l \in PCs, q \in Request : Become(h, l, q)
      <3>1. [NoParams EXCEPT !.browser = b, !.id = i, !.then = answer] \in Request
        BY DEF Request
      <3> QED
        BY <2>6, <3>1 DEF ConsentSubmit
    <2>7. ASSUME NEW u \in Users, ToggleUser(h, u)
          PROVE  \E l \in PCs, q \in Request : Become(h, l, q)
      <3>1. [NoParams EXCEPT !.user = u] \in Request
        BY DEF Request
      <3> QED
        BY <2>7, <3>1 DEF ToggleUser
    <2>8. ASSUME NEW c \in Edited, EditClient(h, c)
          PROVE  \E l \in PCs, q \in Request : Become(h, l, q)
      <3>1. \A x \in {"off", "on"} : [NoParams EXCEPT !.client = c, !.then = x] \in Request
        BY EditedAssumption DEF Request
      <3> QED
        BY <2>8, <3>1 DEF EditClient
    <2> HIDE DEF Start, PCs
    <2> QED
      BY <1>2, <2>1, <2>2, <2>3, <2>4, <2>5, <2>6, <2>7, <2>8 DEF Begins
  <1>3. ASSUME NEW h \in Handlers, Proceeds(h)
        PROVE  pc' \in [Handlers -> PCs] /\ req' \in [Handlers -> Request]
    <2> USE <1>t, <1>h, NoParamsTyped DEF Goto, Become, Return
    <2>1. CASE AuthorizeSession(h)
      <3> DEFINE s == session[req[h].browser]
      <3>1. req[h].browser \in Browsers
        BY <2>1 DEF AuthorizeSession, HandlerTrue, Browsing
      <3>2. s # NoSession => s.user \in Users /\ s.login \in 0..MaxLogins
        BY <3>1, LoginsAssumption DEF Session
      <3>3. s # NoSession => [req[h] EXCEPT !.user = s.user, !.login = s.login] \in Request
        BY <3>2 DEF Request
      <3> QED
        BY <2>1, <3>3 DEF AuthorizeSession, PCs
    <2>2. CASE Password(h)
      <3>1. [req[h] EXCEPT !.then = "resume"] \in Request
        BY DEF Request, PCs
      <3> QED
        BY <2>2, <3>1 DEF Password, PCs
    <2>3. CASE Issue(h)
      <3>1. logins + 1 \in 0..MaxLogins
        BY <2>3, LoginsAssumption DEF Issue
      <3>2. [req[h] EXCEPT !.login = logins + 1, !.then = "resume"] \in Request
        BY <3>1 DEF Request, PCs
      <3> QED
        BY <2>3, <3>2 DEF Issue, PCs, HandlerTrue
    <2>4. CASE LoadRow(h)
      <3> DEFINE r == row[req[h].id]
      <3>1. parked[req[h].id] = "parked" =>
               /\ r.client \in Clients /\ r.uri \in Uris /\ r.ask \in Asks
               /\ r.after \in 0..MaxLogins
        BY <2>4 DEF LoadRow, HandlerTrue, Resuming, Row
      <3>2. parked[req[h].id] = "parked" =>
               [req[h] EXCEPT !.client = r.client, !.uri = r.uri, !.ask = r.ask,
                              !.after = r.after] \in Request
        BY <3>1 DEF Request
      <3> QED
        BY <2>4, <3>2 DEF LoadRow, PCs
    <2>5. CASE LoadClient(h) \/ Resume(h) \/ Drop(h) \/ DropFails(h)
      BY <2>5 DEF LoadClient, Resume, Drop, DropFails, PCs, HandlerTrue
    <2>6. CASE ConsentSession(h)
      <3> DEFINE s == session[req[h].browser]
      <3>1. req[h].browser \in Browsers
        BY <2>6 DEF ConsentSession, HandlerTrue, Browsing
      <3>2. s # NoSession => s.user \in Users /\ s.login \in 0..MaxLogins
        BY <3>1, LoginsAssumption DEF Session
      <3>3. s # NoSession => [req[h] EXCEPT !.user = s.user, !.login = s.login] \in Request
        BY <3>2 DEF Request
      <3> QED
        BY <2>6, <3>3 DEF ConsentSession, PCs
    <2> QED
      BY <1>3, <2>1, <2>2, <2>3, <2>4, <2>5, <2>6 DEF Proceeds
  <1>4. ASSUME NEW h \in Handlers,
               \/ \E i \in ReqIds : Park(h, i)
               \/ \E c \in Codes : IssueCode(h, c)
               \/ Abandon(h) \/ DeleteSessionsForUser(h)
               \/ \E S \in SUBSET Uris : UpdateClient(h, S)
        PROVE  pc' \in [Handlers -> PCs] /\ req' \in [Handlers -> Request]
    <2>1. Return(h)
      BY <1>4 DEF Park, IssueCode, Abandon, DeleteSessionsForUser, UpdateClient
    <2> QED
      BY <2>1, <1>1, NoParamsTyped DEF Return, PCs
  <1>5. CASE \/ \E i \in ReqIds : ExpireRequest(i)
             \/ \E b \in Browsers : EndSession(b)
             \/ \E c \in Edited : ToggleClient(c)
    BY <1>5, <1>t DEF ExpireRequest, EndSession, ToggleClient
  <1> QED
    BY <1>1, <1>2, <1>3, <1>4, <1>5 DEF Step, Begins, Proceeds
\* Every step keeps the types of the store, and its histories.
LEMMA StoreStep ==
  ASSUME IInv, Step
  PROVE  /\ TypeOK' /\ spent' \subseteq ReqIds
         /\ SignInsTyped' /\ SessionsTrue' /\ SpentIsGone'
         /\ CodeNeedsConsent' /\ CodeNamesASignIn'
  <1> DEFINE Goal == /\ TypeOK' /\ spent' \subseteq ReqIds
                     /\ SignInsTyped' /\ SessionsTrue' /\ SpentIsGone'
                     /\ CodeNeedsConsent' /\ CodeNamesASignIn'
  <1>t. /\ TypeOK /\ req \in [Handlers -> Request] /\ spent \subseteq ReqIds
        /\ SignInsTyped /\ SessionsTrue /\ SpentIsGone
        /\ CodeNeedsConsent /\ CodeNamesASignIn
    BY DEF IInv, Typed
  <1>h. \A h \in Handlers : HandlerTrue(h)
    BY DEF IInv
  <1>g. consents \subseteq consents' /\ signIns \subseteq signIns'
    BY Grows
  <1>p. pc' \in [Handlers -> PCs]
    BY ParamsStep
  <1>s. ASSUME NEW h \in Handlers, pc[h] = "session"
        PROVE  req[h].browser \in Browsers /\ req[h].user \in Users
    BY <1>h, <1>s DEF HandlerTrue, Browsing
  <1>d. ASSUME NEW h \in Handlers, pc[h] \in {"drop", "dropDenied"}
        PROVE  req[h].id \in ReqIds /\ row[req[h].id] \in Row
    BY <1>h, <1>t, <1>d DEF HandlerTrue, Resuming, Validated, TypeOK
  <1>k. ASSUME NEW h \in Handlers, pc[h] = "park"
        PROVE  req[h].client \in Clients /\ req[h].uri \in Uris /\ req[h].ask \in Asks
    BY <1>h, <1>k DEF HandlerTrue, Validated
  <1> USE <1>t, <1>p DEF TypeOK, SignInsTyped, SessionsTrue, SpentIsGone, CodeNeedsConsent,
                         CodeNamesASignIn, Issued
  <1>1. CASE UNCHANGED <<admin, session, logins, rows, history>>
    BY <1>1 DEF admin, rows, history
  <1>2. ASSUME NEW h \in Handlers, Begins(h) PROVE Goal
    <2>1. CASE UNCHANGED <<admin, session, logins, rows, history>>
      BY <2>1, <1>1
    <2>2. ASSUME NEW u \in Users, ToggleUser(h, u) PROVE Goal
      <3>1. /\ UNCHANGED <<allowed, disabledClients, session, logins, rows, history>>
            /\ disabledUsers' = disabledUsers \cup {u}
        BY <2>2 DEF ToggleUser
      <3> QED
        BY <3>1 DEF rows, history
    <2>3. \/ UNCHANGED <<admin, session, logins, rows, history>>
          \/ \E u \in Users : ToggleUser(h, u)
      BY <1>2, NoParamsTyped
      DEF Begins, Authorize, PasskeyLoginFinish, LoginForm, LoginSubmit, MFASubmit,
          ConsentSubmit, EditClient, Start, Become
    <2> QED
      BY <2>1, <2>2, <2>3
  <1>3. ASSUME NEW h \in Handlers, Issue(h) PROVE Goal
    <2>1. req[h].browser \in Browsers /\ req[h].user \in Users /\ logins + 1 \in 1..MaxLogins
      BY <1>3, <1>s, LoginsAssumption DEF Issue
    <2>2. /\ session' = [session EXCEPT ![req[h].browser] =
                            [user |-> req[h].user, login |-> logins + 1]]
          /\ logins' = logins + 1
          /\ signIns' = signIns \cup {<<req[h].browser, req[h].user, logins + 1>>}
          /\ UNCHANGED <<allowed, disabledClients, disabledUsers, parked, row, code, spent,
                         consents>>
      BY <1>3 DEF Issue, admin, rows
    <2> QED
      BY <2>1, <2>2, LoginsAssumption DEF Session
  <1>4. ASSUME NEW h \in Handlers, ConsentSession(h) PROVE Goal
    BY <1>4, <1>g DEF ConsentSession, admin, rows
  <1>5. ASSUME NEW h \in Handlers, Drop(h) PROVE Goal
    <2>1. req[h].id \in ReqIds /\ row[req[h].id] \in Row
      BY <1>5, <1>d DEF Drop
    <2> QED
      BY <1>5, <2>1 DEF Drop, admin
  <1>6. ASSUME NEW h \in Handlers, NEW i \in ReqIds, Park(h, i) PROVE Goal
    <2> DEFINE r == [client |-> req[h].client, uri |-> req[h].uri, ask |-> req[h].ask,
                     after |-> IF req[h].prompt = "login" THEN logins ELSE 0]
    <2>1. r \in Row
      BY <1>6, <1>k, LoginsAssumption DEF Park, Row
    <2>2. /\ parked' = [parked EXCEPT ![i] = "parked"] /\ row' = [row EXCEPT ![i] = r]
          /\ parked[i] = "new"
          /\ UNCHANGED <<admin, session, logins, code, history>>
      BY <1>6 DEF Park
    <2> HIDE DEF r
    <2> QED
      BY <2>1, <2>2 DEF admin, history
  <1>7. ASSUME NEW h \in Handlers, NEW c \in Codes, IssueCode(h, c) PROVE Goal
    <2> DEFINE k == [client |-> req[h].client, uri |-> req[h].uri, ask |-> req[h].ask,
                     after |-> req[h].after, user |-> req[h].user, login |-> req[h].login,
                     from |-> req[h].id, browser |-> req[h].browser]
    <2>1. /\ req[h] \in Request /\ req[h].client \in Clients /\ req[h].uri \in Uris
          /\ req[h].ask \in Asks
          /\ <<req[h].browser, req[h].user, req[h].login>> \in signIns
          /\ req[h].client \in Trusted \/ <<req[h].user, req[h].id>> \in consents
      BY <1>7, <1>h DEF IssueCode, HandlerTrue, Validated, SignedOn
    <2>2. k \in Code
      BY <2>1 DEF Code, Request
    <2>3. /\ code' = [x \in DOMAIN code \cup {c} |-> IF x = c THEN k ELSE code[x]]
          /\ UNCHANGED <<admin, session, logins, parked, row, history>>
      BY <1>7 DEF IssueCode
    <2>4. /\ k.client \in Trusted \/ <<k.user, k.from>> \in consents
          /\ <<k.browser, k.user, k.login>> \in signIns
      BY <2>1
    <2> HIDE DEF k
    <2> QED
      BY <2>2, <2>3, <2>4 DEF admin, history
  <1>8. ASSUME NEW h \in Handlers, DeleteSessionsForUser(h) PROVE Goal
    BY <1>8 DEF DeleteSessionsForUser, admin, rows, history
  <1>9. ASSUME NEW h \in Handlers, NEW S \in SUBSET Uris, UpdateClient(h, S) PROVE Goal
    <2>1. req[h].client \in Clients
      BY <1>9, <1>h DEF UpdateClient, HandlerTrue
    <2> QED
      BY <1>9, <2>1 DEF UpdateClient, rows, history
  <1>10. ASSUME NEW i \in ReqIds, ExpireRequest(i) PROVE Goal
    BY <1>10 DEF ExpireRequest, admin, history
  <1>11. ASSUME NEW b \in Browsers, EndSession(b) PROVE Goal
    BY <1>11 DEF EndSession, admin, rows, history
  <1>12. ASSUME NEW c \in Edited, ToggleClient(c) PROVE Goal
    BY <1>12, EditedAssumption DEF ToggleClient, rows, history
  <1>13. ASSUME NEW h \in Handlers,
                \/ AuthorizeSession(h) \/ Password(h) \/ LoadRow(h) \/ LoadClient(h)
                \/ Resume(h) \/ DropFails(h) \/ Abandon(h)
         PROVE  Goal
    <2>1. UNCHANGED <<admin, session, logins, rows, history>>
      BY <1>13 DEF AuthorizeSession, Password, LoadRow, LoadClient, Resume, DropFails, Abandon
    <2> QED
      BY <2>1, <1>1
  <1> HIDE DEF TypeOK, SignInsTyped, SessionsTrue, SpentIsGone, CodeNeedsConsent,
               CodeNamesASignIn, Issued
  <1> QED
    BY <1>2, <1>3, <1>4, <1>5, <1>6, <1>7, <1>8, <1>9, <1>10, <1>11, <1>12, <1>13
    DEF Step, Begins

\* The inductive invariant holds throughout.
THEOREM Invariance == Spec => []IInv
  <1>1. IInv /\ [Next]_vars => IInv'
    <2>1. ASSUME IInv, Next PROVE IInv'
      <3>1. Step /\ Remember
        BY <2>1 DEF Next
      <3>2. \A h \in Handlers : HandlerTrue(h)' /\ HistoryTrue(h)'
        BY <2>1, <3>1, HandlerStep, HistoryStep
      <3>3. late' \in [Handlers -> BOOLEAN] /\ fit' \in [Handlers -> BOOLEAN]
        BY <3>1 DEF Remember
      <3>4. req' \in [Handlers -> Request]
        BY <2>1, <3>1, ParamsStep
      <3> QED
        BY <2>1, <3>1, <3>2, <3>3, <3>4, StoreStep DEF IInv, Typed
    <2>2. ASSUME IInv, UNCHANGED vars PROVE IInv'
      BY <2>2
      DEF vars, IInv, Typed, TypeOK, SignInsTyped, SessionsTrue, SpentIsGone, HandlerTrue,
          HistoryTrue, Browsing, Resuming, Validated, SignedOn, CodeNeedsConsent,
          CodeNamesASignIn, Issued
    <2> QED
      BY <2>1, <2>2
  <1> QED
    BY <1>1, InitIInv, PTL DEF Spec

\* Every variable keeps its type; in particular a code is only ever issued with
\* all its columns set.
THEOREM TypeCorrect == Spec => []TypeOK
  <1>1. IInv => TypeOK
    BY DEF IInv, Typed
  <1> QED
    BY <1>1, Invariance, PTL

\* A code for a client that needs consent rests on that user's consent to that
\* very request.
THEOREM ConsentNeeded == Spec => []CodeNeedsConsent
  <1>1. IInv => CodeNeedsConsent
    BY DEF IInv
  <1> QED
    BY <1>1, Invariance, PTL

\* A code names a user who signed in, in that browser, at the recorded time.
THEOREM SignInNamed == Spec => []CodeNamesASignIn
  <1>1. IInv => CodeNamesASignIn
    BY DEF IInv
  <1> QED
    BY <1>1, Invariance, PTL

\* No code for an address that was never registered while the handler ran, nor
\* for a request that was spent before the handler began.
THEOREM NoneLateOrStray == Spec => []NoLateOrStrayCode
  <1>1. IInv => NoLateOrStrayCode
    BY DEF IInv, NoLateOrStrayCode, HistoryTrue, Validated
  <1> QED
    BY <1>1, Invariance, PTL
=============================================================================
