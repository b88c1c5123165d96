--------------------------- MODULE AuthorizeFlow ---------------------------
(***************************************************************************)
(* From /oauth2/authorize to an authorization code.  A request that cannot *)
(* be answered at once is parked as a row of auth_requests while the       *)
(* browser signs in and consents; the login, second-factor and consent     *)
(* handlers load the row again, delete it and issue the code.              *)
(*                                                                         *)
(* Handlers run concurrently (two tabs, a double click, the administrator) *)
(* and every store call is a step of its own.  Scope, state, nonce and     *)
(* code challenge travel together and are one opaque value, the "ask".     *)
(***************************************************************************)
EXTENDS Naturals

CONSTANTS
    Browsers, Users, Clients,
    Trusted,            \* clients with SkipConsent
    Uris,               \* return addresses
    Asks,               \* the other parameters of a request
    ReqIds,             \* rows of auth_requests
    Codes,              \* rows of authorization_codes
    Handlers,           \* slots for HTTP requests in flight
    MaxLogins,          \* bound: sign-ins
    Edited,             \* bound: clients the administrator edits
    NoUser, NoClient, NoUri, NoAsk, NoReq, NoSession

ASSUME TrustedAssumption == Trusted \subseteq Clients
ASSUME EditedAssumption == Edited \subseteq Clients
ASSUME LoginsAssumption == MaxLogins \in Nat
ASSUME NullAssumption == NoClient \notin Clients /\ NoReq \notin ReqIds

VARIABLES
    allowed,            \* the return addresses a client has registered now
    disabledClients, disabledUsers,
    session,            \* the session each browser's cookie names
    logins,             \* sign-ins so far: the clock of auth_time
    parked,             \* "new", "parked" or "gone" for each row
    row,                \* the columns of each row
    code,               \* the codes issued and their columns
    pc, req,            \* the handlers in flight
    spent,              \* history: rows a handler has deleted
    late,               \* history: handlers that began on a spent row
    fit,                \* history: handlers during which client and address were good
    consents,           \* history: who agreed to which request
    signIns             \* history: who signed in where, and when

admin == <<allowed, disabledClients, disabledUsers>>
rows == <<parked, row, code>>
history == <<spent, consents, signIns>>
vars == <<allowed, disabledClients, disabledUsers, session, logins, parked, row,
          code, pc, req, spent, late, fit, consents, signIns>>

Session == [user : Users, login : 1..MaxLogins]
Row == [client : Clients, uri : Uris, ask : Asks, after : 0..MaxLogins]
NoRow == [client |-> NoClient, uri |-> NoUri, ask |-> NoAsk, after |-> 0]

Code == [client : Clients, uri : Uris, ask : Asks, after : 0..MaxLogins,
         user : Users, login : 1..MaxLogins, from : ReqIds \cup {NoReq},
         browser : Browsers]
Issued == DOMAIN code

\* prompt "login" stands for prompt=login and for an exceeded max_age.
Prompts == {"", "login", "none"}

PCs == {"idle", "authorize", "park", "row", "client", "password", "session",
        "resume", "allow", "deny", "drop", "dropDenied", "issue", "endSessions",
        "update"}

NoParams == [browser |-> CHOOSE b \in Browsers : TRUE, id |-> NoReq,
             client |-> NoClient, uri |-> NoUri, ask |-> NoAsk, after |-> 0,
             prompt |-> "", user |-> NoUser, login |-> 0, then |-> "idle"]

Init ==
    /\ allowed = [c \in Clients |-> Uris]
    /\ disabledClients = {}
    /\ disabledUsers = {}
    /\ session = [b \in Browsers |-> NoSession]
    /\ logins = 0
    /\ parked = [i \in ReqIds |-> "new"]
    /\ row = [i \in ReqIds |-> NoRow]
    /\ code = [c \in {} |-> NoRow]
    /\ pc = [h \in Handlers |-> "idle"]
    /\ req = [h \in Handlers |-> NoParams]
    /\ spent = {}
    /\ late = [h \in Handlers |-> FALSE]
    /\ fit = [h \in Handlers |-> FALSE]
    /\ consents = {}
    /\ signIns = {}

Goto(h, l) == pc' = [pc EXCEPT ![h] = l] /\ UNCHANGED req
Become(h, l, q) == pc' = [pc EXCEPT ![h] = l] /\ req' = [req EXCEPT ![h] = q]
Return(h) == Become(h, "idle", NoParams)
Start(h, l, q) == pc[h] = "idle" /\ Become(h, l, q)

Registered(c, u) == c \notin disabledClients /\ u \in allowed[c]

-----------------------------------------------------------------------------
(* /oauth2/authorize                                                       *)

\* validateAuthorize.
Authorize(h, b, c, u, a, p) ==
    /\ Registered(c, u)
    /\ Start(h, "authorize", [NoParams EXCEPT !.browser = b, !.client = c, !.uri = u,
                                              !.ask = a, !.prompt = p])
    /\ UNCHANGED <<admin, session, logins, rows, history>>

\* The session decides: park the request, issue a code, or (prompt=none) answer
\* with an error.
AuthorizeSession(h) ==
    LET q == req[h]
        authed == session[q.browser] # NoSession /\ q.prompt # "login"
    IN
    /\ pc[h] = "authorize"
    /\ IF authed /\ q.client \in Trusted
       THEN Become(h, "issue", [q EXCEPT !.user = session[q.browser].user,
                                         !.login = session[q.browser].login])
       ELSE IF q.prompt = "none" THEN Return(h) ELSE Goto(h, "park")
    /\ UNCHANGED <<admin, session, logins, rows, history>>

\* parkAndRedirect.  The row does not record that a fresh login is due; the
\* history field "after" does.
Park(h, i) ==
    /\ pc[h] = "park"
    /\ parked[i] = "new"
    /\ parked' = [parked EXCEPT ![i] = "parked"]
    /\ row' = [row EXCEPT ![i] =
                 [client |-> req[h].client, uri |-> req[h].uri, ask |-> req[h].ask,
                  after |-> IF req[h].prompt = "login" THEN logins ELSE 0]]
    /\ Return(h)
    /\ UNCHANGED <<admin, session, logins, code, history>>

-----------------------------------------------------------------------------
(* The handlers that resume a parked request.                              *)

\* handleLoginForm: a browser that is signed in goes on at once.
LoginForm(h, b, i) ==
    /\ session[b] # NoSession
    /\ Start(h, "row", [NoParams EXCEPT !.browser = b, !.id = i, !.then = "resume",
                                        !.user = session[b].user,
                                        !.login = session[b].login])
    /\ UNCHANGED <<admin, session, logins, rows, history>>

\* handleLoginSubmit with a parked request: the request is peeked at first.
LoginSubmit(h, b, i, u) ==
    /\ Start(h, "row", [NoParams EXCEPT !.browser = b, !.id = i, !.then = "password",
                                        !.user = u])
    /\ UNCHANGED <<admin, session, logins, rows, history>>

\* GetUserByUsername and the password check, for a password that is right.
Password(h) ==
    /\ pc[h] = "password"
    /\ IF req[h].user \in disabledUsers
       THEN Return(h) ELSE Become(h, "session", [req[h] EXCEPT !.then = "resume"])
    /\ UNCHANGED <<admin, session, logins, rows, history>>

\* handleMFASubmit once the second factor of an enabled user is right: the
\* session is issued first and the parked request loaded afterwards.
MFASubmit(h, b, i, u) ==
    /\ u \notin disabledUsers
    /\ Start(h, "session", [NoParams EXCEPT !.browser = b, !.id = i, !.then = "row",
                                            !.user = u])
    /\ UNCHANGED <<admin, session, logins, rows, history>>

\* handlePasskeyLoginFinish for an enabled user: a session and no more, the
\* browser resumes the request with GET /login.
PasskeyLoginFinish(h, b, u) ==
    /\ u \notin disabledUsers
    /\ Start(h, "session", [NoParams EXCEPT !.browser = b, !.user = u])
    /\ UNCHANGED <<admin, session, logins, rows, history>>

\* sessions.Issue: the session of the cookie is replaced.
Issue(h) ==
    LET q == req[h] IN
    /\ pc[h] = "session"
    /\ logins < MaxLogins
    /\ logins' = logins + 1
    /\ session' = [session EXCEPT ![q.browser] = [user |-> q.user, login |-> logins + 1]]
    /\ signIns' = signIns \cup {<<q.browser, q.user, logins + 1>>}
    /\ IF q.then = "idle" THEN Return(h)
       ELSE Become(h, q.then, [q EXCEPT !.login = logins + 1, !.then = "resume"])
    /\ UNCHANGED <<admin, rows, spent, consents>>

\* handleConsentSubmit, Continue or Cancel.
ConsentSubmit(h, b, i, answer) ==
    /\ Start(h, "row", [NoParams EXCEPT !.browser = b, !.id = i, !.then = answer])
    /\ UNCHANGED <<admin, session, logins, rows, history>>

\* GetAuthRequest in loadAuthRequest and peekAuthRequest.
LoadRow(h) ==
    LET q == req[h] IN
    /\ pc[h] = "row"
    /\ IF parked[q.id] = "parked"
       THEN Become(h, "client", [q EXCEPT !.client = row[q.id].client,
                                          !.uri = row[q.id].uri,
                                          !.ask = row[q.id].ask,
                                          !.after = row[q.id].after])
       ELSE Return(h)
    /\ UNCHANGED <<admin, session, logins, rows, history>>

\* Mutant: the client is found but the stored address is not validated again.
LoadClientUnchecked(h) ==
    /\ pc[h] = "client"
    /\ Goto(h, req[h].then)
    /\ UNCHANGED <<admin, session, logins, rows, history>>

\* GetClient in the same two functions: the client and its current allowlist.
LoadClient(h) ==
    /\ pc[h] = "client"
    /\ IF Registered(req[h].client, req[h].uri) THEN Goto(h, req[h].then) ELSE Return(h)
    /\ UNCHANGED <<admin, session, logins, rows, history>>

\* Mutant: continueAfterAuth issues the code whatever the client.
ResumeUnasked(h) ==
    /\ pc[h] = "resume"
    /\ Goto(h, "drop")
    /\ UNCHANGED <<admin, session, logins, rows, history>>

\* continueAfterAuth: a code for a trusted client, the consent page for others.
Resume(h) ==
    /\ pc[h] = "resume"
    /\ IF req[h].client \in Trusted THEN Goto(h, "drop") ELSE Return(h)
    /\ UNCHANGED <<admin, session, logins, rows, history>>

\* Mutant: the user of the consent page's request is not taken from a session.
ConsentSessionBlind(h) ==
    /\ pc[h] \in {"allow", "deny"}
    /\ \E u \in Users :
         /\ Become(h, IF pc[h] = "allow" THEN "drop" ELSE "dropDenied",
                   [req[h] EXCEPT !.user = u, !.login = 1])
         /\ consents' = IF pc[h] = "allow" THEN consents \cup {<<u, req[h].id>>} ELSE consents
    /\ UNCHANGED <<admin, session, logins, rows, spent, signIns>>

\* sessions.Current in handleConsentSubmit: the user of the code is the user of
\* the session at the time of the click.
ConsentSession(h) ==
    LET q == req[h]
        s == session[q.browser] IN
    /\ pc[h] \in {"allow", "deny"}
    /\ IF s = NoSession
       THEN Return(h) /\ UNCHANGED consents
       ELSE /\ Become(h, IF pc[h] = "allow" THEN "drop" ELSE "dropDenied",
                      [q EXCEPT !.user = s.user, !.login = s.login])
            /\ consents' = IF pc[h] = "allow"
                           THEN consents \cup {<<s.user, q.id>>} ELSE consents
    /\ UNCHANGED <<admin, session, logins, rows, spent, signIns>>

\* DeleteAuthRequest.
Drop(h) ==
    /\ pc[h] \in {"drop", "dropDenied"}
    /\ parked' = [parked EXCEPT ![req[h].id] = "gone"]
    /\ spent' = spent \cup {req[h].id}
    /\ IF pc[h] = "drop" THEN Goto(h, "issue") ELSE Return(h)
    /\ UNCHANGED <<admin, session, logins, row, code, consents, signIns>>

\* DeleteAuthRequest fails; the handler ignores the error.
DropFails(h) ==
    /\ pc[h] \in {"drop", "dropDenied"}
    /\ IF pc[h] = "drop" THEN Goto(h, "issue") ELSE Return(h)
    /\ UNCHANGED <<admin, session, logins, rows, history>>

\* issueCode.
IssueCode(h, c) ==
    LET q == req[h] IN
    /\ pc[h] = "issue"
    /\ c \notin Issued
    /\ code' = [x \in Issued \cup {c} |->
                  IF x = c
                  THEN [client |-> q.client, uri |-> q.uri, ask |-> q.ask,
                        after |-> q.after, user |-> q.user, login |-> q.login,
                        from |-> q.id, browser |-> q.browser]
                  ELSE code[x]]
    /\ Return(h)
    /\ UNCHANGED <<admin, session, logins, parked, row, history>>

\* A store call fails, a password is wrong or the browser hangs up.
Abandon(h) ==
    /\ pc[h] # "idle"
    /\ Return(h)
    /\ UNCHANGED <<admin, session, logins, rows, history>>

-----------------------------------------------------------------------------
(* Everything else that touches this state.                                *)

\* The row's expiry passes (or the sweeper deletes it): GetAuthRequest does not
\* find it any more.
ExpireRequest(i) ==
    /\ parked[i] = "parked"
    /\ parked' = [parked EXCEPT ![i] = "gone"]
    /\ UNCHANGED <<admin, session, logins, row, code, pc, req, history>>

\* Logout, expiry, idle timeout or "sign out everywhere".
EndSession(b) ==
    /\ session[b] # NoSession
    /\ session' = [session EXCEPT ![b] = NoSession]
    /\ UNCHANGED <<admin, logins, rows, pc, req, history>>

\* handleAdminToggleUser, disabling: SetUserDisabled, then DeleteSessionsForUser.
ToggleUser(h, u) ==
    /\ u \notin disabledUsers
    /\ disabledUsers' = disabledUsers \cup {u}
    /\ Start(h, "endSessions", [NoParams EXCEPT !.user = u])
    /\ UNCHANGED <<allowed, disabledClients, session, logins, rows, history>>

DeleteSessionsForUser(h) ==
    /\ pc[h] = "endSessions"
    /\ session' = [b \in Browsers |->
                     IF session[b] # NoSession /\ session[b].user = req[h].user
                     THEN NoSession ELSE session[b]]
    /\ Return(h)
    /\ UNCHANGED <<admin, logins, rows, history>>

\* handleAdminUpdateClient reads the client, and later writes the new addresses
\* and, with them, the disabled flag it read.
EditClient(h, c) ==
    /\ Start(h, "update", [NoParams EXCEPT !.client = c,
                             !.then = IF c \in disabledClients THEN "off" ELSE "on"])
    /\ UNCHANGED <<admin, session, logins, rows, history>>

UpdateClient(h, S) ==
    LET c == req[h].client IN
    /\ pc[h] = "update"
    /\ allowed' = [allowed EXCEPT ![c] = S]
    /\ disabledClients' = IF req[h].then = "off" THEN disabledClients \cup {c}
                                                 ELSE disabledClients \ {c}
    /\ Return(h)
    /\ UNCHANGED <<disabledUsers, session, logins, rows, history>>

\* handleAdminToggleClient.
ToggleClient(c) ==
    /\ disabledClients' = IF c \in disabledClients THEN disabledClients \ {c}
                                                   ELSE disabledClients \cup {c}
    /\ UNCHANGED <<allowed, disabledUsers, session, logins, rows, pc, req, history>>

Step ==
    \/ \E h \in Handlers :
        \/ \E b \in Browsers :
            \/ \E c \in Clients, u \in Uris, a \in Asks, p \in Prompts :
                 Authorize(h, b, c, u, a, p)
            \/ \E u \in Users : PasskeyLoginFinish(h, b, u)
            \/ \E i \in ReqIds :
                \/ LoginForm(h, b, i)
                \/ \E u \in Users : LoginSubmit(h, b, i, u) \/ MFASubmit(h, b, i, u)
                \/ \E answer \in {"allow", "deny"} : ConsentSubmit(h, b, i, answer)
        \/ AuthorizeSession(h)
        \/ \E i \in ReqIds : Park(h, i)
        \/ Password(h)
        \/ Issue(h)
        \/ LoadRow(h)
        \/ LoadClient(h)
        \/ Resume(h)
        \/ ConsentSession(h)
        \/ Drop(h)
        \/ DropFails(h)
        \/ \E c \in Codes : IssueCode(h, c)
        \/ Abandon(h)
        \/ \E u \in Users : ToggleUser(h, u)
        \/ DeleteSessionsForUser(h)
        \/ \E c \in Edited : EditClient(h, c)
        \/ \E S \in SUBSET Uris : UpdateClient(h, S)
    \/ \E i \in ReqIds : ExpireRequest(i)
    \/ \E b \in Browsers : EndSession(b)
    \/ \E c \in Edited : ToggleClient(c)

\* History: late and fit, kept while the handler is in flight.
Remember ==
    /\ late' = [h \in Handlers |->
                  /\ pc'[h] # "idle"
                  /\ IF pc[h] = "idle" THEN req'[h].id \in spent ELSE late[h]]
    /\ fit' = [h \in Handlers |->
                 /\ pc'[h] # "idle"
                 /\ \/ pc[h] # "idle" /\ fit[h]
                    \/ req'[h].client # NoClient /\ Registered(req[h].client, req[h].uri)']

Next == Step /\ Remember

Spec == Init /\ [][Next]_vars

-----------------------------------------------------------------------------
(* Properties.                                                             *)

TypeOK ==
    /\ allowed \in [Clients -> SUBSET Uris]
    /\ disabledClients \subseteq Clients
    /\ disabledUsers \subseteq Users
    /\ session \in [Browsers -> Session \cup {NoSession}]
    /\ logins \in 0..MaxLogins
    /\ parked \in [ReqIds -> {"new", "parked", "gone"}]
    /\ row \in [ReqIds -> Row \cup {NoRow}]
    /\ \A i \in ReqIds : parked[i] # "new" => row[i] \in Row
    /\ Issued \subseteq Codes
    /\ \A c \in Issued : code[c] \in Code
    /\ pc \in [Handlers -> PCs]

\* A code for a client that needs consent exists only because that very user
\* agreed, in handleConsentSubmit, to that very parked request: neither the
\* login page, the second factor nor prompt=none is a way round the consent
\* page.
CodeNeedsConsent ==
    \A c \in Issued :
        code[c].client \notin Trusted => <<code[c].user, code[c].from>> \in consents

\* A code names a user who signed in, in the browser the code is sent to, at
\* the auth_time it records, whatever sessions come and go while the handlers
\* run.
CodeNamesASignIn ==
    \A c \in Issued : <<code[c].browser, code[c].user, code[c].login>> \in signIns

\* A handler on the point of issuing a code works for a client and an address
\* that were registered at some instant while it ran, not only when the request
\* was parked; and it began before the request was spent (a code was issued or
\* the user cancelled): the back button and the second tab lead nowhere.
NoLateOrStrayCode ==
    \A h \in Handlers :
        /\ pc[h] = "issue" => fit[h]
        /\ pc[h] \in {"drop", "issue"} => ~late[h]

\* prompt=login, or an exceeded max_age, forces a fresh login: the code records
\* a sign-in made after the request (authorize_handler.go).
FreshLoginWhenDemanded ==
    \A c \in Issued : code[c].login > code[c].after
=============================================================================
