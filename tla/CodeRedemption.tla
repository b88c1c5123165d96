--------------------------- MODULE CodeRedemption ---------------------------
(***************************************************************************)
(* The authorization_code grant: ConsumeAuthCode and the checks that       *)
(* follow it.  The code is spent before it is checked against the client,  *)
(* the return address and the PKCE verifier of the request, so a request   *)
(* that fails a check has burnt the code.                                  *)
(*                                                                         *)
(* ConsumeAuthCode is a transaction that SELECTs the row and then UPDATEs  *)
(* it by its key alone.  With SQLite's single connection it is one step.   *)
(* With Postgres, READ COMMITTED, it is two.                               *)
(***************************************************************************)
EXTENDS Deployment, Naturals

CONSTANTS
    Codes,
    Public,             \* clients without a secret: PKCE is required
    Uris,
    Verifiers,          \* a challenge is named by the verifier that fits it
    Handlers,
    NoVerifier, NoCode

ASSUME CodeAssumption == NoVerifier \notin Verifiers /\ NoCode \notin Codes
ASSUME PublicAssumption == Public \subseteq Clients

VARIABLES
    row,                \* the immutable columns of each code
    status,             \* "new", "fresh", "used" or "expired"
    at, form,           \* the handlers and the form each was posted
    answered            \* history: how often each code was answered

history == <<answered>>
redeemVars == <<driver, row, status, disabledUsers, at, form, answered>>

CodeRow == [client : Clients, uri : Uris, user : Users,
            challenge : Verifiers \cup {NoVerifier}]

\* A posted form; client is the authenticated one.
Form == [code : Codes, client : Clients, uri : Uris,
         verifier : Verifiers \cup {NoVerifier}]
NoForm == [code |-> NoCode]

Stages == {"idle", "consume", "update", "check", "user", "answer"}

\* The handlers that have spent a code.
Holding == {"check", "user", "answer"}

RedeemInit ==
    /\ driver \in Drivers
    /\ row \in [Codes -> CodeRow]
    /\ status = [c \in Codes |-> "new"]
    /\ disabledUsers = {}
    /\ at = [h \in Handlers |-> "idle"]
    /\ form = [h \in Handlers |-> NoForm]
    /\ answered = [c \in Codes |-> 0]

GoOn(h, l) == at' = [at EXCEPT ![h] = l] /\ UNCHANGED form
EndRequest(h) == at' = [at EXCEPT ![h] = "idle"] /\ form' = [form EXCEPT ![h] = NoForm]

\* issueCode: validateAuthorize demands a challenge of a public client.
IssueCode(c) ==
    /\ status[c] = "new"
    /\ row[c].client \in Public => row[c].challenge # NoVerifier
    /\ status' = [status EXCEPT ![c] = "fresh"]
    /\ UNCHANGED <<row, disabledUsers, at, form, history>>

\* expires_at passes.
ExpireCode(c) ==
    /\ status[c] = "fresh"
    /\ status' = [status EXCEPT ![c] = "expired"]
    /\ UNCHANGED <<row, disabledUsers, at, form, history>>

\* authenticateClient.
Post(h, f) ==
    /\ at[h] = "idle"
    /\ at' = [at EXCEPT ![h] = "consume"]
    /\ form' = [form EXCEPT ![h] = f]
    /\ UNCHANGED <<row, status, disabledUsers, history>>

\* Mutant: ConsumeAuthCode does not look at the used flag.
ConsumeAuthCodeUsed(h) ==
    LET c == form[h].code IN
    /\ at[h] = "consume"
    /\ IF status[c] \notin {"fresh", "used"}
       THEN EndRequest(h) /\ UNCHANGED status
       ELSE /\ GoOn(h, "check")
            /\ status' = [status EXCEPT ![c] = "used"]
    /\ UNCHANGED <<row, disabledUsers, history>>

\* ConsumeAuthCode.  On Postgres this is its SELECT.
ConsumeAuthCode(h) ==
    LET c == form[h].code IN
    /\ at[h] = "consume"
    /\ IF status[c] # "fresh"
       THEN EndRequest(h) /\ UNCHANGED status
       ELSE \/ /\ driver = "sqlite"
               /\ GoOn(h, "check")
               /\ status' = [status EXCEPT ![c] = "used"]
            \/ /\ driver = "postgres"
               /\ GoOn(h, "update")
               /\ UNCHANGED status
    /\ UNCHANGED <<row, disabledUsers, history>>

\* The UPDATE and the commit on Postgres.
ConsumeUpdate(h) ==
    /\ at[h] = "update"
    /\ status' = [status EXCEPT ![form[h].code] = "used"]
    /\ GoOn(h, "check")
    /\ UNCHANGED <<row, disabledUsers, history>>

\* The row fits the form: client, return address and PKCE.
Fits(r, f) ==
    /\ r.client = f.client
    /\ r.uri = f.uri
    /\ IF r.challenge # NoVerifier THEN f.verifier = r.challenge
                                   ELSE f.client \notin Public

\* The checks of grantAuthorizationCode, after the code is spent.
Check(h) ==
    /\ at[h] = "check"
    /\ IF Fits(row[form[h].code], form[h]) THEN GoOn(h, "user") ELSE EndRequest(h)
    /\ UNCHANGED <<row, status, disabledUsers, history>>

\* GetUserByID.
CheckUser(h) ==
    /\ at[h] = "user"
    /\ IF row[form[h].code].user \in disabledUsers THEN EndRequest(h) ELSE GoOn(h, "answer")
    /\ UNCHANGED <<row, status, disabledUsers, history>>

\* The token response.
Answer(h) ==
    /\ at[h] = "answer"
    /\ answered' = [answered EXCEPT ![form[h].code] = @ + 1]
    /\ EndRequest(h)
    /\ UNCHANGED <<row, status, disabledUsers>>

\* Signing or a store call fails (the refresh token cannot be stored), or the
\* client hangs up.
AbandonRedemption(h) ==
    /\ at[h] # "idle"
    /\ EndRequest(h)
    /\ UNCHANGED <<row, status, disabledUsers, history>>

ToggleOwner(u) ==
    /\ disabledUsers' = IF u \in disabledUsers THEN disabledUsers \ {u}
                                               ELSE disabledUsers \cup {u}
    /\ UNCHANGED <<row, status, at, form, history>>

RedeemStep ==
    \/ \E c \in Codes : IssueCode(c) \/ ExpireCode(c)
    \/ \E h \in Handlers :
        \/ \E f \in Form : Post(h, f)
        \/ ConsumeAuthCode(h)
        \/ ConsumeUpdate(h)
        \/ Check(h)
        \/ CheckUser(h)
        \/ Answer(h)
        \/ AbandonRedemption(h)
    \/ \E u \in Users : ToggleOwner(u)

RedeemNext == RedeemStep /\ UNCHANGED driver

RedeemSpec == RedeemInit /\ [][RedeemNext]_redeemVars

-----------------------------------------------------------------------------
(* Properties.                                                             *)

RedeemTypeOK ==
    /\ driver \in Drivers
    /\ row \in [Codes -> CodeRow]
    /\ status \in [Codes -> {"new", "fresh", "used", "expired"}]
    /\ disabledUsers \subseteq Users
    /\ at \in [Handlers -> Stages]
    /\ form \in [Handlers -> Form \cup {NoForm}]
    /\ \A h \in Handlers : at[h] # "idle" => form[h] \in Form
    /\ answered \in [Codes -> Nat]

\* A code is exchanged at most once: it has at most one token response, and
\* while a handler that spent it is still working no other response exists and
\* no other handler holds it.
RedeemedOnce ==
    /\ \A c \in Codes : answered[c] <= 1
    /\ \A h1 \in Handlers : at[h1] \in Holding =>
        /\ answered[form[h1].code] = 0
        /\ \A h2 \in Handlers :
             at[h2] \in Holding /\ form[h2].code = form[h1].code => h1 = h2

\* The same where ConsumeAuthCode is one atomic transaction.
SqliteRedeemedOnce == driver = "sqlite" => RedeemedOnce

\* A spent or expired code is never fit to be exchanged again, whatever becomes
\* of the request that spent it.
SpentForGood ==
    [][\A c \in Codes :
         /\ status[c] = "used" => status'[c] = "used"
         /\ status[c] = "expired" => status'[c] \in {"expired", "used"}]_redeemVars

\* What makes RedeemedOnce inductive on SQLite: the code of every handler past
\* ConsumeAuthCode, and of every answer, is marked used, and no handler is
\* between the two statements of ConsumeAuthCode.
HeldCodesUsed ==
    /\ \A h \in Handlers : at[h] \in Holding => status[form[h].code] = "used"
    /\ \A c \in Codes : answered[c] > 0 => status[c] = "used"
    /\ \A h \in Handlers : at[h] # "update"

OnceInv ==
    /\ RedeemTypeOK
    /\ driver = "sqlite" => HeldCodesUsed /\ RedeemedOnce
=============================================================================
