--------------------------- MODULE EndpointAgent ---------------------------
(***************************************************************************)
(* The endpoint agent of one machine: its enrollment record (device.json), *)
(* its key (device.key, or the TPM blob device.tpm.json), the daemon's     *)
(* status.json, and the operations that read and write them without a      *)
(* lock: the daemon's renewal loop, and the commands and the local page    *)
(* that enroll, renew, rotate the key, unenroll and cancel.                *)
(*                                                                         *)
(* A step is one file operation or one exchange with the server.  The      *)
(* server is its table of devices (DeviceRegistry has its handlers).  An   *)
(* exchange may be answered, fail before it reaches the server, or be      *)
(* carried out and its reply lost; the server may answer with an error of  *)
(* its own; a process may be killed between two steps.  The server moves   *)
(* once to another issuer URL, whose old address names the new one.        *)
(***************************************************************************)
EXTENDS Naturals

CONSTANTS
    Keys, Devices,
    Daemon, Commands,   \* the daemon's process; the CLI's and the page's
    BackendArgs,        \* what rotate-key --backend is given: "" keeps it
    AliasKept,          \* the old issuer is listed in security.issuer_aliases
    None

Processes == {Daemon} \cup Commands
Backends == {"file", "tpm"}
Issuers == {"old", "new"}
ASSUME AgentAssumption ==
    /\ Daemon \notin Commands
    /\ BackendArgs \subseteq Backends \cup {""}
    /\ AliasKept \in BOOLEAN
    /\ None \notin Keys \cup Devices

VARIABLES
    record,             \* device.json
    file, blob,         \* device.key, device.tpm.json
    runtime,            \* status.json
    server,             \* the server's row of each device
    home,               \* the server's issuer
    up,                 \* the daemon runs
    proc,               \* operations in flight
    fresh,              \* keys not generated yet
    trouble             \* history: "overlap" once two operations overlapped or
                        \* one was killed; before that "network" once the server
                        \* missed an unenrollment, or the agent the answer to an
                        \* enrollment or a rotation

disk == <<record, file, blob>>
vars == <<record, file, blob, runtime, server, home, up,
          proc, fresh, trouble>>

Record == [dev : Devices, fp : Keys, status : {"active", "pending", "revoked"},
           backend : Backends, issuer : Issuers]
ASSUME RecordAssumption == None \notin Record
Status == [dev : Devices, status : {"active", "pending", "revoked"}]
PCs == {"idle", "token", "save", "rotate", "commit", "revoke",
        "generate", "wait", "register", "rmRecord", "rmKey"}

\* st: the record the operation loaded or is about to save; key: the key it
\* signs with; new: the key it rotates to; to: the backend of the key it
\* makes; aud: the issuer its assertion names; ans: what the server answered.
Idle == [op |-> "none", pc |-> "idle", st |-> None, key |-> None, new |-> None,
         to |-> "file", aud |-> "old", ans |-> "refused", cancelled |-> FALSE]

NoRow == [status |-> "none", key |-> None, keys |-> {}]

Init ==
    /\ record = None /\ file = None /\ blob = None /\ runtime = None
    /\ server = [d \in Devices |-> NoRow]
    /\ home = "old"
    /\ up = FALSE
    /\ proc = [p \in Processes |-> Idle]
    /\ fresh = Keys
    /\ trouble = "none"

At(p, l) == proc[p].pc = l
Goto(p, l) == proc' = [proc EXCEPT ![p].pc = l]
Return(p) == proc' = [proc EXCEPT ![p] = Idle]
Wiping(p) == [Idle EXCEPT !.op = proc[p].op, !.pc = "rmRecord"]
Serial == UNCHANGED trouble
Overlap(b) == trouble' = IF b THEN "overlap" ELSE trouble
NetworkFault(b) == trouble' = IF b /\ trouble = "none" THEN "network" ELSE trouble

----------------------------------------------------------------------------
(* Loading the record and the key. *)

\* Which of the unused keys or rows is taken makes no difference.
NewKey == CHOOSE k \in fresh : TRUE
NewDevice == CHOOSE d \in Devices : server[d].status = "none"

LoadKey == IF blob # None THEN blob ELSE file

\* Open fails on a missing record or key, and when the two disagree.
Opens == record # None /\ LoadKey # None /\ LoadKey = record.fp

Begin(p, q) ==
    /\ At(p, "idle")
    /\ p = Daemon => up
    /\ proc' = [proc EXCEPT ![p] = q]
    /\ Overlap(\E o \in Processes \ {p} : ~At(o, "idle"))
    /\ UNCHANGED <<disk, runtime, server, home, up, fresh>>

Opened(op, to) == [Idle EXCEPT !.op = op, !.pc = "token", !.to = to, !.st = record,
                               !.key = LoadKey, !.aud = record.issuer]

Renew(p) == Opens /\ Begin(p, Opened("renew", "file"))

RotateKeyTo(p, b) ==
    Opens /\ Begin(p, Opened("rotate", IF b = "" THEN record.backend ELSE b))

\* A record whose key is missing is wiped without asking the server; one that
\* disagrees with its key is an error that leaves everything as it is.
Unenroll(p) ==
    \/ Opens /\ Begin(p, Opened("unenroll", "file"))
    \/ /\ record = None \/ LoadKey = None
       /\ Begin(p, [Idle EXCEPT !.op = "unenroll", !.pc = "rmRecord"])

\* The TPM backend does not look for a software key.
BeginEnrollment(p, b) ==
    /\ record = None
    /\ blob = None
    /\ b = "file" => file = None
    /\ Begin(p, [Idle EXCEPT !.op = "enroll", !.pc = "generate", !.to = b])

\* The page's Cancel: the ceremony's context is cancelled and its key removed,
\* whatever the ceremony's own goroutine is doing.
HandleCancel(p) ==
    /\ proc[p].op = "enroll" /\ proc[p].pc \in {"wait", "register", "save"}
    /\ ~proc[p].cancelled
    /\ proc' = [proc EXCEPT ![p].cancelled = TRUE]
    /\ record' = None /\ file' = None /\ blob' = None
    /\ Overlap(TRUE)
    /\ UNCHANGED <<runtime, server, home, up, fresh>>

----------------------------------------------------------------------------
(* The device token: discovery, then the jwt-bearer grant. *)

\* Discovery at an address that names another issuer: the record follows at
\* once, while the assertion already made keeps naming the old one.
FollowIssuerMove(p) ==
    /\ At(p, "token") /\ proc[p].st.issuer # home
    /\ proc' = [proc EXCEPT ![p].st.issuer = home]
    /\ record' = proc'[p].st
    /\ UNCHANGED <<file, blob, runtime, server, home, up, fresh>> /\ Serial

Grant(q) ==
    LET row == server[q.st.dev] IN
    IF /\ q.aud = home \/ AliasKept
       /\ row.key = q.key /\ row.status \in {"active", "pending"}
    THEN row.status ELSE "refused"

\* Renew goes on with any answer, RotateKeyTo only with a token, Unenroll
\* wipes the machine when it gets none.
Told(p, a) ==
    LET op == proc[p].op IN
    /\ proc' = [proc EXCEPT ![p] =
          CASE op = "renew" -> [Idle EXCEPT !.op = op, !.pc = "save",
                                            !.st = proc[p].st, !.ans = a]
            [] op = "rotate" /\ a = "active" -> [proc[p] EXCEPT !.pc = "rotate"]
            [] op = "unenroll" /\ a = "active" -> [proc[p] EXCEPT !.pc = "revoke"]
            [] op = "unenroll" /\ a # "active" -> Wiping(p)
            [] OTHER -> Idle]
    /\ NetworkFault((op = "unenroll" /\ a # "active"))
    /\ UNCHANGED <<disk, runtime, server, home, up, fresh>>

Discovered(p) == At(p, "token") /\ proc[p].st.issuer = home
DeviceToken(p) == Discovered(p) /\ Told(p, Grant(proc[p]))
Unreachable(p) == At(p, "token") /\ Told(p, "unreachable")
ServerError(p) == Discovered(p) /\ Told(p, "refused")

----------------------------------------------------------------------------
(* Renew: the whole record is written back, then status.json. *)

\* Mutant: a refusal is sticky, as the comment on State.Status has it.
RenewedSticky(q) == CASE q.ans = "unreachable" \/ q.st.status = "revoked" -> q.st.status
                      [] q.ans = "refused" -> "revoked"
                      [] OTHER -> q.ans

\* An unreachable server leaves the last known status.
Renewed(q) == CASE q.ans = "unreachable" -> q.st.status
                [] q.ans = "refused" -> "revoked"
                [] OTHER -> q.ans

\* device.json, then status.json; errors of either are ignored.
RenewSave(p) ==
    LET s == Renewed(proc[p]) IN
    /\ At(p, "save") /\ proc[p].op = "renew"
    /\ record' = [proc[p].st EXCEPT !.status = s]
    /\ runtime' = [dev |-> proc[p].st.dev, status |-> s]
    /\ Return(p)
    /\ UNCHANGED <<file, blob, server, home, up, fresh>> /\ Serial

----------------------------------------------------------------------------
(* RotateKeyTo: the new key is in memory until the server has accepted it. *)

Holds(d, k) == server[d].status = "active" /\ server[d].key = k

\* heard: the reply arrives.
RotateAccepted(p, heard) ==
    LET k == NewKey IN
    /\ At(p, "rotate") /\ fresh # {}
    /\ Holds(proc[p].st.dev, proc[p].key)
    /\ fresh' = fresh \ {k}
    /\ server' = [server EXCEPT ![proc[p].st.dev].key = k,
                                ![proc[p].st.dev].keys = @ \cup {k}]
    /\ IF heard THEN proc' = [proc EXCEPT ![p].pc = "commit", ![p].new = k, ![p].key = None]
                ELSE Return(p)
    /\ NetworkFault(~heard)
    /\ UNCHANGED <<disk, runtime, home, up>>

\* Mutant: the key is committed although the server did not take it.
RotateRefusedIgnored(p) ==
    /\ At(p, "rotate") /\ fresh # {}
    /\ fresh' = fresh \ {NewKey}
    /\ proc' = [proc EXCEPT ![p].pc = "commit", ![p].new = NewKey]
    /\ UNCHANGED <<disk, runtime, server, home, up>> /\ Serial

RotateRefused(p) ==
    /\ At(p, "rotate")
    /\ Return(p)
    /\ UNCHANGED <<disk, runtime, server, home, up, fresh>> /\ Serial

\* A TPM key replaces the software key; a software key leaves the blob alone.
CommitKey(p) ==
    /\ At(p, "commit")
    /\ IF proc[p].to = "tpm" THEN blob' = proc[p].new /\ file' = None
                             ELSE file' = proc[p].new /\ UNCHANGED blob
    /\ Goto(p, "save")
    /\ UNCHANGED <<record, runtime, server, home, up, fresh>> /\ Serial

RotateSave(p) ==
    /\ At(p, "save") /\ proc[p].op = "rotate"
    /\ record' = [proc[p].st EXCEPT !.fp = proc[p].new, !.backend = proc[p].to]
    /\ Return(p)
    /\ UNCHANGED <<file, blob, runtime, server, home, up, fresh>> /\ Serial

----------------------------------------------------------------------------
(* Unenroll, and RemoveState: the record, then the key in either file. *)

\* Mutant: the token is obtained and the server is not told.
RevokeSelfForgotten(p, reached) ==
    /\ At(p, "revoke")
    /\ proc' = [proc EXCEPT ![p] = Wiping(p)]
    /\ UNCHANGED <<disk, runtime, server, home, up, fresh>> /\ Serial

RevokeSelf(p, reached) ==
    /\ At(p, "revoke")
    /\ LET d == proc[p].st.dev
           done == reached /\ Holds(d, proc[p].key)
       IN  /\ server' = IF done THEN [server EXCEPT ![d].status = "revoked"] ELSE server
           /\ NetworkFault(~done)
    /\ proc' = [proc EXCEPT ![p] = Wiping(p)]
    /\ UNCHANGED <<disk, runtime, home, up, fresh>>

RemoveRecord(p) ==
    /\ At(p, "rmRecord")
    /\ record' = None
    /\ Goto(p, "rmKey")
    /\ UNCHANGED <<file, blob, runtime, server, home, up, fresh>> /\ Serial

RemoveKey(p) ==
    /\ At(p, "rmKey")
    /\ file' = None /\ blob' = None
    /\ Return(p)
    /\ UNCHANGED <<record, runtime, server, home, up, fresh>> /\ Serial

----------------------------------------------------------------------------
(* The ceremony: the key is on disk before the user is asked. *)

\* The key is written and the grant started, at the issuer discovery names.
GenerateKey(p) ==
    LET k == NewKey IN
    /\ At(p, "generate") /\ fresh # {}
    /\ fresh' = fresh \ {k}
    /\ IF proc[p].to = "tpm" THEN blob' = k /\ file' = None
                             ELSE file' = k /\ UNCHANGED blob
    /\ proc' = [proc EXCEPT ![p].key = k, ![p].aud = home, ![p].pc = "wait"]
    /\ UNCHANGED <<record, runtime, server, home, up>> /\ Serial

UserApproves(p) ==
    /\ At(p, "wait") /\ ~proc[p].cancelled
    /\ Goto(p, "register")
    /\ UNCHANGED <<disk, runtime, server, home, up, fresh>> /\ Serial

\* Mutant: the key of a failed ceremony stays.
AbortKeepsKey(p) ==
    /\ proc[p].pc \in {"wait", "register"}
    /\ Return(p)
    /\ UNCHANGED <<disk, runtime, server, home, up, fresh>> /\ Serial

\* The grant could not be started, was denied, expired or cancelled, or the
\* registration was refused or never arrived: the key is removed.
Abort(p) ==
    /\ proc[p].pc \in {"wait", "register"}
    /\ proc' = [proc EXCEPT ![p] = Wiping(p)]
    /\ UNCHANGED <<disk, runtime, server, home, up, fresh>> /\ Serial

\* The server adds the device, pending where administrators approve devices.
\* A cancelled context loses the reply.
Register(p, s, heard) ==
    LET d == NewDevice IN
    /\ At(p, "register") /\ \E e \in Devices : server[e].status = "none"
    /\ heard => ~proc[p].cancelled
    /\ server' = [server EXCEPT ![d] =
                    [status |-> s, key |-> proc[p].key, keys |-> {proc[p].key}]]
    /\ proc' = [proc EXCEPT ![p] =
          IF ~heard THEN Wiping(p)
          ELSE [Idle EXCEPT !.op = "enroll", !.pc = "save",
                            !.st = [dev |-> d, fp |-> proc[p].key, status |-> s,
                                    backend |-> proc[p].to, issuer |-> proc[p].aud]]]
    /\ NetworkFault(~heard)
    /\ UNCHANGED <<disk, runtime, home, up, fresh>>

EnrollSave(p) ==
    /\ At(p, "save") /\ proc[p].op = "enroll"
    /\ record' = proc[p].st
    /\ Return(p)
    /\ UNCHANGED <<file, blob, runtime, server, home, up, fresh>> /\ Serial

----------------------------------------------------------------------------
(* The daemon, kills, and the server's side. *)

DaemonStart ==
    /\ ~up /\ record # None
    /\ up' = TRUE
    /\ UNCHANGED <<disk, runtime, server, home, proc, fresh>> /\ Serial

\* Renew returns no state when Open fails, and the loop reads its status.
DaemonPanics ==
    /\ up /\ At(Daemon, "idle") /\ ~Opens
    /\ up' = FALSE
    /\ UNCHANGED <<disk, runtime, server, home, proc, fresh>> /\ Serial

Kill(p) ==
    /\ ~At(p, "idle")
    /\ Return(p)
    /\ up' = (up /\ p # Daemon)
    /\ Overlap(TRUE)
    /\ UNCHANGED <<disk, runtime, server, home, fresh>>

AdminDecides(d, s) ==
    /\ \/ server[d].status = "pending" /\ s = "active"
       \/ server[d].status \in {"pending", "active"} /\ s = "revoked"
    /\ server' = [server EXCEPT ![d].status = s]
    /\ UNCHANGED <<disk, runtime, home, up, proc, fresh>> /\ Serial

IssuerMoves ==
    /\ home = "old"
    /\ home' = "new"
    /\ UNCHANGED <<disk, runtime, server, up, proc, fresh>> /\ Serial

----------------------------------------------------------------------------
Exchange(p) == FollowIssuerMove(p) \/ DeviceToken(p) \/ Unreachable(p) \/ ServerError(p)
DaemonStep == Renew(Daemon) \/ RenewSave(Daemon)

RunRenew(c) == Renew(c) \/ RenewSave(c)

RunRotate(c) ==
    \/ \E b \in BackendArgs : RotateKeyTo(c, b)
    \/ \E heard \in BOOLEAN : RotateAccepted(c, heard)
    \/ RotateRefused(c) \/ CommitKey(c) \/ RotateSave(c)

RunUnenroll(c) ==
    \/ Unenroll(c)
    \/ \E reached \in BOOLEAN : RevokeSelf(c, reached)
    \/ RemoveRecord(c) \/ RemoveKey(c)

\* The ceremony, whoever began it.
Enroll(c) ==
    \/ GenerateKey(c) \/ UserApproves(c) \/ Abort(c) \/ EnrollSave(c)
    \/ \E s \in {"active", "pending"}, heard \in BOOLEAN : Register(c, s, heard)

RunEnroll(c) ==
    \/ \E b \in Backends : BeginEnrollment(c, b)
    \/ Enroll(c)

Command(c) == RunEnroll(c) \/ RunRenew(c) \/ RunRotate(c) \/ RunUnenroll(c)

\* The page's buttons do what the commands do; a ceremony that handleEnroll left
\* to a goroutine can be cancelled as well.
Page(c) == Command(c) \/ HandleCancel(c)

RunDaemon == DaemonStart \/ DaemonStep \/ DaemonPanics

Next ==
    \/ RunDaemon
    \/ \E p \in Processes : Exchange(p) \/ Kill(p)
    \/ \E c \in Commands : Page(c)
    \/ \E d \in Devices, s \in {"active", "revoked"} : AdminDecides(d, s)
    \/ IssuerMoves

\* The daemon keeps renewing, and is not cut off from the server for ever.
Fairness ==
    /\ WF_vars(DaemonStep)
    /\ SF_vars(FollowIssuerMove(Daemon)) /\ SF_vars(DeviceToken(Daemon))

Spec == Init /\ [][Next]_vars /\ Fairness

----------------------------------------------------------------------------
(* Properties. *)

TypeOK ==
    /\ record \in Record \cup {None} /\ runtime \in Status \cup {None}
    /\ file \in Keys \cup {None} /\ blob \in Keys \cup {None}
    /\ server \in [Devices -> [status : {"none", "pending", "active", "revoked"},
                               key : Keys \cup {None}, keys : SUBSET Keys]]
    /\ home \in Issuers /\ up \in BOOLEAN /\ fresh \subseteq Keys
    /\ \A p \in Processes : proc[p].pc \in PCs
    /\ trouble \in {"none", "network", "overlap"}

Quiet == \A p \in Processes : At(p, "idle")

\* Whatever overlaps, is lost or is killed, the fingerprint in device.json is
\* one the server has accepted for that very device (RotateKeyTo's "commits the
\* new key only after the server accepts it"; complete saves the answer).
RecordNamesAcceptedKey == record # None => record.fp \in server[record.dev].keys

\* Operations that ran one at a time and to their end, whatever the network
\* did, leave a record that opens or nothing at all ("so a retry starts clean").
SequentialUseIsClean ==
    Quiet /\ trouble # "overlap" => Opens \/ (record = None /\ file = None /\ blob = None)

\* A device the server still honours and nobody holds the key of comes only
\* from an overlap, a kill, a lost reply or a failed revocation.
NoOrphanWithoutFault ==
    Quiet /\ trouble = "none" =>
        \A d \in Devices : server[d].status \in {"pending", "active"} =>
            record # None /\ record.dev = d /\ LoadKey = server[d].key

\* The machine is enrolled with the key the server knows, and only the daemon runs.
Settled ==
    /\ \A c \in Commands : At(c, "idle")
    /\ up /\ Opens /\ server[record.dev].key = record.fp

StatusIsTrue == /\ record # None /\ runtime # None
                /\ runtime.dev = record.dev /\ runtime.status = server[record.dev].status

\* What the server decides about an enrolled device (approved, revoked, still
\* pending) reaches status.json, again and again, across an issuer move, server
\* errors, and the stale records that commands wrote before they ended.
StatusFollowsServer == <>[]Settled => []<>StatusIsTrue
=============================================================================
