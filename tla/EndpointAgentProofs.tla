------------------------ MODULE EndpointAgentProofs ------------------------
(***************************************************************************)
(* Theorems about EndpointAgent, for every set of keys and devices, any    *)
(* number of commands beside the daemon, and any order of their file       *)
(* operations and exchanges with the server.                               *)
(*                                                                         *)
(* The inductive invariant has four layers.  Control types the files, the  *)
(* server's rows and the operations in flight, and says what an operation  *)
(* carries at each of its steps.  AcceptedInv says that the records on     *)
(* disk and in memory name keys the server accepted.  SequentialInv says,  *)
(* while nothing has overlapped or been killed, how the files look at each *)
(* step of the one operation that runs.  OrphanInv says which rows of the  *)
(* server are honoured then, while no exchange has failed either.          *)
(***************************************************************************)
EXTENDS EndpointAgent, TLAPS

Ops == {"none", "renew", "rotate", "unenroll", "enroll"}
Answers == {"active", "pending", "refused", "unreachable"}
Operation == [op : Ops, pc : PCs, st : Record \cup {None}, key : Keys \cup {None},
              new : Keys \cup {None}, to : Backends, aud : Issuers, ans : Answers,
              cancelled : BOOLEAN]
Row == [status : {"none", "pending", "active", "revoked"},
        key : Keys \cup {None}, keys : SUBSET Keys]

\* What an operation carries at each of its steps.
Fits(r) ==
    /\ r.pc \in {"token", "rotate", "commit", "revoke", "save"} => r.st \in Record
    /\ r.pc = "token" => r.op \in {"renew", "rotate", "unenroll"} /\ r.key \in Keys
    /\ r.pc \in {"rotate", "commit"} => r.op = "rotate"
    /\ r.pc = "save" => r.op \in {"renew", "rotate", "enroll"}
    /\ r.pc = "commit" \/ (r.pc = "save" /\ r.op = "rotate") => r.new \in Keys
    /\ r.pc = "revoke" => r.op = "unenroll"
    /\ r.pc \in {"generate", "wait", "register"} => r.op = "enroll"
    /\ r.pc \in {"wait", "register"} => r.key \in Keys

Control ==
    /\ record \in Record \cup {None}
    /\ file \in Keys \cup {None} /\ blob \in Keys \cup {None}
    /\ server \in [Devices -> Row] /\ home \in Issuers /\ fresh \subseteq Keys
    /\ proc \in [Processes -> Operation]
    /\ \A p \in Processes : Fits(proc[p])
    /\ \A d \in Devices : server[d].status = "none" => server[d] = NoRow

\* The key a record names is one the server accepted for the record's device.
Accepted(table, s) == s.fp \in table[s.dev].keys

\* What an operation carries has been accepted by the server.
Carries(table, r) ==
    /\ r.st # None => Accepted(table, r.st)
    /\ r.pc = "commit" \/ (r.pc = "save" /\ r.op = "rotate")
       => r.new \in table[r.st.dev].keys

AcceptedInv ==
    /\ record # None => Accepted(server, record)
    /\ \A p \in Processes : Carries(server, proc[p])

Clean == record = None /\ file = None /\ blob = None

\* The record opens, and its backend is where the key is.
Backed == Opens /\ (record.backend = "tpm" <=> blob # None)

\* How the files look while r is the only operation that may be under way.
Shape(r) ==
    /\ r.pc = "idle" => Clean \/ Backed
    /\ r.pc \in {"token", "rotate", "revoke", "commit"} \/ (r.pc = "save" /\ r.op = "renew")
       => Backed /\ r.st = record
    /\ r.pc \in {"token", "rotate", "revoke"} => r.key = LoadKey
    /\ r.pc \in {"token", "rotate", "commit"} /\ r.op = "rotate"
       => r.to \in {record.backend, "tpm"}
    /\ r.pc = "save" /\ r.op = "rotate"
       => LoadKey = r.new /\ (r.to = "tpm" <=> blob # None)
    /\ r.pc = "generate" => Clean
    /\ r.pc \in {"wait", "register"}
       => record = None /\ LoadKey = r.key /\ (r.to = "tpm" <=> blob # None)
    /\ r.pc = "save" /\ r.op = "enroll"
       => LoadKey = r.st.fp /\ (r.st.backend = "tpm" <=> blob # None)
    /\ r.pc = "rmKey" => record = None

\* Every operation but p's is over.
Alone(p) == \A o \in Processes : o # p => At(o, "idle")

SequentialInv ==
    trouble # "overlap" =>
        /\ \A p, o \in Processes : At(p, "idle") \/ At(o, "idle") \/ p = o
        /\ \A p \in Processes : Alone(p) => Shape(proc[p])

Honoured(d) == server[d].status \in {"pending", "active"}

\* Which device the server honours while r is the only operation that may be
\* under way, and with which key.
Whole(r) ==
    \A d \in Devices : Honoured(d) =>
        /\ r.pc \in {"idle", "token", "rotate", "revoke"}
             \/ (r.pc = "save" /\ r.op = "renew")
           => record # None /\ record.dev = d /\ LoadKey = server[d].key
        /\ r.pc = "commit" \/ (r.pc = "save" /\ r.op = "rotate")
           => r.st.dev = d /\ server[d].key = r.new
        /\ r.pc = "save" /\ r.op = "enroll" => r.st.dev = d /\ server[d].key = r.st.fp
        /\ r.pc \notin {"generate", "wait", "register", "rmRecord", "rmKey"}

OrphanInv ==
    trouble = "none" => \A p \in Processes : Alone(p) => Whole(proc[p])

-----------------------------------------------------------------------------
(* The steps.                                                              *)

\* A step that begins an operation, in the state the files are in.
Begins(p) ==
    \/ Renew(p)
    \/ \E b \in BackendArgs : RotateKeyTo(p, b)
    \/ Unenroll(p)
    \/ \E b \in Backends : BeginEnrollment(p, b)

\* A step on the way to the device token.
Asks(p) ==
    \/ FollowIssuerMove(p)
    \/ At(p, "token") /\ \E a \in Answers : (a = "active" => Grant(proc[p]) = a) /\ Told(p, a)

\* The other steps of an operation that is under way.
Proceeds(p) ==
    \/ RenewSave(p)
    \/ \E heard \in BOOLEAN : RotateAccepted(p, heard)
    \/ RotateRefused(p) \/ CommitKey(p) \/ RotateSave(p)
    \/ \E reached \in BOOLEAN : RevokeSelf(p, reached)
    \/ RemoveRecord(p) \/ RemoveKey(p)
    \/ GenerateKey(p) \/ UserApproves(p) \/ Abort(p) \/ EnrollSave(p)
    \/ \E s \in {"active", "pending"}, heard \in BOOLEAN : Register(p, s, heard)

\* The daemon's own life and the server's side change no file and no operation.
Environment ==
    \/ DaemonStart \/ DaemonPanics \/ IssuerMoves
    \/ \E d \in Devices, s \in {"active", "revoked"} : AdminDecides(d, s)

\* Every step is one of these.
LEMMA StepCases ==
  ASSUME Next
  PROVE  \/ \E p \in Processes :
              Begins(p) \/ Asks(p) \/ Proceeds(p) \/ HandleCancel(p) \/ Kill(p)
         \/ Environment
  <1> USE DEF Processes
  <1>1. ASSUME NEW p \in Processes, Exchange(p) PROVE Asks(p)
    <2>1. Grant(proc[p]) \in Answers
      BY DEF Grant, Answers
    <2> QED
      BY <1>1, <2>1 DEF Exchange, Asks, DeviceToken, Unreachable, ServerError, Discovered, Answers
  <1>2. ASSUME NEW c \in Commands, Page(c)
        PROVE  Begins(c) \/ Proceeds(c) \/ HandleCancel(c)
    BY <1>2 DEF Page, Command, RunEnroll, RunRenew, RunRotate, RunUnenroll, Enroll,
         Begins, Proceeds
  <1>3. RunDaemon => Begins(Daemon) \/ Proceeds(Daemon) \/ Environment
    BY DEF RunDaemon, DaemonStep, Begins, Proceeds, Environment
  <1> QED
    BY <1>1, <1>2, <1>3 DEF Next, Environment

LEMMA IdleFits == Idle \in Operation /\ Fits(Idle)
  BY DEF Idle, Operation, Fits, Ops, Answers, PCs, Backends, Issuers

\* A step of an operation puts an operation in its place that fits its program
\* counter, and no other operation moves.
LEMMA OneMoves ==
  ASSUME Control, Next
  PROVE  \/ UNCHANGED proc
         \/ \E p \in Processes :
              \E r \in Operation : Fits(r) /\ proc' = [proc EXCEPT ![p] = r]
  <1> DEFINE Moved(p) == \E r \in Operation : Fits(r) /\ proc' = [proc EXCEPT ![p] = r]
  <1> USE DEF Control
  <1>1. ASSUME NEW p \in Processes, Begins(p) PROVE Moved(p)
    <2>1. ASSUME NEW op \in {"renew", "rotate", "unenroll"}, NEW to \in Backends, Opens
          PROVE  Opened(op, to) \in Operation /\ Fits(Opened(op, to))
      <3>1. record \in Record /\ LoadKey \in Keys /\ record.issuer \in Issuers
        BY <2>1 DEF Opens, LoadKey, Record
      <3> QED
        BY <3>1 DEF Opened, Idle, Operation, Fits, Ops, Answers, PCs, Backends, Issuers
    <2>2. ASSUME NEW to \in Backends
          PROVE  /\ [Idle EXCEPT !.op = "enroll", !.pc = "generate", !.to = to] \in Operation
                 /\ Fits([Idle EXCEPT !.op = "enroll", !.pc = "generate", !.to = to])
      BY <2>2 DEF Idle, Operation, Fits, Ops, Answers, PCs, Backends, Issuers
    <2>3. CASE Renew(p)
      BY <2>1, <2>3 DEF Renew, Begin, Backends
    <2>4. ASSUME NEW b \in BackendArgs, RotateKeyTo(p, b) PROVE Moved(p)
      <3> DEFINE to == IF b = "" THEN record.backend ELSE b
      <3>1. Opens /\ proc' = [proc EXCEPT ![p] = Opened("rotate", to)]
        BY <2>4 DEF RotateKeyTo, Begin
      <3>2. to \in Backends
        BY <3>1, AgentAssumption DEF Opens, Record
      <3> HIDE DEF to
      <3> QED
        BY <2>1, <3>1, <3>2
    <2>5. CASE Unenroll(p)
      <3>1. CASE Opens /\ Begin(p, Opened("unenroll", "file"))
        BY <2>1, <3>1 DEF Begin, Backends
      <3>2. CASE Begin(p, [Idle EXCEPT !.op = "unenroll", !.pc = "rmRecord"])
        <4>1. /\ [Idle EXCEPT !.op = "unenroll", !.pc = "rmRecord"] \in Operation
              /\ Fits([Idle EXCEPT !.op = "unenroll", !.pc = "rmRecord"])
          BY DEF Idle, Operation, Fits, Ops, Answers, PCs, Backends, Issuers
        <4> QED
          BY <3>2, <4>1 DEF Begin
      <3> QED
        BY <2>5, <3>1, <3>2 DEF Unenroll
    <2>6. ASSUME NEW b \in Backends, BeginEnrollment(p, b) PROVE Moved(p)
      BY <2>2, <2>6 DEF BeginEnrollment, Begin
    <2> QED
      BY <1>1, <2>3, <2>4, <2>5, <2>6 DEF Begins
  <1>2. ASSUME NEW p \in Processes PROVE Wiping(p) \in Operation /\ Fits(Wiping(p))
    BY DEF Wiping, Idle, Operation, Fits, Ops, Answers, PCs, Backends, Issuers
  <1>3. ASSUME NEW p \in Processes, Asks(p) PROVE Moved(p)
    <2>1. proc[p] \in Operation /\ Fits(proc[p])
      OBVIOUS
    <2>2. CASE FollowIssuerMove(p)
      <3>1. proc[p].st \in Record /\ At(p, "token")
        BY <2>1, <2>2 DEF FollowIssuerMove, At, Fits
      <3> DEFINE r == [proc[p] EXCEPT !.st = [proc[p].st EXCEPT !.issuer = home]]
      <3>2. proc' = [proc EXCEPT ![p] = r]
        BY <2>2, <2>1 DEF FollowIssuerMove, Operation
      <3>3. [proc[p].st EXCEPT !.issuer = home] \in Record
        BY <3>1 DEF Record
      <3>4. r \in Operation /\ Fits(r)
        BY <2>1, <3>1, <3>3 DEF Operation, Fits, At
      <3> QED
        BY <3>2, <3>4
    <2>3. ASSUME At(p, "token"), NEW a \in Answers, Told(p, a) PROVE Moved(p)
      <3> DEFINE op == proc[p].op
                 r == CASE op = "renew" -> [Idle EXCEPT !.op = op, !.pc = "save",
                                                        !.st = proc[p].st, !.ans = a]
                        [] op = "rotate" /\ a = "active" -> [proc[p] EXCEPT !.pc = "rotate"]
                        [] op = "unenroll" /\ a = "active" -> [proc[p] EXCEPT !.pc = "revoke"]
                        [] op = "unenroll" /\ a # "active" -> Wiping(p)
                        [] OTHER -> Idle
      <3>1. proc' = [proc EXCEPT ![p] = r]
        BY <2>3 DEF Told
      <3>2. proc[p].st \in Record /\ op \in {"renew", "rotate", "unenroll"}
        BY <2>1, <2>3 DEF At, Fits
      <3>3. CASE op = "renew"
        <4>1. r = [Idle EXCEPT !.op = op, !.pc = "save", !.st = proc[p].st, !.ans = a]
          BY <3>3
        <4>2. r \in Operation /\ Fits(r)
          BY <3>2, <3>3, <4>1 DEF Idle, Operation, Fits, Ops, PCs, Backends, Issuers
        <4> QED
          BY <3>1, <4>2
      <3>4. CASE op = "rotate"
        <4>1. r = IF a = "active" THEN [proc[p] EXCEPT !.pc = "rotate"] ELSE Idle
          BY <3>4
        <4>2. [proc[p] EXCEPT !.pc = "rotate"] \in Operation
              /\ Fits([proc[p] EXCEPT !.pc = "rotate"])
          BY <2>1, <3>2, <3>4 DEF Operation, Fits, PCs
        <4> HIDE DEF r
        <4> QED
          BY <3>1, <4>1, <4>2, IdleFits
      <3>5. CASE op = "unenroll"
        <4>1. r = IF a = "active" THEN [proc[p] EXCEPT !.pc = "revoke"] ELSE Wiping(p)
          BY <3>5
        <4>2. [proc[p] EXCEPT !.pc = "revoke"] \in Operation
              /\ Fits([proc[p] EXCEPT !.pc = "revoke"])
          BY <2>1, <3>2, <3>5 DEF Operation, Fits, PCs
        <4> HIDE DEF r
        <4> QED
          BY <3>1, <4>1, <4>2, <1>2
      <3> QED
        BY <3>2, <3>3, <3>4, <3>5
    <2> QED
      BY <1>3, <2>2, <2>3 DEF Asks
  <1>4. ASSUME NEW p \in Processes, Proceeds(p) PROVE Moved(p)
    <2>1. proc[p] \in Operation /\ Fits(proc[p])
      OBVIOUS
    <2>2. CASE RenewSave(p) \/ RotateRefused(p) \/ RotateSave(p) \/ RemoveKey(p) \/ EnrollSave(p)
      BY <2>2, IdleFits DEF RenewSave, RotateRefused, RotateSave, RemoveKey, EnrollSave, Return
    <2>3. CASE Abort(p) \/ \E reached \in BOOLEAN : RevokeSelf(p, reached)
      BY <2>3, <1>2 DEF Abort, RevokeSelf
    <2>4. ASSUME NEW heard \in BOOLEAN, RotateAccepted(p, heard) PROVE Moved(p)
      <3>1. NewKey \in Keys
        BY <2>4 DEF RotateAccepted, NewKey
      <3>2. CASE heard
        <4> DEFINE r == [proc[p] EXCEPT !.pc = "commit", !.new = NewKey, !.key = None]
        <4>1. proc' = [proc EXCEPT ![p] = r] /\ proc[p].pc = "rotate"
          BY <2>1, <2>4, <3>2 DEF RotateAccepted, Operation, At
        <4>2. r \in Operation /\ Fits(r)
          BY <2>1, <3>1, <4>1 DEF Operation, Fits, PCs
        <4> QED
          BY <4>1, <4>2
      <3>3. CASE ~heard
        BY <2>4, <3>3, IdleFits DEF RotateAccepted, Return
      <3> QED
        BY <3>2, <3>3
    <2>5. ASSUME NEW l \in {"save", "rmKey", "register"}, Goto(p, l),
                 \/ proc[p].pc = "commit" /\ l = "save"
                 \/ proc[p].pc = "rmRecord" /\ l = "rmKey"
                 \/ proc[p].pc = "wait" /\ l = "register"
          PROVE  Moved(p)
      <3> DEFINE r == [proc[p] EXCEPT !.pc = l]
      <3>1. proc' = [proc EXCEPT ![p] = r]
        BY <2>1, <2>5 DEF Goto, Operation
      <3>2. r \in Operation /\ Fits(r)
        BY <2>1, <2>5 DEF Operation, Fits, PCs
      <3> QED
        BY <3>1, <3>2
    <2>6. CASE CommitKey(p) \/ RemoveRecord(p) \/ UserApproves(p)
      BY <2>5, <2>6 DEF CommitKey, RemoveRecord, UserApproves, At
    <2>7. CASE GenerateKey(p)
      <3>1. NewKey \in Keys
        BY <2>7 DEF GenerateKey, NewKey
      <3> DEFINE r == [proc[p] EXCEPT !.key = NewKey, !.aud = home, !.pc = "wait"]
      <3>2. proc' = [proc EXCEPT ![p] = r] /\ proc[p].pc = "generate"
        BY <2>1, <2>7 DEF GenerateKey, Operation, At
      <3>3. r \in Operation /\ Fits(r)
        BY <2>1, <3>1, <3>2 DEF Operation, Fits, PCs
      <3> QED
        BY <3>2, <3>3
    <2>8. ASSUME NEW s \in {"active", "pending"}, NEW heard \in BOOLEAN, Register(p, s, heard)
          PROVE  Moved(p)
      <3>1. NewDevice \in Devices
        BY <2>8 DEF Register, NewDevice
      <3> DEFINE st == [dev |-> NewDevice, fp |-> proc[p].key, status |-> s,
                        backend |-> proc[p].to, issuer |-> proc[p].aud]
      <3>2. proc[p].key \in Keys /\ proc[p].to \in Backends /\ proc[p].aud \in Issuers
        BY <2>1, <2>8 DEF Register, At, Fits, Operation
      <3>3. st \in Record
        BY <3>1, <3>2 DEF Record
      <3>4. proc' = [proc EXCEPT ![p] =
               IF ~heard THEN Wiping(p)
               ELSE [Idle EXCEPT !.op = "enroll", !.pc = "save", !.st = st]]
        BY <2>8 DEF Register
      <3> HIDE DEF st
      <3>5. /\ [Idle EXCEPT !.op = "enroll", !.pc = "save", !.st = st] \in Operation
            /\ Fits([Idle EXCEPT !.op = "enroll", !.pc = "save", !.st = st])
        BY <3>3 DEF Idle, Operation, Fits, Ops, Answers, PCs, Backends, Issuers
      <3> QED
        BY <1>2, <3>4, <3>5
    <2> QED
      BY <1>4, <2>2, <2>3, <2>4, <2>6, <2>7, <2>8 DEF Proceeds
  <1>5. ASSUME NEW p \in Processes, HandleCancel(p) PROVE Moved(p)
    <2>1. proc[p] \in Operation /\ Fits(proc[p])
      OBVIOUS
    <2> DEFINE r == [proc[p] EXCEPT !.cancelled = TRUE]
    <2>2. proc' = [proc EXCEPT ![p] = r]
      BY <1>5, <2>1 DEF HandleCancel, Operation
    <2>3. r \in Operation /\ Fits(r)
      BY <2>1 DEF Operation, Fits
    <2> QED
      BY <2>2, <2>3
  <1>6. ASSUME NEW p \in Processes, Kill(p) PROVE Moved(p)
    BY <1>6, IdleFits DEF Kill, Return
  <1>7. Environment => UNCHANGED proc
    BY DEF Environment, DaemonStart, DaemonPanics, IssuerMoves, AdminDecides
  <1> HIDE DEF Moved
  <1>8. UNCHANGED proc \/ \E p \in Processes : Moved(p)
    BY <1>1, <1>3, <1>4, <1>5, <1>6, <1>7, StepCases
  <1> QED
    BY <1>8 DEF Moved

\* Who writes what: the steps that change the server's table, the key files
\* and the record.
LEMMA ServerWriters ==
  ASSUME Next
  PROVE  \/ UNCHANGED server
         \/ \E p \in Processes :
              \/ \E heard \in BOOLEAN : RotateAccepted(p, heard)
              \/ \E reached \in BOOLEAN : RevokeSelf(p, reached)
              \/ \E s \in {"active", "pending"}, heard \in BOOLEAN : Register(p, s, heard)
         \/ \E d \in Devices, s \in {"active", "revoked"} : AdminDecides(d, s)
  BY StepCases DEF Begins, Begin, Renew, RotateKeyTo, Unenroll, BeginEnrollment,
       Asks, FollowIssuerMove, Told, Proceeds, RenewSave, RotateRefused, CommitKey,
       RotateSave, RemoveRecord, RemoveKey, GenerateKey, UserApproves, Abort, EnrollSave,
       HandleCancel, Kill, Environment, DaemonStart, DaemonPanics, IssuerMoves

LEMMA FileWriters ==
  ASSUME Next
  PROVE  \/ UNCHANGED <<file, blob>>
         \/ file' = None /\ blob' = None
         \/ \E p \in Processes : CommitKey(p) \/ GenerateKey(p)
  <1> USE DEF disk
  <1>1. ASSUME NEW p \in Processes, Begins(p) \/ Asks(p)
        PROVE  UNCHANGED <<file, blob>>
    BY <1>1 DEF Begins, Begin, Renew, RotateKeyTo, Unenroll, BeginEnrollment, Asks,
         FollowIssuerMove, Told
  <1>2. ASSUME NEW p \in Processes, Proceeds(p), ~CommitKey(p), ~GenerateKey(p)
        PROVE  UNCHANGED <<file, blob>> \/ (file' = None /\ blob' = None)
    BY <1>2 DEF Proceeds, RenewSave, RotateAccepted, RotateRefused, RotateSave,
         RevokeSelf, RemoveRecord, RemoveKey, UserApproves, Abort, EnrollSave, Register
  <1>3. ASSUME NEW p \in Processes, HandleCancel(p) \/ Kill(p)
        PROVE  UNCHANGED <<file, blob>> \/ (file' = None /\ blob' = None)
    BY <1>3 DEF HandleCancel, Kill
  <1>4. Environment => UNCHANGED <<file, blob>>
    BY DEF Environment, DaemonStart, DaemonPanics, IssuerMoves, AdminDecides
  <1> QED
    BY <1>1, <1>2, <1>3, <1>4, StepCases

LEMMA RecordWriters ==
  ASSUME Next
  PROVE  \/ UNCHANGED record
         \/ record' = None
         \/ \E p \in Processes :
              FollowIssuerMove(p) \/ RenewSave(p) \/ RotateSave(p) \/ EnrollSave(p)
  BY StepCases DEF Begins, Begin, Renew, RotateKeyTo, Unenroll, BeginEnrollment,
       Asks, Told, Proceeds, RotateAccepted, RotateRefused, CommitKey,
       RevokeSelf, RemoveRecord, RemoveKey, GenerateKey, UserApproves, Abort,
       Register, HandleCancel, Kill, Environment, DaemonStart, DaemonPanics, IssuerMoves,
       AdminDecides, disk

\* The server never forgets a key it accepted, and a device number is taken
\* once.
LEMMA ServerStep ==
  ASSUME Control, Next
  PROVE  /\ server' \in [Devices -> Row]
         /\ \A d \in Devices : /\ server[d].keys \subseteq server'[d].keys
                               /\ server'[d].status = "none" => server'[d] = NoRow
  <1> DEFINE Goal == /\ server' \in [Devices -> Row]
                     /\ \A d \in Devices :
                          /\ server[d].keys \subseteq server'[d].keys
                          /\ server'[d].status = "none" => server'[d] = NoRow
  <1> USE DEF Control
  <1>1. ASSUME NEW p \in Processes, NEW heard \in BOOLEAN, RotateAccepted(p, heard)
        PROVE  Goal
    <2> DEFINE d == proc[p].st.dev
    <2>1. proc[p].st \in Record /\ NewKey \in Keys
      BY <1>1 DEF RotateAccepted, At, Fits, NewKey
    <2>2. d \in Devices /\ server[d].status = "active"
      BY <1>1, <2>1 DEF RotateAccepted, Holds, Record
    <2>3. server' = [server EXCEPT ![d].key = NewKey, ![d].keys = @ \cup {NewKey}]
      BY <1>1 DEF RotateAccepted
    <2> HIDE DEF d
    <2>4. /\ server'[d] = [server[d] EXCEPT !.key = NewKey,
                                            !.keys = server[d].keys \cup {NewKey}]
          /\ \A e \in Devices : e # d => server'[e] = server[e]
          /\ server' = [e \in Devices |-> server'[e]]
      BY <2>2, <2>3 DEF Row
    <2>5. /\ server'[d] \in Row /\ server'[d].status = "active"
          /\ server[d].keys \subseteq server'[d].keys
      <3> DEFINE r == server[d]
                 K == r.keys \cup {NewKey}
      <3>1. r \in Row /\ r.status = "active"
        BY <2>2
      <3>2. server'[d] = [r EXCEPT !.key = NewKey, !.keys = K]
        BY <2>4
      <3>3. K \in SUBSET Keys
        BY <2>1, <3>1 DEF Row
      <3> HIDE DEF r, K
      <3>4. server'[d] \in Row /\ server'[d].status = "active" /\ server'[d].keys = K
        BY <2>1, <3>1, <3>2, <3>3 DEF Row
      <3> QED
        BY <3>4 DEF K, r
    <2>6. \A e \in Devices : server'[e] \in Row
      BY <2>4, <2>5
    <2> QED
      BY <2>4, <2>5, <2>6
  <1>2. ASSUME NEW d \in Devices, NEW s \in {"active", "revoked"},
               server' = [server EXCEPT ![d].status = s]
        PROVE  Goal
    <2>1. /\ server'[d] = [server[d] EXCEPT !.status = s]
          /\ \A e \in Devices : e # d => server'[e] = server[e]
          /\ server' = [e \in Devices |-> server'[e]]
      BY <1>2 DEF Row
    <2>2. /\ server'[d] \in Row /\ server'[d].status # "none"
          /\ server[d].keys \subseteq server'[d].keys
      BY <2>1 DEF Row
    <2> QED
      BY <2>1, <2>2
  <1>3. ASSUME NEW p \in Processes, NEW reached \in BOOLEAN, RevokeSelf(p, reached)
        PROVE  Goal
    <2>1. proc[p].st.dev \in Devices
      BY <1>3 DEF RevokeSelf, At, Fits, Record
    <2>2. server' = server \/ server' = [server EXCEPT ![proc[p].st.dev].status = "revoked"]
      BY <1>3 DEF RevokeSelf
    <2>3. CASE server' = server
      BY <2>3
    <2> HIDE DEF Goal
    <2> QED
      BY <1>2, <2>1, <2>2, <2>3
  <1>4. ASSUME NEW p \in Processes, NEW s \in {"active", "pending"}, NEW heard \in BOOLEAN,
               Register(p, s, heard)
        PROVE  Goal
    <2> DEFINE r == [status |-> s, key |-> proc[p].key, keys |-> {proc[p].key}]
    <2>1. NewDevice \in Devices /\ server[NewDevice].status = "none"
      BY <1>4 DEF Register, NewDevice
    <2>2. proc[p].key \in Keys
      BY <1>4 DEF Register, At, Fits
    <2>3. server' = [server EXCEPT ![NewDevice] = r]
      BY <1>4 DEF Register
    <2>4. r \in Row /\ r.status # "none"
      BY <2>2 DEF Row
    <2>5. server[NewDevice].keys = {}
      BY <2>1 DEF NoRow
    <2> HIDE DEF r
    <2> QED
      BY <2>1, <2>3, <2>4, <2>5
  <1>5. CASE UNCHANGED server
    BY <1>5
  <1>6. ASSUME NEW d \in Devices, NEW s \in {"active", "revoked"}, AdminDecides(d, s)
        PROVE  server' = [server EXCEPT ![d].status = s]
    BY <1>6 DEF AdminDecides
  <1>7. CASE \E p \in Processes :
              \/ \E heard \in BOOLEAN : RotateAccepted(p, heard)
              \/ \E reached \in BOOLEAN : RevokeSelf(p, reached)
              \/ \E s \in {"active", "pending"}, heard \in BOOLEAN : Register(p, s, heard)
    BY <1>1, <1>3, <1>4, <1>7
  <1>8. CASE \E d \in Devices, s \in {"active", "revoked"} : AdminDecides(d, s)
    BY <1>2, <1>6, <1>8
  <1>9. Goal
    BY <1>5, <1>7, <1>8, ServerWriters
  <1> QED
    BY <1>9 DEF Goal

\* The record a renewal writes back is a record, whatever the answer was.
LEMMA RenewedTyped ==
  ASSUME Control, NEW p \in Processes, RenewSave(p)
  PROVE  record' \in Record
  <1>1. proc[p].st \in Record /\ proc[p].ans \in Answers
    BY DEF RenewSave, Control, At, Fits, Operation
  <1>2. CASE proc[p].ans = "unreachable"
    BY <1>1, <1>2 DEF RenewSave, Renewed, Record
  <1>3. CASE proc[p].ans = "refused"
    BY <1>1, <1>3 DEF RenewSave, Renewed, Record
  <1>4. CASE proc[p].ans \in {"active", "pending"}
    <2>1. Renewed(proc[p]) = proc[p].ans
      BY <1>4 DEF Renewed
    <2> QED
      BY <1>1, <1>4, <2>1 DEF RenewSave, Record
  <1> QED
    BY <1>1, <1>2, <1>3, <1>4 DEF Answers

\* Every step keeps the control layer.
LEMMA ControlStep == ASSUME Control, Next PROVE Control'
  <1>1. record' \in Record \cup {None}
    <2>1. ASSUME NEW p \in Processes, FollowIssuerMove(p) PROVE record' \in Record
      BY <2>1 DEF FollowIssuerMove, Control, At, Fits, Operation, Record
    <2>2. ASSUME NEW p \in Processes, RenewSave(p) PROVE record' \in Record
      BY <2>2, RenewedTyped
    <2>3. ASSUME NEW p \in Processes, RotateSave(p) PROVE record' \in Record
      BY <2>3 DEF RotateSave, Control, At, Fits, Operation, Record
    <2>4. ASSUME NEW p \in Processes, EnrollSave(p) PROVE record' \in Record
      BY <2>4 DEF EnrollSave, Control, At, Fits
    <2>5. CASE UNCHANGED record
      BY <2>5 DEF Control
    <2> QED
      BY <2>1, <2>2, <2>3, <2>4, <2>5, RecordWriters
  <1>2. file' \in Keys \cup {None} /\ blob' \in Keys \cup {None}
    <2>1. ASSUME NEW p \in Processes, CommitKey(p)
          PROVE  file' \in Keys \cup {None} /\ blob' \in Keys \cup {None}
      BY <2>1 DEF CommitKey, Control, At, Fits
    <2>2. ASSUME NEW p \in Processes, GenerateKey(p)
          PROVE  file' \in Keys \cup {None} /\ blob' \in Keys \cup {None}
      BY <2>2 DEF GenerateKey, NewKey, Control
    <2> QED
      BY <2>1, <2>2, FileWriters DEF Control
  <1>3. home' \in Issuers /\ fresh' \subseteq Keys
    <2>1. ASSUME NEW p \in Processes, Begins(p) \/ Asks(p) \/ HandleCancel(p) \/ Kill(p)
          PROVE  UNCHANGED <<home, fresh>>
      BY <2>1 DEF Begins, Begin, Renew, RotateKeyTo, Unenroll, BeginEnrollment, Asks,
           FollowIssuerMove, Told, HandleCancel, Kill
    <2>2. ASSUME NEW p \in Processes, Proceeds(p)
          PROVE  UNCHANGED home /\ fresh' \subseteq fresh
      BY <2>2 DEF Proceeds, RenewSave, RotateAccepted, RotateRefused, CommitKey, RotateSave,
           RevokeSelf, RemoveRecord, RemoveKey, GenerateKey, UserApproves, Abort, EnrollSave,
           Register
    <2>3. Environment => home' \in {home, "new"} /\ UNCHANGED fresh
      BY DEF Environment, DaemonStart, DaemonPanics, IssuerMoves, AdminDecides
    <2> QED
      BY <2>1, <2>2, <2>3, StepCases DEF Control, Issuers
  <1>4. proc' \in [Processes -> Operation] /\ \A p \in Processes : Fits(proc'[p])
    BY OneMoves DEF Control
  <1> QED
    BY <1>1, <1>2, <1>3, <1>4, ServerStep DEF Control, Fits

-----------------------------------------------------------------------------
(* Accepted keys.                                                          *)

\* What was accepted stays accepted.
LEMMA StillAccepted ==
  ASSUME Control, Next
  PROVE  /\ \A s \in Record : Accepted(server, s) => Accepted(server', s)
         /\ \A r \in Operation : Fits(r) /\ Carries(server, r) => Carries(server', r)
  <1>1. ASSUME NEW s \in Record, Accepted(server, s) PROVE Accepted(server', s)
    BY <1>1, ServerStep DEF Accepted, Record
  <1>2. ASSUME NEW r \in Operation, Fits(r), Carries(server, r) PROVE Carries(server', r)
    <2>1. r.st # None => r.st \in Record
      BY DEF Operation
    <2>2. r.pc = "commit" \/ (r.pc = "save" /\ r.op = "rotate") => r.st.dev \in Devices
      BY <1>2 DEF Fits, Record
    <2> QED
      BY <1>1, <1>2, <2>1, <2>2, ServerStep DEF Carries
  <1> QED
    BY <1>1, <1>2

\* An operation that moves carries what was accepted, before or by the move.
LEMMA MoverCarries ==
  ASSUME Control, AcceptedInv, Next, NEW p \in Processes,
         Begins(p) \/ Asks(p) \/ Proceeds(p) \/ HandleCancel(p) \/ Kill(p)
  PROVE  Carries(server', proc'[p])
  <1> proc \in [Processes -> Operation] /\ proc[p] \in Operation /\ Fits(proc[p])
    BY DEF Control
  <1>0. Carries(server', proc[p])
    BY StillAccepted DEF AcceptedInv
  <1>1. ASSUME NEW r, proc'[p] = r, r.st = None, r.pc \notin {"commit", "save"}
        PROVE  Carries(server', proc'[p])
    BY <1>1 DEF Carries
  <1>2. Idle.st = None /\ Idle.pc \notin {"commit", "save"}
    BY DEF Idle
  <1>3. Wiping(p).st = None /\ Wiping(p).pc \notin {"commit", "save"}
    BY DEF Wiping, Idle
  <1>4. CASE Begins(p)
    <2>1. ASSUME NEW op, NEW to, Opens, proc'[p] = Opened(op, to)
          PROVE  Carries(server', proc'[p])
      <3>1. proc'[p].st = record /\ proc'[p].pc = "token" /\ record \in Record
        BY <2>1 DEF Opened, Idle, Opens, Control
      <3>2. Accepted(server, record)
        BY <2>1 DEF AcceptedInv, Opens
      <3> QED
        BY <3>1, <3>2, StillAccepted DEF Carries
    <2>2. CASE Renew(p) \/ \E b \in BackendArgs : RotateKeyTo(p, b)
      BY <2>1, <2>2 DEF Renew, RotateKeyTo, Begin
    <2>3. CASE Unenroll(p)
      <3>1. CASE Begin(p, [Idle EXCEPT !.op = "unenroll", !.pc = "rmRecord"])
        BY <3>1 DEF Begin, Idle, Carries
      <3> QED
        BY <2>1, <2>3, <3>1 DEF Unenroll, Begin
    <2>4. ASSUME NEW b \in Backends, BeginEnrollment(p, b) PROVE Carries(server', proc'[p])
      BY <2>4 DEF BeginEnrollment, Begin, Idle, Carries
    <2> QED
      BY <1>4, <2>2, <2>3, <2>4 DEF Begins
  <1>5. CASE Asks(p)
    <2>0. proc[p].pc = "token" /\ proc[p].st \in Record /\ Accepted(server, proc[p].st)
      BY <1>5, RecordAssumption
         DEF Asks, FollowIssuerMove, At, Fits, AcceptedInv, Carries
    <2>1. CASE FollowIssuerMove(p)
      <3>1. /\ proc'[p].pc = "token"
            /\ proc'[p].st = [proc[p].st EXCEPT !.issuer = home]
        BY <2>0, <2>1 DEF FollowIssuerMove, Operation
      <3>2. /\ proc'[p].st \in Record /\ Accepted(server, proc'[p].st)
        BY <2>0, <3>1 DEF Record, Control, Accepted
      <3> QED
        BY <3>1, <3>2, StillAccepted DEF Carries
    <2>2. ASSUME NEW a \in Answers, Told(p, a) PROVE Carries(server', proc'[p])
      <3>1. CASE proc[p].op = "renew"
        <4>1. proc'[p] = [Idle EXCEPT !.op = proc[p].op, !.pc = "save",
                                      !.st = proc[p].st, !.ans = a]
          BY <2>2, <3>1 DEF Told
        <4>2. proc'[p].st = proc[p].st /\ proc'[p].pc = "save" /\ proc'[p].op = "renew"
          BY <3>1, <4>1 DEF Idle
        <4> QED
          BY <2>0, <4>2, StillAccepted DEF Carries
      <3>2. CASE proc[p].op = "rotate"
        <4>1. proc'[p] = IF a = "active" THEN [proc[p] EXCEPT !.pc = "rotate"] ELSE Idle
          BY <2>2, <3>2 DEF Told
        <4>2. CASE a = "active"
          <5>1. proc'[p].st = proc[p].st /\ proc'[p].pc = "rotate"
            BY <4>1, <4>2 DEF Operation
          <5> QED
            BY <2>0, <5>1, StillAccepted DEF Carries
        <4> QED
          BY <1>1, <1>2, <4>1, <4>2
      <3>3. CASE proc[p].op = "unenroll"
        <4>1. proc'[p] = IF a = "active" THEN [proc[p] EXCEPT !.pc = "revoke"] ELSE Wiping(p)
          BY <2>2, <3>3 DEF Told
        <4>2. CASE a = "active"
          <5>1. proc'[p].st = proc[p].st /\ proc'[p].pc = "revoke"
            BY <4>1, <4>2 DEF Operation
          <5> QED
            BY <2>0, <5>1, StillAccepted DEF Carries
        <4> QED
          BY <1>1, <1>3, <4>1, <4>2
      <3> QED
        BY <2>0, <3>1, <3>2, <3>3 DEF Fits
    <2> QED
      BY <1>5, <2>1, <2>2 DEF Asks
  <1>6. CASE Proceeds(p)
    <2>1. CASE RenewSave(p) \/ RotateRefused(p) \/ RotateSave(p) \/ RemoveKey(p) \/ EnrollSave(p)
      BY <1>1, <1>2, <2>1
         DEF RenewSave, RotateRefused, RotateSave, RemoveKey, EnrollSave, Return
    <2>2. CASE Abort(p) \/ \E reached \in BOOLEAN : RevokeSelf(p, reached)
      BY <1>1, <1>3, <2>2 DEF Abort, RevokeSelf
    <2>3. ASSUME NEW heard \in BOOLEAN, RotateAccepted(p, heard) PROVE Carries(server', proc'[p])
      <3>1. CASE ~heard
        BY <1>1, <1>2, <2>3, <3>1 DEF RotateAccepted, Return
      <3>2. CASE heard
        <4> DEFINE d == proc[p].st.dev
        <4>1. proc[p].st \in Record /\ Accepted(server, proc[p].st) /\ d \in Devices
          BY <2>3, RecordAssumption DEF RotateAccepted, At, Fits, AcceptedInv, Carries, Record
        <4>2. proc' = [proc EXCEPT ![p].pc = "commit", ![p].new = NewKey, ![p].key = None]
          BY <2>3, <3>2 DEF RotateAccepted
        <4>3. proc'[p].st = proc[p].st /\ proc'[p].new = NewKey
          BY <4>2 DEF Operation
        <4>4. server' = [server EXCEPT ![d].key = NewKey, ![d].keys = @ \cup {NewKey}]
          BY <2>3 DEF RotateAccepted
        <4>5. server[d] \in Row
          BY <4>1 DEF Control
        <4> HIDE DEF d
        <4>6. server'[d].keys = server[d].keys \cup {NewKey}
          BY <4>1, <4>4, <4>5 DEF Control, Row
        <4> QED
          BY <4>1, <4>3, <4>6, StillAccepted DEF Carries, d
      <3> QED
        BY <3>1, <3>2
    <2>4. ASSUME NEW l \in {"save", "rmKey", "register"}, Goto(p, l),
                 \/ proc[p].pc = "commit" /\ l = "save"
                 \/ proc[p].pc = "rmRecord" /\ l = "rmKey"
                 \/ proc[p].pc = "wait" /\ l = "register"
          PROVE  Carries(server', proc'[p])
      <3>1. /\ proc'[p].st = proc[p].st /\ proc'[p].new = proc[p].new
            /\ proc'[p].pc = l
        BY <2>4 DEF Goto, Operation
      <3> QED
        BY <1>0, <2>4, <3>1 DEF Carries
    <2>5. CASE CommitKey(p) \/ RemoveRecord(p) \/ UserApproves(p)
      BY <2>4, <2>5 DEF CommitKey, RemoveRecord, UserApproves, At
    <2>6. CASE GenerateKey(p)
      <3>1. proc'[p].st = proc[p].st /\ proc'[p].pc = "wait"
        BY <2>6 DEF GenerateKey, Operation
      <3> QED
        BY <1>0, <3>1 DEF Carries
    <2>7. ASSUME NEW s \in {"active", "pending"}, NEW heard \in BOOLEAN, Register(p, s, heard)
          PROVE  Carries(server', proc'[p])
      <3> DEFINE st == [dev |-> NewDevice, fp |-> proc[p].key, status |-> s,
                        backend |-> proc[p].to, issuer |-> proc[p].aud]
      <3>1. proc'[p] = IF ~heard THEN Wiping(p)
               ELSE [Idle EXCEPT !.op = "enroll", !.pc = "save", !.st = st]
        BY <2>7 DEF Register
      <3>2. st.dev = NewDevice /\ st.fp = proc[p].key
        OBVIOUS
      <3>3. NewDevice \in Devices
        BY <2>7 DEF Register, NewDevice
      <3>4. server'[NewDevice].keys = {proc[p].key}
        BY <2>7, <3>3 DEF Register, Control
      <3> HIDE DEF st
      <3>5. CASE heard
        <4>1. proc'[p].st = st /\ proc'[p].pc = "save" /\ proc'[p].op = "enroll"
          BY <3>1, <3>5 DEF Idle
        <4> QED
          BY <3>2, <3>4, <4>1 DEF Carries, Accepted
      <3> QED
        BY <1>1, <1>3, <3>1, <3>5
    <2> QED
      BY <1>6, <2>1, <2>2, <2>3, <2>5, <2>6, <2>7 DEF Proceeds
  <1>7. CASE HandleCancel(p)
    <2>1. /\ proc'[p].st = proc[p].st /\ proc'[p].new = proc[p].new
          /\ proc'[p].pc = proc[p].pc /\ proc'[p].op = proc[p].op
      BY <1>7 DEF HandleCancel, Operation
    <2> QED
      BY <1>0, <2>1 DEF Carries
  <1>8. CASE Kill(p)
    BY <1>1, <1>2, <1>8 DEF Kill, Return
  <1> QED
    BY <1>4, <1>5, <1>6, <1>7, <1>8

\* A step of one operation leaves the others where they are.
LEMMA OthersRest ==
  ASSUME Control, NEW p \in Processes,
         Begins(p) \/ Asks(p) \/ Proceeds(p) \/ HandleCancel(p) \/ Kill(p)
  PROVE  \A o \in Processes : o # p => proc'[o] = proc[o]
  <1> proc \in [Processes -> Operation]
    BY DEF Control
  <1>1. ASSUME Begins(p) \/ Asks(p) \/ HandleCancel(p) \/ Kill(p)
        PROVE  \A o \in Processes : o # p => proc'[o] = proc[o]
    BY <1>1 DEF Begins, Begin, Renew, RotateKeyTo, Unenroll, BeginEnrollment, Asks,
         FollowIssuerMove, Told, HandleCancel, Kill, Return
  <1>2. ASSUME Proceeds(p)
        PROVE  \A o \in Processes : o # p => proc'[o] = proc[o]
    <2>1. ASSUME NEW heard \in BOOLEAN, RotateAccepted(p, heard)
          PROVE  \A o \in Processes : o # p => proc'[o] = proc[o]
      BY <2>1 DEF RotateAccepted, Return
    <2>2. ASSUME NEW s \in {"active", "pending"}, NEW heard \in BOOLEAN, Register(p, s, heard)
          PROVE  \A o \in Processes : o # p => proc'[o] = proc[o]
      BY <2>2 DEF Register
    <2>3. CASE \E reached \in BOOLEAN : RevokeSelf(p, reached)
      BY <2>3 DEF RevokeSelf
    <2>4. CASE RenewSave(p) \/ RotateRefused(p) \/ RotateSave(p) \/ RemoveKey(p)
               \/ EnrollSave(p) \/ Abort(p) \/ CommitKey(p) \/ RemoveRecord(p)
               \/ UserApproves(p) \/ GenerateKey(p)
      BY <2>4 DEF RenewSave, RotateRefused, RotateSave, RemoveKey, EnrollSave, Abort,
           CommitKey, RemoveRecord, UserApproves, GenerateKey, Return, Goto
    <2> QED
      BY <1>2, <2>1, <2>2, <2>3, <2>4 DEF Proceeds
  <1> QED
    BY <1>1, <1>2

\* The environment's steps change no file and no operation.
LEMMA EnvironmentRests ==
  ASSUME Environment
  PROVE  UNCHANGED <<record, file, blob, proc>>
  BY DEF Environment, DaemonStart, DaemonPanics, IssuerMoves, AdminDecides, disk

\* Every step keeps the keys in the record and in memory accepted.
LEMMA AcceptedStep == ASSUME Control, AcceptedInv, Next PROVE AcceptedInv'
  <1> proc \in [Processes -> Operation] /\ \A p \in Processes : Fits(proc[p])
    BY DEF Control
  <1>1. ASSUME NEW p \in Processes PROVE Carries(server', proc'[p])
    <2>1. Carries(server', proc[p])
      BY StillAccepted DEF AcceptedInv
    <2> QED
      BY <2>1, StepCases, OthersRest, EnvironmentRests, MoverCarries
  <1>2. record' # None => Accepted(server', record')
    <2> SUFFICES ASSUME record' # None PROVE Accepted(server', record')
      OBVIOUS
    <2>1. CASE UNCHANGED record
      BY <2>1, StillAccepted DEF Control, AcceptedInv
    <2>2. ASSUME NEW p \in Processes, proc[p].st \in Record,
                 record'.dev = proc[p].st.dev, record'.fp = proc[p].st.fp
          PROVE  Accepted(server', record')
      <3>1. Accepted(server', proc[p].st)
        BY <2>2, StillAccepted, RecordAssumption DEF AcceptedInv, Carries
      <3> QED
        BY <2>2, <3>1 DEF Accepted
    <2>3. ASSUME NEW p \in Processes, FollowIssuerMove(p)
          PROVE  Accepted(server', record')
      <3>1. proc[p] \in Operation /\ proc[p].st \in Record
        BY <2>3 DEF FollowIssuerMove, At, Fits
      <3>2. proc'[p].st = [proc[p].st EXCEPT !.issuer = home] /\ record' = proc'[p].st
        BY <2>3, <3>1 DEF FollowIssuerMove, Operation
      <3>3. record'.dev = proc[p].st.dev /\ record'.fp = proc[p].st.fp
        BY <3>1, <3>2 DEF Record
      <3> QED
        BY <2>2, <3>1, <3>3
    <2>4. ASSUME NEW p \in Processes, RenewSave(p) \/ EnrollSave(p)
          PROVE  Accepted(server', record')
      <3>1. proc[p].st \in Record
        BY <2>4 DEF RenewSave, EnrollSave, At, Fits
      <3>2. record'.dev = proc[p].st.dev /\ record'.fp = proc[p].st.fp
        BY <2>4, <3>1 DEF RenewSave, EnrollSave, Record
      <3> QED
        BY <2>2, <3>1, <3>2
    <2>5. ASSUME NEW p \in Processes, RotateSave(p)
          PROVE  Accepted(server', record')
      <3>1. proc[p].st \in Record /\ proc[p].new \in server[proc[p].st.dev].keys
        BY <2>5 DEF RotateSave, At, Fits, AcceptedInv, Carries
      <3>2. record'.dev = proc[p].st.dev /\ record'.fp = proc[p].new
        BY <2>5, <3>1 DEF RotateSave, Record
      <3> QED
        BY <3>1, <3>2, ServerStep DEF Accepted, Record
    <2> QED
      BY <2>1, <2>3, <2>4, <2>5, RecordWriters
  <1> QED
    BY <1>1, <1>2 DEF AcceptedInv

-----------------------------------------------------------------------------
(* Theorems that hold whatever overlaps.                                   *)

LEMMA InitInv == Init => Control /\ AcceptedInv /\ SequentialInv /\ OrphanInv
  <1> SUFFICES ASSUME Init PROVE Control /\ AcceptedInv /\ SequentialInv /\ OrphanInv
    OBVIOUS
  <1> USE DEF Init
  <1>1. Idle.st = None /\ Idle.pc = "idle"
    BY DEF Idle
  <1>2. NoRow \in Row /\ NoRow.status = "none"
    BY DEF NoRow, Row
  <1>3. Control
    BY <1>2, IdleFits DEF Control, Issuers
  <1>4. AcceptedInv
    BY <1>1 DEF AcceptedInv, Carries
  <1>5. SequentialInv
    <2>1. Clean /\ \A p \in Processes : At(p, "idle")
      BY <1>1 DEF Clean, At
    <2> QED
      BY <1>1, <2>1 DEF SequentialInv, Shape
  <1>6. OrphanInv
    BY <1>2 DEF OrphanInv, Whole, Honoured
  <1> QED
    BY <1>3, <1>4, <1>5, <1>6

\* The files, the server's rows and the operations in flight keep their types,
\* every operation carries what its next step needs, and every key a record
\* names was accepted by the server for the record's device.
THEOREM Invariance == Spec => [](Control /\ AcceptedInv)
  <1>1. Init => Control /\ AcceptedInv
    BY InitInv
  <1>2. (Control /\ AcceptedInv) /\ [Next]_vars => (Control /\ AcceptedInv)'
    <2>1. ASSUME Control, AcceptedInv, Next PROVE Control' /\ AcceptedInv'
      BY <2>1, ControlStep, AcceptedStep
    <2>2. ASSUME Control, AcceptedInv, UNCHANGED vars PROVE Control' /\ AcceptedInv'
      BY <2>2 DEF vars, Control, AcceptedInv
    <2> QED
      BY <2>1, <2>2
  <1> QED
    BY <1>1, <1>2, PTL DEF Spec

\* Whatever overlaps, is lost or is killed, the fingerprint in device.json is
\* one the server has accepted for that very device: RotateKeyTo commits the
\* new key only after the server took it, and complete saves the answer.
THEOREM RecordKeyAccepted == Spec => []RecordNamesAcceptedKey
  <1>1. AcceptedInv => RecordNamesAcceptedKey
    BY DEF AcceptedInv, Accepted, RecordNamesAcceptedKey
  <1> QED
    BY <1>1, Invariance, PTL

-----------------------------------------------------------------------------
(* Operations one at a time.                                               *)

\* An overlap is remembered, and a kill and a cancellation count as one.
LEMMA OverlapStays ==
  ASSUME Next, trouble' # "overlap"
  PROVE  /\ trouble # "overlap"
         /\ trouble' = "none" => trouble = "none"
         /\ \A p \in Processes : ~HandleCancel(p) /\ ~Kill(p)
  <1> USE DEF Serial, Overlap, NetworkFault
  <1>1. ASSUME NEW p \in Processes, Begins(p) \/ Asks(p) \/ HandleCancel(p) \/ Kill(p)
        PROVE  trouble # "overlap" /\ (trouble' = "none" => trouble = "none")
    BY <1>1 DEF Begins, Begin, Renew, RotateKeyTo, Unenroll, BeginEnrollment, Asks,
         FollowIssuerMove, Told, HandleCancel, Kill
  <1>2. ASSUME NEW p \in Processes, Proceeds(p)
        PROVE  trouble # "overlap" /\ (trouble' = "none" => trouble = "none")
    BY <1>2 DEF Proceeds, RenewSave, RotateAccepted, RotateRefused, CommitKey, RotateSave,
         RevokeSelf, RemoveRecord, RemoveKey, GenerateKey, UserApproves, Abort, EnrollSave,
         Register
  <1>3. Environment => trouble # "overlap" /\ (trouble' = "none" => trouble = "none")
    BY DEF Environment, DaemonStart, DaemonPanics, IssuerMoves, AdminDecides
  <1>4. ASSUME NEW p \in Processes PROVE ~HandleCancel(p) /\ ~Kill(p)
    BY DEF HandleCancel, Kill
  <1> QED
    BY <1>1, <1>2, <1>3, <1>4, StepCases

\* An operation that moves without an overlap is the only one.
LEMMA MoverAlone ==
  ASSUME Control, SequentialInv, Next, trouble' # "overlap", NEW p \in Processes,
         Begins(p) \/ Asks(p) \/ Proceeds(p)
  PROVE  Alone(p) /\ Shape(proc[p])
  <1>1. trouble # "overlap"
    BY OverlapStays
  <1>2. CASE Begins(p)
    <2>1. ~\E o \in Processes \ {p} : ~At(o, "idle")
      BY <1>2 DEF Begins, Begin, Renew, RotateKeyTo, Unenroll, BeginEnrollment, Overlap
    <2> QED
      BY <1>1, <2>1 DEF SequentialInv, Alone
  <1>3. CASE Asks(p) \/ Proceeds(p)
    <2>1. ~At(p, "idle")
      BY <1>3 DEF Asks, FollowIssuerMove, Proceeds, RenewSave, RotateAccepted, RotateRefused,
           CommitKey, RotateSave, RevokeSelf, RemoveRecord, RemoveKey, GenerateKey,
           UserApproves, Abort, EnrollSave, Register, At
    <2> QED
      BY <1>1, <2>1 DEF SequentialInv, Alone
  <1> QED
    BY <1>2, <1>3

\* An operation that runs alone leaves the files as its next step expects
\* them.  Moving the key of a TPM device back to a file is what would not.
LEMMA MoverShape ==
  ASSUME Control, "file" \notin BackendArgs, Next, NEW p \in Processes, Shape(proc[p]),
         Begins(p) \/ Asks(p) \/ Proceeds(p)
  PROVE  Shape(proc[p])'
  <1> proc \in [Processes -> Operation] /\ proc[p] \in Operation /\ Fits(proc[p])
    BY DEF Control
  <1>b. CASE Begins(p)
    <2>0. proc[p].pc = "idle" /\ UNCHANGED <<record, file, blob>>
      BY <1>b DEF Begins, Begin, Renew, RotateKeyTo, Unenroll, BeginEnrollment, At, disk
    <2>1. ASSUME NEW op, NEW to, Opens, proc'[p] = Opened(op, to),
                 op = "rotate" => to \in {record.backend, "tpm"}
          PROVE  Shape(proc[p])'
      <3>1. /\ proc'[p].pc = "token" /\ proc'[p].op = op /\ proc'[p].st = record
            /\ proc'[p].key = LoadKey /\ proc'[p].to = to
        BY <2>1 DEF Opened, Idle
      <3>2. Backed
        BY <2>0, <2>1 DEF Shape, Clean, Opens
      <3> QED
        BY <2>0, <2>1, <3>1, <3>2 DEF Shape, Backed, Opens, LoadKey
    <2>2. CASE Renew(p)
      BY <2>1, <2>2 DEF Renew, Begin
    <2>3. ASSUME NEW b \in BackendArgs, RotateKeyTo(p, b) PROVE Shape(proc[p])'
      <3> DEFINE to == IF b = "" THEN record.backend ELSE b
      <3>1. to \in {record.backend, "tpm"}
        BY AgentAssumption DEF Backends
      <3>2. Opens /\ proc'[p] = Opened("rotate", to)
        BY <2>3 DEF RotateKeyTo, Begin
      <3> HIDE DEF to
      <3> QED
        BY <2>1, <3>1, <3>2
    <2>4. CASE Unenroll(p)
      <3>1. CASE Begin(p, [Idle EXCEPT !.op = "unenroll", !.pc = "rmRecord"])
        <4>1. proc'[p].pc = "rmRecord"
          BY <3>1 DEF Begin, Idle
        <4> QED
          BY <4>1 DEF Shape
      <3>2. CASE Opens /\ Begin(p, Opened("unenroll", "file"))
        BY <2>1, <3>2 DEF Begin
      <3> QED
        BY <2>4, <3>1, <3>2 DEF Unenroll
    <2>5. ASSUME NEW b \in Backends, BeginEnrollment(p, b) PROVE Shape(proc[p])'
      <3>1. proc'[p].pc = "generate" /\ record = None
        BY <2>5 DEF BeginEnrollment, Begin, Idle
      <3>2. Clean
        BY <2>0, <3>1 DEF Shape, Backed, Opens
      <3> QED
        BY <2>0, <3>1, <3>2 DEF Shape, Clean
    <2> QED
      BY <1>b, <2>2, <2>3, <2>4, <2>5 DEF Begins
  <1>a. CASE Asks(p)
    <2>0. /\ proc[p].pc = "token" /\ Backed /\ proc[p].st = record /\ record \in Record
          /\ proc[p].key = LoadKey /\ UNCHANGED <<file, blob>>
      BY <1>a DEF Asks, FollowIssuerMove, Told, At, Shape, Backed, Opens, Control, disk
    <2>1. CASE FollowIssuerMove(p)
      <3>1. /\ proc'[p].st = [record EXCEPT !.issuer = home] /\ record' = proc'[p].st
            /\ proc'[p].pc = "token" /\ proc'[p].op = proc[p].op
            /\ proc'[p].key = proc[p].key /\ proc'[p].to = proc[p].to
        BY <2>0, <2>1 DEF FollowIssuerMove, Operation
      <3>2. /\ record' \in Record /\ record'.fp = record.fp
            /\ record'.backend = record.backend
        BY <2>0, <3>1 DEF Record, Control
      <3> QED
        BY <2>0, <3>1, <3>2, RecordAssumption DEF Shape, Backed, Opens, LoadKey
    <2>2. ASSUME NEW a \in Answers, Told(p, a) PROVE Shape(proc[p])'
      <3>0. UNCHANGED record
        BY <2>2 DEF Told, disk
      <3>1. CASE proc[p].op = "renew"
        <4>1. proc'[p] = [Idle EXCEPT !.op = proc[p].op, !.pc = "save",
                                      !.st = proc[p].st, !.ans = a]
          BY <2>2, <3>1 DEF Told
        <4>2. proc'[p].st = proc[p].st /\ proc'[p].pc = "save" /\ proc'[p].op = "renew"
          BY <3>1, <4>1 DEF Idle
        <4> QED
          BY <2>0, <3>0, <4>2 DEF Shape, Backed, Opens, LoadKey
      <3>2. ASSUME proc'[p] = Idle PROVE Shape(proc[p])'
        <4>1. proc'[p].pc = "idle"
          BY <3>2 DEF Idle
        <4> QED
          BY <2>0, <3>0, <4>1 DEF Shape, Backed, Opens, LoadKey
      <3>3. ASSUME NEW l \in {"rotate", "revoke"}, proc'[p] = [proc[p] EXCEPT !.pc = l]
            PROVE  Shape(proc[p])'
        <4>1. /\ proc'[p].pc = l /\ proc'[p].st = proc[p].st /\ proc'[p].op = proc[p].op
              /\ proc'[p].key = proc[p].key /\ proc'[p].to = proc[p].to
          BY <3>3 DEF Operation
        <4> QED
          BY <2>0, <3>0, <4>1 DEF Shape, Backed, Opens, LoadKey
      <3>4. ASSUME proc'[p] = Wiping(p) PROVE Shape(proc[p])'
        <4>1. proc'[p].pc = "rmRecord"
          BY <3>4 DEF Wiping, Idle
        <4> QED
          BY <4>1 DEF Shape
      <3>5. CASE proc[p].op = "rotate"
        <4>1. proc'[p] = IF a = "active" THEN [proc[p] EXCEPT !.pc = "rotate"] ELSE Idle
          BY <2>2, <3>5 DEF Told
        <4> QED
          BY <3>2, <3>3, <4>1
      <3>6. CASE proc[p].op = "unenroll"
        <4>1. proc'[p] = IF a = "active" THEN [proc[p] EXCEPT !.pc = "revoke"] ELSE Wiping(p)
          BY <2>2, <3>6 DEF Told
        <4> QED
          BY <3>3, <3>4, <4>1
      <3> QED
        BY <2>0, <3>1, <3>5, <3>6 DEF Fits
    <2> QED
      BY <1>a, <2>1, <2>2 DEF Asks
  <1>p. CASE Proceeds(p)
    <2>i. ASSUME proc'[p] = Idle, Clean' \/ Backed' PROVE Shape(proc[p])'
      <3>1. proc'[p].pc = "idle"
        BY <2>i DEF Idle
      <3> QED
        BY <2>i, <3>1 DEF Shape
    <2>w. ASSUME proc'[p] = Wiping(p) PROVE Shape(proc[p])'
      <3>1. proc'[p].pc = "rmRecord"
        BY <2>w DEF Wiping, Idle
      <3> QED
        BY <3>1 DEF Shape
    <2>1. CASE RenewSave(p)
      <3>1. /\ proc[p].st \in Record /\ record = proc[p].st /\ Backed
            /\ UNCHANGED <<file, blob>> /\ proc'[p] = Idle
        BY <2>1 DEF RenewSave, At, Fits, Shape, Return
      <3>2. /\ record'.fp = record.fp /\ record'.backend = record.backend
        BY <2>1, <3>1 DEF RenewSave, Record
      <3>3. record' # None
        BY <2>1, RenewedTyped, RecordAssumption
      <3>4. Backed'
        BY <3>1, <3>2, <3>3 DEF Backed, Opens, LoadKey
      <3> QED
        BY <2>i, <3>1, <3>4
    <2>2. CASE RotateRefused(p)
      <3>1. Backed /\ UNCHANGED <<record, file, blob>> /\ proc'[p] = Idle
        BY <2>2 DEF RotateRefused, At, Shape, Return, disk
      <3>2. Backed'
        BY <3>1 DEF Backed, Opens, LoadKey
      <3> QED
        BY <2>i, <3>1, <3>2
    <2>3. ASSUME NEW heard \in BOOLEAN, RotateAccepted(p, heard) PROVE Shape(proc[p])'
      <3>1. /\ Backed /\ UNCHANGED <<record, file, blob>>
            /\ proc[p].pc = "rotate" /\ proc[p].op = "rotate" /\ proc[p].st = record
            /\ proc[p].to \in {record.backend, "tpm"}
        BY <2>3 DEF RotateAccepted, At, Fits, Shape, disk
      <3>2. Backed'
        BY <3>1 DEF Backed, Opens, LoadKey
      <3>3. CASE ~heard
        BY <2>3, <2>i, <3>2, <3>3 DEF RotateAccepted, Return
      <3>4. CASE heard
        <4>1. /\ proc'[p].pc = "commit" /\ proc'[p].op = "rotate"
              /\ proc'[p].st = proc[p].st /\ proc'[p].to = proc[p].to
          BY <2>3, <3>1, <3>4 DEF RotateAccepted, Operation
        <4> QED
          BY <3>1, <3>2, <4>1 DEF Shape
      <3> QED
        BY <3>3, <3>4
    <2>4. CASE CommitKey(p)
      <3>1. /\ proc[p].pc = "commit" /\ proc[p].op = "rotate" /\ Backed
            /\ proc[p].new \in Keys /\ proc[p].to \in {record.backend, "tpm"}
        BY <2>4 DEF CommitKey, At, Fits, Shape
      <3>2. /\ proc'[p].pc = "save" /\ proc'[p].op = "rotate"
            /\ proc'[p].new = proc[p].new /\ proc'[p].to = proc[p].to
        BY <2>4, <3>1 DEF CommitKey, Goto, Operation
      <3>3. LoadKey' = proc[p].new /\ (proc[p].to = "tpm" <=> blob' # None)
        <4>1. CASE proc[p].to = "tpm"
          BY <2>4, <3>1, <4>1, AgentAssumption DEF CommitKey, LoadKey
        <4>2. CASE proc[p].to # "tpm"
          <5>1. blob = None /\ blob' = blob /\ file' = proc[p].new
            BY <2>4, <3>1, <4>2 DEF CommitKey, Backed
          <5> QED
            BY <4>2, <5>1 DEF LoadKey
        <4> QED
          BY <4>1, <4>2
      <3> QED
        BY <3>2, <3>3 DEF Shape
    <2>5. CASE RotateSave(p)
      <3>1. /\ LoadKey = proc[p].new /\ (proc[p].to = "tpm" <=> blob # None)
            /\ proc[p].st \in Record /\ proc[p].new \in Keys /\ proc[p].to \in Backends
            /\ UNCHANGED <<file, blob>> /\ proc'[p] = Idle
        BY <2>5 DEF RotateSave, At, Fits, Shape, Return, Operation
      <3>2. record' = [proc[p].st EXCEPT !.fp = proc[p].new, !.backend = proc[p].to]
        BY <2>5 DEF RotateSave
      <3>3. /\ record' \in Record /\ record'.fp = proc[p].new
            /\ record'.backend = proc[p].to
        BY <3>1, <3>2 DEF Record
      <3>4. Backed'
        BY <3>1, <3>3, AgentAssumption, RecordAssumption DEF Backed, Opens, LoadKey
      <3> QED
        BY <2>i, <3>1, <3>4
    <2>6. CASE Abort(p) \/ \E reached \in BOOLEAN : RevokeSelf(p, reached)
      BY <2>6, <2>w DEF Abort, RevokeSelf
    <2>7. CASE RemoveRecord(p)
      <3>1. proc'[p].pc = "rmKey" /\ record' = None
        BY <2>7 DEF RemoveRecord, Goto, Operation
      <3> QED
        BY <3>1 DEF Shape
    <2>8. CASE RemoveKey(p)
      <3>1. Clean' /\ proc'[p] = Idle
        BY <2>8 DEF RemoveKey, At, Shape, Return, Clean
      <3> QED
        BY <2>i, <3>1
    <2>9. CASE GenerateKey(p)
      <3>1. Clean /\ NewKey \in Keys /\ proc[p].pc = "generate" /\ UNCHANGED record
        BY <2>9 DEF GenerateKey, At, Shape, NewKey, Control
      <3>2. /\ proc'[p].pc = "wait" /\ proc'[p].key = NewKey /\ proc'[p].to = proc[p].to
        BY <2>9 DEF GenerateKey, Operation
      <3>3. LoadKey' = NewKey /\ (proc[p].to = "tpm" <=> blob' # None)
        BY <2>9, <3>1, AgentAssumption DEF GenerateKey, Clean, LoadKey
      <3> QED
        BY <3>1, <3>2, <3>3 DEF Shape, Clean
    <2>10. CASE UserApproves(p)
      <3>1. /\ record = None /\ LoadKey = proc[p].key
            /\ (proc[p].to = "tpm" <=> blob # None) /\ UNCHANGED <<record, file, blob>>
        BY <2>10 DEF UserApproves, At, Shape, disk
      <3>2. /\ proc'[p].pc = "register" /\ proc'[p].key = proc[p].key
            /\ proc'[p].to = proc[p].to
        BY <2>10 DEF UserApproves, Goto, Operation
      <3> QED
        BY <3>1, <3>2 DEF Shape, LoadKey
    <2>11. ASSUME NEW s \in {"active", "pending"}, NEW heard \in BOOLEAN, Register(p, s, heard)
           PROVE  Shape(proc[p])'
      <3> DEFINE st == [dev |-> NewDevice, fp |-> proc[p].key, status |-> s,
                        backend |-> proc[p].to, issuer |-> proc[p].aud]
      <3>1. proc'[p] = IF ~heard THEN Wiping(p)
               ELSE [Idle EXCEPT !.op = "enroll", !.pc = "save", !.st = st]
        BY <2>11 DEF Register
      <3>2. st.fp = proc[p].key /\ st.backend = proc[p].to
        OBVIOUS
      <3> HIDE DEF st
      <3>3. /\ LoadKey = proc[p].key /\ (proc[p].to = "tpm" <=> blob # None)
            /\ UNCHANGED <<record, file, blob>>
        BY <2>11 DEF Register, At, Shape, disk
      <3>4. CASE heard
        <4>1. proc'[p].st = st /\ proc'[p].pc = "save" /\ proc'[p].op = "enroll"
          BY <3>1, <3>4 DEF Idle
        <4> QED
          BY <3>2, <3>3, <4>1 DEF Shape, LoadKey
      <3> QED
        BY <2>w, <3>1, <3>4
    <2>12. CASE EnrollSave(p)
      <3>1. /\ proc[p].st \in Record /\ LoadKey = proc[p].st.fp
            /\ (proc[p].st.backend = "tpm" <=> blob # None)
            /\ record' = proc[p].st /\ UNCHANGED <<file, blob>> /\ proc'[p] = Idle
        BY <2>12 DEF EnrollSave, At, Fits, Shape, Return
      <3>2. proc[p].st.fp \in Keys
        BY <3>1 DEF Record
      <3>3. Backed'
        BY <3>1, <3>2, AgentAssumption, RecordAssumption DEF Backed, Opens, LoadKey
      <3> QED
        BY <2>i, <3>1, <3>3
    <2> QED
      BY <1>p, <2>1, <2>2, <2>3, <2>4, <2>5, <2>6, <2>7, <2>8, <2>9, <2>10, <2>11, <2>12
         DEF Proceeds
  <1> QED
    BY <1>b, <1>a, <1>p

\* Every step keeps the shape of the files.
LEMMA SequentialStep ==
  ASSUME Control, SequentialInv, "file" \notin BackendArgs, Next
  PROVE  SequentialInv'
  <1> SUFFICES ASSUME trouble' # "overlap"
               PROVE  /\ \A p, o \in Processes : At(p, "idle")' \/ At(o, "idle")' \/ p = o
                      /\ \A p \in Processes : Alone(p)' => Shape(proc[p])'
    BY DEF SequentialInv
  <1>1. ASSUME NEW p \in Processes, Begins(p) \/ Asks(p) \/ Proceeds(p)
        PROVE  /\ \A q, o \in Processes : At(q, "idle")' \/ At(o, "idle")' \/ q = o
               /\ \A q \in Processes : Alone(q)' => Shape(proc[q])'
    <2>1. Alone(p) /\ Shape(proc[p])
      BY <1>1, MoverAlone
    <2>2. Shape(proc[p])'
      BY <1>1, <2>1, MoverShape
    <2>3. \A o \in Processes : o # p => At(o, "idle")'
      BY <1>1, <2>1, OthersRest DEF Alone, At
    <2>4. ASSUME NEW q \in Processes, q # p, Alone(q)'
          PROVE  Shape(proc[q])'
      <3>1. proc'[p].pc = "idle" /\ proc'[q].pc = "idle"
        BY <2>3, <2>4 DEF Alone, At
      <3> QED
        BY <2>2, <3>1 DEF Shape
    <2> QED
      BY <2>2, <2>3, <2>4
  <1>2. CASE Environment
    <2>1. UNCHANGED <<record, file, blob, proc>> /\ trouble # "overlap"
      BY <1>2, EnvironmentRests, OverlapStays
    <2> QED
      BY <2>1 DEF SequentialInv, Alone, At, Shape, Clean, Backed, Opens, LoadKey
  <1> QED
    BY <1>1, <1>2, StepCases, OverlapStays

\* An operation that runs alone and meets no fault leaves no honoured device
\* behind whose key it does not hold.
LEMMA MoverWhole ==
  ASSUME Control, Next, NEW p \in Processes, Shape(proc[p]), Whole(proc[p]),
         trouble = "none", trouble' = "none",
         Begins(p) \/ Asks(p) \/ Proceeds(p)
  PROVE  Whole(proc[p])'
  <1> proc \in [Processes -> Operation] /\ proc[p] \in Operation /\ Fits(proc[p])
    BY DEF Control
  <1> DEFINE NoneHonoured == \A d \in Devices : ~Honoured(d)
  <1>n. ASSUME NoneHonoured, UNCHANGED server PROVE Whole(proc[p])'
    BY <1>n DEF Whole, Honoured
  <1>b. CASE Begins(p)
    <2>0. proc[p].pc = "idle" /\ UNCHANGED <<record, file, blob, server>>
      BY <1>b DEF Begins, Begin, Renew, RotateKeyTo, Unenroll, BeginEnrollment, At, disk
    <2>1. ASSUME NEW op, NEW to, proc'[p] = Opened(op, to)
          PROVE  Whole(proc[p])'
      <3>1. proc'[p].pc = "token"
        BY <2>1 DEF Opened, Idle
      <3> QED
        BY <2>0, <3>1 DEF Whole, Honoured, LoadKey
    <2>2. CASE Renew(p) \/ \E b \in BackendArgs : RotateKeyTo(p, b)
      BY <2>1, <2>2 DEF Renew, RotateKeyTo, Begin
    <2>3. CASE Unenroll(p)
      <3>1. CASE record = None \/ LoadKey = None
        <4>1. record = None
          BY <2>0, <3>1 DEF Shape, Clean, Backed, Opens
        <4> QED
          BY <2>0, <4>1, <1>n DEF Whole
      <3>2. CASE Opens /\ Begin(p, Opened("unenroll", "file"))
        BY <2>1, <3>2 DEF Begin
      <3> QED
        BY <2>3, <3>1, <3>2 DEF Unenroll
    <2>4. ASSUME NEW b \in Backends, BeginEnrollment(p, b) PROVE Whole(proc[p])'
      <3>1. record = None
        BY <2>4 DEF BeginEnrollment
      <3> QED
        BY <2>0, <3>1, <1>n DEF Whole
    <2> QED
      BY <1>b, <2>2, <2>3, <2>4 DEF Begins
  <1>a. CASE Asks(p)
    <2>0. /\ proc[p].pc = "token" /\ UNCHANGED <<file, blob, server>>
          /\ record = proc[p].st /\ record \in Record
      BY <1>a DEF Asks, FollowIssuerMove, Told, At, Fits, Shape, disk
    <2>1. CASE FollowIssuerMove(p)
      <3>1. /\ record' = [record EXCEPT !.issuer = home] /\ proc'[p].pc = "token"
        BY <2>0, <2>1 DEF FollowIssuerMove, Operation
      <3>2. record' \in Record /\ record'.dev = record.dev
        BY <2>0, <3>1 DEF Record, Control
      <3> QED
        BY <2>0, <3>1, <3>2, RecordAssumption DEF Whole, Honoured, LoadKey
    <2>2. ASSUME NEW a \in Answers, Told(p, a) PROVE Whole(proc[p])'
      <3>0. UNCHANGED record /\ ~(proc[p].op = "unenroll" /\ a # "active")
        BY <2>2 DEF Told, disk, NetworkFault
      <3>k. ASSUME proc'[p].pc \in {"idle", "rotate", "revoke"}
                     \/ (proc'[p].pc = "save" /\ proc'[p].op = "renew")
            PROVE  Whole(proc[p])'
        BY <2>0, <3>0, <3>k DEF Whole, Honoured, LoadKey
      <3>1. CASE proc[p].op = "renew"
        <4>1. proc'[p] = [Idle EXCEPT !.op = proc[p].op, !.pc = "save",
                                      !.st = proc[p].st, !.ans = a]
          BY <2>2, <3>1 DEF Told
        <4>2. proc'[p].pc = "save" /\ proc'[p].op = "renew"
          BY <3>1, <4>1 DEF Idle
        <4> QED
          BY <3>k, <4>2
      <3>2. CASE proc[p].op = "rotate"
        <4>1. proc'[p] = IF a = "active" THEN [proc[p] EXCEPT !.pc = "rotate"] ELSE Idle
          BY <2>2, <3>2 DEF Told
        <4>2. proc'[p].pc \in {"idle", "rotate"}
          BY <4>1 DEF Idle, Operation
        <4> QED
          BY <3>k, <4>2
      <3>3. CASE proc[p].op = "unenroll"
        <4>1. proc'[p] = [proc[p] EXCEPT !.pc = "revoke"]
          BY <2>2, <3>0, <3>3 DEF Told
        <4>2. proc'[p].pc = "revoke"
          BY <4>1 DEF Operation
        <4> QED
          BY <3>k, <4>2
      <3> QED
        BY <2>0, <3>1, <3>2, <3>3 DEF Fits
    <2> QED
      BY <1>a, <2>1, <2>2 DEF Asks
  <1>p. CASE Proceeds(p)
    <2>h. Idle.pc = "idle" /\ Wiping(p).pc = "rmRecord"
      BY DEF Idle, Wiping
    <2>1. CASE RenewSave(p)
      <3>1. /\ proc[p].pc = "save" /\ proc[p].op = "renew"
            /\ proc[p].st \in Record /\ record = proc[p].st
            /\ UNCHANGED <<file, blob, server>> /\ proc'[p].pc = "idle"
        BY <2>1, <2>h DEF RenewSave, At, Fits, Shape, Return
      <3>2. record'.dev = record.dev /\ record' # None
        BY <2>1, <3>1, RenewedTyped, RecordAssumption DEF RenewSave, Record
      <3> QED
        BY <3>1, <3>2 DEF Whole, Honoured, LoadKey
    <2>2. CASE RotateRefused(p)
      <3>1. /\ proc[p].pc = "rotate" /\ UNCHANGED <<record, file, blob, server>>
            /\ proc'[p].pc = "idle"
        BY <2>2, <2>h DEF RotateRefused, At, Return, disk
      <3> QED
        BY <3>1 DEF Whole, Honoured, LoadKey
    <2>3. ASSUME NEW heard \in BOOLEAN, RotateAccepted(p, heard) PROVE Whole(proc[p])'
      <3> DEFINE e == proc[p].st.dev
      <3>1. heard /\ proc[p].pc = "rotate" /\ proc[p].st = record /\ proc[p].st \in Record
        BY <2>3 DEF RotateAccepted, NetworkFault, At, Fits, Shape
      <3>2. /\ proc'[p].pc = "commit" /\ proc'[p].st = proc[p].st /\ proc'[p].new = NewKey
        BY <2>3, <3>1 DEF RotateAccepted, Operation
      <3>3. server' = [server EXCEPT ![e].key = NewKey, ![e].keys = @ \cup {NewKey}]
        BY <2>3 DEF RotateAccepted
      <3>4. e \in Devices /\ server[e] \in Row /\ e = record.dev
        BY <3>1 DEF Control, Record
      <3> HIDE DEF e
      <3>5. /\ server'[e].key = NewKey
            /\ \A d \in Devices : d # e => server'[d] = server[d]
        BY <3>3, <3>4 DEF Control, Row
      <3>6. ASSUME NEW d \in Devices, Honoured(d)' PROVE d = e
        BY <3>1, <3>4, <3>5, <3>6 DEF Whole, Honoured
      <3> QED
        BY <3>2, <3>5, <3>6 DEF Whole, e
    <2>4. CASE CommitKey(p)
      <3>1. /\ proc[p].pc = "commit" /\ proc[p].op = "rotate" /\ UNCHANGED server
        BY <2>4 DEF CommitKey, At, Fits
      <3>2. /\ proc'[p].pc = "save" /\ proc'[p].op = "rotate"
            /\ proc'[p].new = proc[p].new /\ proc'[p].st = proc[p].st
        BY <2>4, <3>1 DEF CommitKey, Goto, Operation
      <3> QED
        BY <3>1, <3>2 DEF Whole, Honoured
    <2>5. CASE RotateSave(p)
      <3>1. /\ proc[p].pc = "save" /\ proc[p].op = "rotate" /\ LoadKey = proc[p].new
            /\ proc[p].st \in Record /\ proc[p].new \in Keys /\ proc[p].to \in Backends
            /\ UNCHANGED <<file, blob, server>> /\ proc'[p].pc = "idle"
        BY <2>5, <2>h DEF RotateSave, At, Fits, Shape, Return, Operation
      <3>2. record' = [proc[p].st EXCEPT !.fp = proc[p].new, !.backend = proc[p].to]
        BY <2>5 DEF RotateSave
      <3>3. record' \in Record /\ record'.dev = proc[p].st.dev
        BY <3>1, <3>2 DEF Record
      <3> QED
        BY <3>1, <3>3, RecordAssumption DEF Whole, Honoured, LoadKey
    <2>6. ASSUME NEW reached \in BOOLEAN, RevokeSelf(p, reached) PROVE Whole(proc[p])'
      <3> DEFINE e == proc[p].st.dev
      <3>1. /\ proc[p].pc = "revoke" /\ proc[p].st = record /\ proc[p].st \in Record
            /\ proc'[p].pc = "rmRecord"
        BY <2>6, <2>h DEF RevokeSelf, At, Fits, Shape
      <3>2. server' = [server EXCEPT ![e].status = "revoked"]
        BY <2>6 DEF RevokeSelf, NetworkFault
      <3>3. e \in Devices /\ server[e] \in Row /\ e = record.dev
        BY <3>1 DEF Control, Record
      <3> HIDE DEF e
      <3>4. /\ server'[e].status = "revoked"
            /\ \A d \in Devices : d # e => server'[d] = server[d]
        BY <3>2, <3>3 DEF Control, Row
      <3>5. ASSUME NEW d \in Devices PROVE ~Honoured(d)'
        BY <3>1, <3>3, <3>4 DEF Whole, Honoured
      <3> QED
        BY <3>5 DEF Whole
    <2>7. CASE RemoveRecord(p) \/ RemoveKey(p) \/ GenerateKey(p) \/ UserApproves(p) \/ Abort(p)
      <3>1. /\ proc[p].pc \in {"generate", "wait", "register", "rmRecord", "rmKey"}
            /\ UNCHANGED server
        BY <2>7 DEF RemoveRecord, RemoveKey, GenerateKey, UserApproves, Abort, At
      <3> QED
        BY <1>n, <3>1 DEF Whole
    <2>8. ASSUME NEW s \in {"active", "pending"}, NEW heard \in BOOLEAN, Register(p, s, heard)
          PROVE  Whole(proc[p])'
      <3> DEFINE st == [dev |-> NewDevice, fp |-> proc[p].key, status |-> s,
                        backend |-> proc[p].to, issuer |-> proc[p].aud]
                 row == [status |-> s, key |-> proc[p].key, keys |-> {proc[p].key}]
      <3>1. heard /\ proc[p].pc = "register"
        BY <2>8 DEF Register, NetworkFault, At
      <3>2. proc'[p] = [Idle EXCEPT !.op = "enroll", !.pc = "save", !.st = st]
        BY <2>8, <3>1 DEF Register
      <3>3. st.fp = proc[p].key /\ st.dev = NewDevice
        OBVIOUS
      <3>4. server' = [server EXCEPT ![NewDevice] = row] /\ row.key = proc[p].key
        BY <2>8 DEF Register
      <3>5. NewDevice \in Devices
        BY <2>8 DEF Register, NewDevice
      <3> HIDE DEF st, row
      <3>6. proc'[p].st = st /\ proc'[p].pc = "save" /\ proc'[p].op = "enroll"
        BY <3>2 DEF Idle
      <3>7. ASSUME NEW d \in Devices, Honoured(d)' PROVE d = NewDevice
        BY <3>1, <3>4, <3>5, <3>7 DEF Whole, Honoured, Control
      <3>8. server'[NewDevice].key = proc[p].key
        BY <3>4, <3>5 DEF Control
      <3> QED
        BY <3>3, <3>6, <3>7, <3>8 DEF Whole
    <2>9. CASE EnrollSave(p)
      <3>1. /\ proc[p].pc = "save" /\ proc[p].op = "enroll"
            /\ proc[p].st \in Record /\ LoadKey = proc[p].st.fp /\ record' = proc[p].st
            /\ UNCHANGED <<file, blob, server>> /\ proc'[p].pc = "idle"
        BY <2>9, <2>h DEF EnrollSave, At, Fits, Shape, Return
      <3> QED
        BY <3>1, RecordAssumption DEF Whole, Honoured, LoadKey
    <2> QED
      BY <1>p, <2>1, <2>2, <2>3, <2>4, <2>5, <2>6, <2>7, <2>8, <2>9 DEF Proceeds
  <1> QED
    BY <1>b, <1>a, <1>p

\* Every step keeps the honoured rows accounted for.
LEMMA OrphanStep ==
  ASSUME Control, SequentialInv, OrphanInv, Next
  PROVE  OrphanInv'
  <1> SUFFICES ASSUME trouble' = "none"
               PROVE  \A p \in Processes : Alone(p)' => Whole(proc[p])'
    BY DEF OrphanInv
  <1>0. trouble = "none"
    BY OverlapStays
  <1>1. ASSUME NEW p \in Processes, Begins(p) \/ Asks(p) \/ Proceeds(p)
        PROVE  \A q \in Processes : Alone(q)' => Whole(proc[q])'
    <2>1. Alone(p) /\ Shape(proc[p])
      BY <1>1, MoverAlone
    <2>2. Whole(proc[p])'
      BY <1>0, <1>1, <2>1, MoverWhole DEF OrphanInv
    <2>3. ASSUME NEW q \in Processes, q # p, Alone(q)'
          PROVE  Whole(proc[q])'
      <3>1. proc'[p].pc = "idle" /\ proc'[q].pc = "idle"
        BY <1>1, <2>1, <2>3, OthersRest DEF Alone, At
      <3> QED
        BY <2>2, <3>1 DEF Whole
    <2> QED
      BY <2>2, <2>3
  <1>2. CASE Environment
    <2>1. UNCHANGED <<record, file, blob, proc>>
      BY <1>2, EnvironmentRests
    <2>2. \A d \in Devices : /\ server'[d].key = server[d].key
                             /\ Honoured(d)' => Honoured(d)
      <3>1. ASSUME NEW e \in Devices, NEW s \in {"active", "revoked"}, AdminDecides(e, s)
            PROVE  \A d \in Devices : /\ server'[d].key = server[d].key
                                      /\ Honoured(d)' => Honoured(d)
        BY <3>1 DEF AdminDecides, Control, Row, Honoured
      <3>2. CASE DaemonStart \/ DaemonPanics \/ IssuerMoves
        BY <3>2 DEF DaemonStart, DaemonPanics, IssuerMoves, Honoured
      <3> QED
        BY <1>2, <3>1, <3>2 DEF Environment
    <2> QED
      BY <1>0, <2>1, <2>2 DEF OrphanInv, Alone, At, Whole, LoadKey
  <1> QED
    BY <1>1, <1>2, StepCases, OverlapStays

\* Without rotate-key --backend file, the files and the honoured rows are as
\* the operation under way expects them.
LEMMA Sequential ==
  ASSUME "file" \notin BackendArgs
  PROVE  Spec => [](SequentialInv /\ OrphanInv)
  <1>1. Init => SequentialInv /\ OrphanInv
    BY InitInv
  <1>2. Control /\ (SequentialInv /\ OrphanInv) /\ [Next]_vars
        => (SequentialInv /\ OrphanInv)'
    <2>1. ASSUME Control, SequentialInv, OrphanInv, Next
          PROVE  SequentialInv' /\ OrphanInv'
      BY <2>1, SequentialStep, OrphanStep
    <2>2. ASSUME SequentialInv, OrphanInv, UNCHANGED vars
          PROVE  SequentialInv' /\ OrphanInv'
      BY <2>2 DEF vars, SequentialInv, OrphanInv, Alone, At, Shape, Clean, Backed, Opens,
           LoadKey, Whole, Honoured
    <2> QED
      BY <2>1, <2>2
  <1>3. Spec => [](Control /\ AcceptedInv)
    BY Invariance
  <1> QED
    BY <1>1, <1>2, <1>3, PTL DEF Spec

\* The daemon's slot always exists, so a quiet machine has a process alone.
LEMMA QuietIsAlone == Quiet => Alone(Daemon) /\ At(Daemon, "idle") /\ Daemon \in Processes
  BY DEF Quiet, Alone, Processes

\* As long as nobody moves the key of a TPM device back to a file, operations
\* that ran one at a time and to their end leave a record that opens or nothing
\* at all, whatever the network did to them.
THEOREM SequentialClean ==
  ASSUME "file" \notin BackendArgs
  PROVE  Spec => []SequentialUseIsClean
  <1>1. SequentialInv => SequentialUseIsClean
    BY QuietIsAlone DEF SequentialInv, SequentialUseIsClean, Shape, Clean, Backed, At
  <1>2. Spec => [](SequentialInv /\ OrphanInv)
    BY Sequential
  <1> QED
    BY <1>1, <1>2, PTL

\* Under the same condition, a device the server still honours and whose key
\* nobody holds comes only from an overlap, a kill, a lost reply or a failed
\* revocation.
THEOREM OrphansNeedFaults ==
  ASSUME "file" \notin BackendArgs
  PROVE  Spec => []NoOrphanWithoutFault
  <1>1. OrphanInv => NoOrphanWithoutFault
    BY QuietIsAlone DEF OrphanInv, NoOrphanWithoutFault, Whole, Honoured, At
  <1>2. Spec => [](SequentialInv /\ OrphanInv)
    BY Sequential
  <1> QED
    BY <1>1, <1>2, PTL
=============================================================================
