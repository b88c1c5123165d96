--------------------------- MODULE DevicePolling ---------------------------
(***************************************************************************)
(* The two ends of a device-code poll in time: the loop of the endpoint    *)
(* agent (WaitForDeviceCode) and the server's interval and expiry checks   *)
(* (grantDeviceCode).  Time is discrete and the clocks of both ends run at *)
(* the same rate.  A message takes at most MaxDelay.  The races between    *)
(* handlers on the server are in DeviceGrant; here a poll is served in one *)
(* step.                                                                   *)
(***************************************************************************)
EXTENDS Naturals

CONSTANTS
    TTL,                \* deviceCodeTTL
    Interval,           \* deviceCodeInterval, and the client's first interval
    Backoff,            \* what the client adds to its interval on slow_down
    MaxDelay,           \* bound: one message
    MaxTime             \* bound: the clock

ASSUME TimeAssumption ==
    /\ TTL \in Nat /\ MaxDelay \in Nat /\ MaxTime \in Nat
    /\ Interval \in Nat \ {0} /\ Backoff \in Nat

VARIABLES
    clock,
    codeStatus,         \* of the device code
    lastPolled,         \* last_polled_at, or Never
    at,                 \* where the client is
    due,                \* when its message arrives at the latest, or its timer fires
    interval, deadline, \* of the client
    reply,              \* of the server, in flight
    outcome,            \* what WaitForDeviceCode returned
    approvedAt          \* history: when the user approved, or Never

server == <<codeStatus, lastPolled, approvedAt>>
pollVars == <<clock, codeStatus, lastPolled, at, due, interval, deadline, reply,
              outcome, approvedAt>>

Never == MaxTime + 1

PollInit ==
    /\ clock = 0
    /\ codeStatus = "pending"
    /\ lastPolled = Never
    /\ at = "start"
    /\ due = MaxDelay
    /\ interval = Interval
    /\ deadline = 0
    /\ reply = "none"
    /\ outcome = "none"
    /\ approvedAt = Never

\* The client has the device code: WaitForDeviceCode is called.
Start ==
    /\ at = "start"
    /\ deadline' = clock + TTL
    /\ at' = "sending"
    /\ due' = clock + MaxDelay
    /\ UNCHANGED <<clock, server, interval, reply, outcome>>

Respond(e) == reply' = e /\ at' = "replying" /\ due' = clock + MaxDelay

\* Mutant: the interval is compared with <= instead of <.
ServePollStrict ==
    /\ at = "sending"
    /\ IF clock > TTL
       THEN Respond("expired_token") /\ UNCHANGED <<codeStatus, lastPolled>>
       ELSE /\ lastPolled' = clock
            /\ IF lastPolled # Never /\ clock - lastPolled <= Interval
               THEN Respond("slow_down") /\ UNCHANGED codeStatus
               ELSE IF codeStatus = "approved"
                    THEN Respond("tokens") /\ codeStatus' = "consumed"
                    ELSE /\ Respond(IF codeStatus = "pending" THEN "authorization_pending"
                                    ELSE IF codeStatus = "denied" THEN "access_denied"
                                    ELSE "invalid_grant")
                         /\ UNCHANGED codeStatus
    /\ UNCHANGED <<clock, interval, deadline, outcome, approvedAt>>

\* grantDeviceCode: expiry first, then the interval, then the status.  Every
\* poll before the expiry moves last_polled_at, the refused ones too.
ServePoll ==
    /\ at = "sending"
    /\ IF clock > TTL
       THEN Respond("expired_token") /\ UNCHANGED <<codeStatus, lastPolled>>
       ELSE /\ lastPolled' = clock
            /\ IF lastPolled # Never /\ clock - lastPolled < Interval
               THEN Respond("slow_down") /\ UNCHANGED codeStatus
               ELSE IF codeStatus = "approved"
                    THEN Respond("tokens") /\ codeStatus' = "consumed"
                    ELSE /\ Respond(IF codeStatus = "pending" THEN "authorization_pending"
                                    ELSE IF codeStatus = "denied" THEN "access_denied"
                                    ELSE "invalid_grant")
                         /\ UNCHANGED codeStatus
    /\ UNCHANGED <<clock, interval, deadline, outcome, approvedAt>>

Stop(o) == at' = "done" /\ outcome' = o /\ UNCHANGED <<due, interval>>
SleepFrom(t, i) ==
    at' = "sleeping" /\ interval' = i /\ due' = t + i /\ UNCHANGED outcome
Patience(r) == IF r = "slow_down" THEN interval + Backoff ELSE interval

\* Mutant: every error but a denial is retried, without a deadline.
ReceiveForever ==
    /\ at = "replying"
    /\ IF reply \in {"tokens", "access_denied"} THEN Stop(reply)
       ELSE SleepFrom(clock, Patience(reply))
    /\ reply' = "none"
    /\ UNCHANGED <<clock, server, deadline>>

\* Mutant: the client backs off on authorization_pending as well.
ReceiveBackoff ==
    /\ at = "replying"
    /\ IF reply \notin {"authorization_pending", "slow_down"} THEN Stop(reply)
       ELSE IF clock > deadline THEN Stop("deadline")
       ELSE SleepFrom(clock, interval + Backoff)
    /\ reply' = "none"
    /\ UNCHANGED <<clock, server, deadline>>

\* The client's switch on the reply; the timer starts when the reply is in.
Receive ==
    /\ at = "replying"
    /\ IF reply \notin {"authorization_pending", "slow_down"} THEN Stop(reply)
       ELSE IF clock > deadline THEN Stop("deadline")
       ELSE SleepFrom(clock, Patience(reply))
    /\ reply' = "none"
    /\ UNCHANGED <<clock, server, deadline>>

\* time.After fires and the next request is sent.
Wake ==
    /\ at = "sleeping"
    /\ clock >= due
    /\ at' = "sending"
    /\ due' = clock + MaxDelay
    /\ UNCHANGED <<clock, server, interval, deadline, reply, outcome>>

\* The request or the reply is lost: the transport reports an error and the
\* default case of the switch returns it.
Lose ==
    /\ at \in {"sending", "replying"}
    /\ Stop("error")
    /\ reply' = "none"
    /\ UNCHANGED <<clock, server, deadline>>

\* The user decides on /device, while the code is pending and unexpired.
Decide(d) ==
    /\ codeStatus = "pending"
    /\ clock <= TTL
    /\ codeStatus' = d
    /\ approvedAt' = IF d = "approved" THEN clock ELSE approvedAt
    /\ UNCHANGED <<clock, lastPolled, at, due, interval, deadline, reply, outcome>>

\* Time passes, but not past the arrival of a message or a due timer.
Tick ==
    /\ clock < MaxTime
    /\ at # "done" => clock < due
    /\ clock' = clock + 1
    /\ UNCHANGED <<server, at, due, interval, deadline, reply, outcome>>

PollNext ==
    \/ Start \/ ServePoll \/ Receive \/ Wake \/ Lose \/ Tick
    \/ \E d \in {"approved", "denied"} : Decide(d)

\* Clocks run, messages arrive and timers fire.
Fairness ==
    /\ WF_pollVars(Tick)
    /\ WF_pollVars(Start)
    /\ WF_pollVars(ServePoll)
    /\ WF_pollVars(Receive)
    /\ WF_pollVars(Wake)

PollSpec == PollInit /\ [][PollNext]_pollVars /\ Fairness

-----------------------------------------------------------------------------
(* Properties.                                                             *)

Times == 0..(2 * MaxTime + 1)
PollTypeOK ==
    /\ clock \in 0..MaxTime
    /\ codeStatus \in {"pending", "approved", "denied", "consumed"}
    /\ lastPolled \in 0..clock \cup {Never}
    /\ at \in {"start", "sending", "replying", "sleeping", "done"}
    /\ due \in Times /\ interval \in Times /\ deadline \in Times
    /\ approvedAt \in 0..clock \cup {Never}

\* A client that sleeps its interval from the reply on is never told to slow
\* down, however long or short its messages travel.
NeverSlowedDown == reply # "slow_down"

\* A user who approves early enough is not asked again: if the code expires
\* uncollected, the approval came less than an interval and two messages before
\* the end of its life.
ApprovedInTimeIsCollected ==
    outcome \in {"expired_token", "deadline"} /\ approvedAt # Never
    => approvedAt + Interval + 2 * MaxDelay > TTL

\* Whatever the user does, the wait ends.
WaitEnds == <>(at = "done")
=============================================================================
