---------------------------- MODULE GatewayAuth ----------------------------
(***************************************************************************)
(* How a gateway gets through to the server: verifyGatewayHmac             *)
(* (services/hmac.ts), the two routes of routes/inbound.ts with their rate *)
(* limits, the receivers' rows, and `syrotp receiver`, whose commands      *)
(* (packages/cli/src/commands/receiver.ts, admin/receivers.ts) read and    *)
(* write those rows while requests are handled.                            *)
(*                                                                         *)
(* A request is handled in the steps between its awaits.  The nonce of a   *)
(* message is the message itself: a gateway draws a fresh one for every    *)
(* request it signs, a retried upload included, but one signed request may *)
(* arrive more than once.  rateCheck is one step: its round trip to Redis  *)
(* is short against its window.                                            *)
(*                                                                         *)
(* Time is relative, as in WebhookWorker: the rows and the requests hold   *)
(* how many seconds ago something was, as far as anybody asks; the clock   *)
(* itself is only the second of the current rate limit window.             *)
(***************************************************************************)
EXTENDS RateLimit

CONSTANTS
    Receivers, Messages, Handlers, Commands,
    INBOUND_TIMESTAMP_SKEW_SECONDS,
    RECEIVER_HEARTBEAT_TIMEOUT_SECONDS,
    WindowSeconds,              \* 60 in the code, for every limit
    PerIp, PerReceiver, PerApp, PerHeartbeat,   \* RATE_LIMIT_*_PER_MIN
    Offsets,                    \* time stamp of a request minus its arrival
    MaxStall,                   \* bound: seconds that a request is in hand
    MaxArrivals,                \* bound: requests that arrive
    MaxRuns,                    \* bound: commands run
    MaxFaults                   \* bound: rate checks without reply, and failures

ASSUME AuthNumbers ==
    /\ INBOUND_TIMESTAMP_SKEW_SECONDS \in Nat \ {0}
    /\ RECEIVER_HEARTBEAT_TIMEOUT_SECONDS \in Nat \ {0}
    /\ WindowSeconds \in Nat \ {0}
    /\ {PerIp, PerReceiver, PerApp, PerHeartbeat} \subseteq Nat
    /\ Offsets \subseteq Int
    /\ {MaxStall, MaxArrivals, MaxRuns, MaxFaults} \subseteq Nat

VARIABLES
    now,            \* the second of the current window
    receivers,      \* the table receivers; last_heartbeat_at as its age
    nonces,         \* Redis: how long the key of a message's nonce still lives
    buckets,        \* Redis: the rate limit counters
    stored,         \* inbound_sms: the messages stored, by idempotency key
    wire,           \* the signed requests of the gateways and of `receiver test`
    handlers,       \* the requests in hand
    commands,       \* the runs of `syrotp receiver`
    arrivals, runs, noReplies, failures,
    accepted,       \* history: how often, and how long ago, a nonce was accepted
    admitted,       \* history: SMS let through the limit of the app in this window
    heard,          \* history: age of the newest heartbeat answered 200
    silenced        \* history: receivers disabled, with no enable since

vars == <<now, receivers, nonces, buckets, stored, wire, handlers, commands,
          arrivals, runs, noReplies, failures, accepted, admitted, heard, silenced>>

requestVars == <<handlers, nonces, buckets, stored, wire, arrivals, runs, noReplies, failures,
                 accepted, admitted, heard>>

Never == -1
Absent == [state |-> "absent", heartbeatAge |-> Never]
Unsigned == [kind |-> "none", receiver |-> "none", ahead |-> 0]
Idle == [pc |-> "idle", msg |-> "none", inHand |-> 0, ago |-> 0, muted |-> FALSE]
NotRun == [pc |-> "idle", sub |-> "none", receiver |-> "none"]

\* Ages that nobody tells apart any more.
OldHeartbeat == RECEIVER_HEARTBEAT_TIMEOUT_SECONDS + 1
Older(age, old) == IF age = Never \/ age = old THEN age ELSE age + 1

BucketNames == ({"ip", "app"} \X {"all"}) \cup ({"sms", "heartbeat"} \X Receivers)

-----------------------------------------------------------------------------
(* The gateways and the network.                                           *)

\* The request is answered (what a gateway makes of the status is the module
\* GsmGateway), or goes on to its next await.
Reply(h, status) == handlers' = [handlers EXCEPT ![h] = Idle]

GoOn(h, pc) == handlers' = [handlers EXCEPT ![h].pc = pc]

\* A request arrives: headers, the form of the receiver id and the raw body
\* are checked before anything is awaited.
Begin(h, m, r) ==
    /\ handlers[h] = Idle
    /\ arrivals < MaxArrivals
    /\ arrivals' = arrivals + 1
    /\ handlers' = [handlers EXCEPT ![h] =
          [Idle EXCEPT !.pc = "ip", !.msg = m, !.muted = r \in silenced]]
    /\ UNCHANGED <<now, receivers, nonces, buckets, stored, commands, runs, noReplies, failures,
                   accepted, admitted, heard, silenced>>

\* A gateway's request, with a fresh nonce.  Its delay and what the gateway's
\* clock is ahead by are in the offset.
Arrive(h, m) ==
    /\ wire[m] = Unsigned
    /\ \E kind \in {"sms", "heartbeat"}, r \in Receivers, offset \in Offsets :
          /\ receivers[r] # Absent
          /\ wire' = [wire EXCEPT ![m] = [kind |-> kind, receiver |-> r, ahead |-> offset]]
          /\ Begin(h, m, r)

\* A request arrives once more.
ArriveAgain(h, m) ==
    /\ wire[m] # Unsigned
    /\ Begin(h, m, wire[m].receiver)
    /\ UNCHANGED wire

-----------------------------------------------------------------------------
(* rateCheck, in the three places where the routes call it.                *)

\* Redis counts the request, or gives no reply and lets it pass.  Then the
\* route goes on with Pass, or answers 429.
RateCheck(h, name, limit, Pass) ==
    \/ /\ buckets' = [buckets EXCEPT ![name] = Hit(@, now, WindowSeconds, limit)]
       /\ IF Allowed(buckets'[name], limit) THEN Pass ELSE Reply(h, 429)
       /\ UNCHANGED noReplies
    \/ /\ noReplies + failures < MaxFaults
       /\ noReplies' = noReplies + 1
       /\ Pass
       /\ UNCHANGED buckets

WithinSkew(m) ==
    /\ wire[m].ahead <= INBOUND_TIMESTAMP_SKEW_SECONDS
    /\ -wire[m].ahead <= INBOUND_TIMESTAMP_SKEW_SECONDS

\* The limit per address comes first; then verifyGatewayHmac begins with the
\* time stamp, before its SELECT.
IpCheck(h) ==
    /\ handlers[h].pc = "ip"
    /\ RateCheck(h, <<"ip", "all">>, PerIp,
          IF WithinSkew(handlers[h].msg) THEN GoOn(h, "select") ELSE Reply(h, 401))
    /\ UNCHANGED <<now, receivers, nonces, stored, wire, commands, arrivals, runs, failures,
                   accepted, admitted, heard, silenced>>

\* Fault: the row is found whether or not it is enabled.
AnyRow(r) == receivers[r] # Absent

\* The row exists and is enabled.
Known(r) == receivers[r].state = "enabled"

\* The row's key is unwrapped and makes the signature, or not (a gateway that
\* was paired with another receiver's key, another master key).
SelectReceiver(h) ==
    /\ handlers[h].pc = "select"
    /\ \/ Known(wire[handlers[h].msg].receiver) /\ GoOn(h, "nonce")
       \/ Reply(h, 401)
    /\ UNCHANGED <<now, receivers, nonces, buckets, stored, wire, commands, arrivals, runs, noReplies,
                   failures, accepted, admitted, heard, silenced>>

\* Fault: SET without NX.
AlwaysFree(m) == TRUE

\* SET NX finds no key.
NonceFree(m) == nonces[m] = 0

TakeNonce(h) ==
    LET m == handlers[h].msg
    IN  /\ handlers[h].pc = "nonce"
        /\ IF NonceFree(m)
             THEN /\ nonces' = [nonces EXCEPT ![m] = INBOUND_TIMESTAMP_SKEW_SECONDS]
                  /\ accepted' = [accepted EXCEPT ![m] = [times |-> @.times + 1, age |-> 0]]
                  /\ GoOn(h, "receiver")
             ELSE /\ Reply(h, 401)
                  /\ UNCHANGED <<nonces, accepted>>
        /\ UNCHANGED <<now, receivers, buckets, stored, wire, commands, arrivals, runs, noReplies,
                       failures, admitted, heard, silenced>>

\* The limit per receiver; the heartbeat route reads the clock right after it.
ReceiverCheck(h) ==
    LET request == wire[handlers[h].msg]
        sms == request.kind = "sms"
    IN  /\ handlers[h].pc = "receiver"
        /\ RateCheck(h, <<request.kind, request.receiver>>, IF sms THEN PerReceiver ELSE PerHeartbeat,
              GoOn(h, IF sms THEN "app" ELSE "age"))
        /\ UNCHANGED <<now, receivers, nonces, stored, wire, commands, arrivals, runs, failures,
                       accepted, admitted, heard, silenced>>

-----------------------------------------------------------------------------
(* POST /v1/inbound/sms                                                    *)

AppCheck(h) ==
    /\ handlers[h].pc = "app"
    /\ RateCheck(h, <<"app", "all">>, PerApp, GoOn(h, "process"))
    /\ admitted' = IF handlers'[h].pc = "process" THEN admitted + 1 ELSE admitted
    /\ UNCHANGED <<now, receivers, nonces, stored, wire, commands, arrivals, runs, failures,
                   accepted, heard, silenced>>

\* Validation refuses the body, or processInbound stores the SMS unless its
\* key is there already (what it then does with it is the module Matching).
ProcessInbound(h) ==
    LET m == handlers[h].msg
    IN  /\ handlers[h].pc = "process"
        /\ \/ /\ Reply(h, 400)
              /\ UNCHANGED stored
           \/ /\ Reply(h, IF m \in stored THEN 409 ELSE 202)
              /\ stored' = stored \cup {m}
        /\ UNCHANGED <<now, receivers, nonces, buckets, wire, commands, arrivals, runs, noReplies,
                       failures, accepted, admitted, heard, silenced>>

-----------------------------------------------------------------------------
(* POST /v1/receivers/:id/heartbeat                                        *)

\* Fault: a heartbeat is written only when the last one has timed out.
StaleAfterTimeout(age, ago) ==
    age = Never \/ age - ago > RECEIVER_HEARTBEAT_TIMEOUT_SECONDS

\* When the route read the clock, ago seconds ago, the last heartbeat written
\* was older than a quarter of the timeout.
WorthWriting(age, ago) ==
    age = Never \/ age - ago > RECEIVER_HEARTBEAT_TIMEOUT_SECONDS \div 4

\* The heartbeat route holds the time it read after its last rate check.
ReadClock(h) == handlers[h].pc \in {"age", "update"}

\* 200, with or without a write.
Acknowledge(h) ==
    /\ Reply(h, 200)
    /\ heard' = [heard EXCEPT ![wire[handlers[h].msg].receiver] =
                    IF @ = Never \/ @ > handlers[h].ago THEN handlers[h].ago ELSE @]

HeartbeatAge(h) ==
    LET r == wire[handlers[h].msg].receiver
    IN  /\ handlers[h].pc = "age"
        /\ \/ /\ Reply(h, 400)
              /\ UNCHANGED heard
           \/ /\ WorthWriting(receivers[r].heartbeatAge, handlers[h].ago)
              /\ GoOn(h, "update")
              /\ UNCHANGED heard
           \/ /\ ~WorthWriting(receivers[r].heartbeatAge, handlers[h].ago)
              /\ Acknowledge(h)
        /\ UNCHANGED <<now, receivers, nonces, buckets, stored, wire, commands, arrivals, runs, noReplies,
                       failures, accepted, admitted, silenced>>

\* The UPDATE writes the time read before the SELECT, whatever was written since.
HeartbeatUpdate(h) ==
    LET r == wire[handlers[h].msg].receiver
    IN  /\ handlers[h].pc = "update"
        /\ receivers' = [receivers EXCEPT ![r].heartbeatAge = handlers[h].ago]
        /\ Acknowledge(h)
        /\ UNCHANGED <<now, nonces, buckets, stored, wire, commands, arrivals, runs, noReplies,
                       failures, accepted, admitted, silenced>>

\* Redis or Postgres fails: 500, and a SET that was sent may have been done.
Fail(h) ==
    LET m == handlers[h].msg
    IN  /\ noReplies + failures < MaxFaults
        /\ handlers[h].pc # "idle"
        /\ failures' = failures + 1
        /\ Reply(h, 500)
        /\ nonces' \in {nonces} \cup
              (IF handlers[h].pc = "nonce" /\ NonceFree(m)
                 THEN {[nonces EXCEPT ![m] = INBOUND_TIMESTAMP_SKEW_SECONDS]} ELSE {})
        /\ UNCHANGED <<now, receivers, buckets, stored, wire, commands, arrivals, runs, noReplies,
                       accepted, admitted, heard, silenced>>

-----------------------------------------------------------------------------
(* syrotp receiver add | list | disable | enable | test                    *)

\* listReceivers and the gauges.
Healthy(r) ==
    /\ receivers[r].state = "enabled"
    /\ receivers[r].heartbeatAge # Never
    /\ receivers[r].heartbeatAge <= RECEIVER_HEARTBEAT_TIMEOUT_SECONDS

\* The WHERE of pickReceiver: at the timeout itself a receiver that is listed as
\* healthy is no longer chosen.
Choosable(r) == Healthy(r) /\ receivers[r].heartbeatAge < RECEIVER_HEARTBEAT_TIMEOUT_SECONDS

Running(sub, r) ==
    \E c \in Commands : commands[c].sub = sub /\ commands[c].receiver = r

Exit(c, exit) == commands' = [commands EXCEPT ![c] = NotRun]

\* A command whose arguments and environment are in order gets to its first
\* await; the others print and exit, and leave everything as it is.
RunCommand(c) ==
    /\ commands[c] = NotRun
    /\ runs < MaxRuns
    /\ runs' = runs + 1
    /\ \E sub \in {"disable", "enable"}, r \in Receivers :
          /\ commands' = [commands EXCEPT ![c] = [pc |-> "read", sub |-> sub, receiver |-> r]]
          /\ IF sub = "enable"
               THEN /\ silenced' = silenced \ {r}
                    /\ handlers' = [h \in Handlers |->
                          IF handlers[h] # Idle /\ wire[handlers[h].msg].receiver = r
                            THEN [handlers[h] EXCEPT !.muted = FALSE] ELSE handlers[h]]
               ELSE UNCHANGED <<silenced, handlers>>
    /\ UNCHANGED <<now, receivers, nonces, buckets, stored, wire, arrivals, noReplies,
                   failures, accepted, admitted, heard>>

\* addReceiver: the app is there, and the row has a heartbeat only if
\* --simulate-heartbeat asks for one.
NewReceiver(simulateHeartbeat) ==
    [state |-> "enabled", heartbeatAge |-> IF simulateHeartbeat THEN 0 ELSE Never]

\* `receiver add` inserts a row under a new id, or fails and inserts none.
AddReceiver(r) ==
    /\ receivers[r] = Absent
    /\ \E simulate \in BOOLEAN : receivers' = [receivers EXCEPT ![r] = NewReceiver(simulate)]
    /\ UNCHANGED <<now, requestVars, commands, silenced>>

\* What a disable that exits 0 has promised.
Silence(c) ==
    LET r == commands[c].receiver
    IN  silenced' = IF commands[c].sub = "disable" /\ ~Running("enable", r)
                      THEN silenced \cup {r} ELSE silenced

Wanted(c) == IF commands[c].sub = "disable" THEN "disabled" ELSE "enabled"

\* disableReceiver and enableReceiver: a SELECT, and an UPDATE if it is needed.
ReadReceiver(c) ==
    LET r == commands[c].receiver
    IN  /\ commands[c].pc = "read"
        /\ \/ /\ receivers[r] = Absent
              /\ Exit(c, "RUNTIME")
              /\ UNCHANGED silenced
           \/ /\ receivers[r].state = Wanted(c)
              /\ Exit(c, "OK")
              /\ Silence(c)
           \/ /\ receivers[r].state \notin {"absent", Wanted(c)}
              /\ commands' = [commands EXCEPT ![c].pc = "write"]
              /\ UNCHANGED silenced
        /\ UNCHANGED <<now, receivers, requestVars>>

WriteReceiver(c) ==
    /\ commands[c].pc = "write"
    /\ receivers' = [receivers EXCEPT ![commands[c].receiver].state = Wanted(c)]
    /\ Exit(c, "OK")
    /\ Silence(c)
    /\ UNCHANGED <<now, requestVars>>

\* Postgres cannot be reached: mapAdminError.  The UPDATE may have been done.
CommandFails(c) ==
    /\ noReplies + failures < MaxFaults
    /\ commands[c].pc # "idle"
    /\ failures' = failures + 1
    /\ Exit(c, "UNREACHABLE")
    /\ receivers' \in {receivers} \cup
          (IF commands[c].pc = "write"
             THEN {[receivers EXCEPT ![commands[c].receiver].state = Wanted(c)]} ELSE {})
    /\ UNCHANGED <<now, handlers, nonces, buckets, stored, wire, arrivals, runs, noReplies,
                   accepted, admitted, heard, silenced>>

-----------------------------------------------------------------------------

\* A second passes, and Redis drops the keys whose time has come.
Tick ==
    /\ \A h \in Handlers : handlers[h] # Idle => handlers[h].inHand < MaxStall
    /\ now' = (now + 1) % WindowSeconds
    /\ receivers' = [r \in Receivers |-> [receivers[r] EXCEPT !.heartbeatAge = Older(@, OldHeartbeat)]]
    /\ nonces' = [m \in Messages |-> IF nonces[m] > 0 THEN nonces[m] - 1 ELSE 0]
    /\ buckets' = IF now' = 0 THEN [b \in BucketNames |-> EmptyBucket] ELSE buckets
    /\ wire' = [m \in Messages |->
          IF wire[m] = Unsigned \/ wire[m].ahead < -INBOUND_TIMESTAMP_SKEW_SECONDS THEN wire[m]
          ELSE [wire[m] EXCEPT !.ahead = @ - 1]]
    /\ handlers' = [h \in Handlers |->
          IF handlers[h] = Idle THEN Idle
          ELSE [handlers[h] EXCEPT !.inHand = @ + 1, !.ago = IF ReadClock(h) THEN @ + 1 ELSE 0]]
    /\ accepted' = [m \in Messages |->
          [accepted[m] EXCEPT !.age = IF @ < INBOUND_TIMESTAMP_SKEW_SECONDS THEN @ + 1 ELSE @]]
    /\ admitted' = IF now' = 0 THEN 0 ELSE admitted
    /\ heard' = [r \in Receivers |-> Older(heard[r], OldHeartbeat)]
    /\ UNCHANGED <<stored, commands, arrivals, runs, noReplies, failures, silenced>>

Init ==
    /\ now = 0
    /\ receivers = [r \in Receivers |-> Absent]
    /\ nonces = [m \in Messages |-> 0]
    /\ buckets = [b \in BucketNames |-> EmptyBucket]
    /\ stored = {}
    /\ wire = [m \in Messages |-> Unsigned]
    /\ handlers = [h \in Handlers |-> Idle]
    /\ commands = [c \in Commands |-> NotRun]
    /\ arrivals = 0 /\ runs = 0 /\ noReplies = 0 /\ failures = 0
    /\ accepted = [m \in Messages |-> [times |-> 0, age |-> 0]]
    /\ admitted = 0
    /\ heard = [r \in Receivers |-> Never]
    /\ silenced = {}

HandlerStep(h) ==
    \/ IpCheck(h) \/ SelectReceiver(h) \/ TakeNonce(h) \/ ReceiverCheck(h) \/ AppCheck(h)
    \/ ProcessInbound(h) \/ HeartbeatAge(h) \/ HeartbeatUpdate(h) \/ Fail(h)

CommandStep(c) ==
    \/ RunCommand(c) \/ ReadReceiver(c) \/ WriteReceiver(c) \/ CommandFails(c)

Next ==
    \/ \E h \in Handlers, m \in Messages : Arrive(h, m) \/ ArriveAgain(h, m)
    \/ \E h \in Handlers : HandlerStep(h)
    \/ \E r \in Receivers : AddReceiver(r)
    \/ \E c \in Commands : CommandStep(c)
    \/ Tick

Spec == Init /\ [][Next]_vars

-----------------------------------------------------------------------------

\* The replay guard of verifyGatewayHmac: two requests with one nonce that are
\* both accepted are INBOUND_TIMESTAMP_SKEW_SECONDS apart or more, also when
\* they are handled at once; and the time stamp bounds how many there can be.
\* (One is not the bound: the key lives from the acceptance on, the time stamp
\* may be ahead of it.)
AcceptedApart ==
    [][\A m \in Messages :
          accepted'[m].times # accepted[m].times =>
              /\ accepted[m].times > 0 => accepted[m].age >= INBOUND_TIMESTAMP_SKEW_SECONDS
              /\ accepted[m].times * INBOUND_TIMESTAMP_SKEW_SECONDS
                    <= 2 * INBOUND_TIMESTAMP_SKEW_SECONDS + MaxStall]_vars

\* The fixed windows of rateCheck: in one window an app never gets more SMS
\* through than its limit, however its receivers' requests overlap, apart from
\* the rate checks that Redis gave no reply to.
AppWithinLimit == admitted <= PerApp + noReplies

\* A gateway that was answered 200 is listed as healthy for the rest of the
\* timeout, and may be chosen until just before its end, except for the quarter
\* of it that the heartbeat route saves writes by, or for the time that an
\* overlapping heartbeat was in hand.
HeardMeansHealthy ==
    LET quarter == RECEIVER_HEARTBEAT_TIMEOUT_SECONDS \div 4
        slack == IF MaxStall > quarter THEN MaxStall ELSE quarter
    IN  \A r \in Receivers :
           receivers[r].state = "enabled" /\ heard[r] # Never =>
              /\ heard[r] <= RECEIVER_HEARTBEAT_TIMEOUT_SECONDS - slack => Healthy(r)
              /\ heard[r] < RECEIVER_HEARTBEAT_TIMEOUT_SECONDS - slack => Choosable(r)

\* Once `syrotp receiver disable` has exited 0, and until an enable is begun,
\* no request that arrives is authenticated.
DisabledIsObeyed ==
    \A h \in Handlers : handlers[h].muted => handlers[h].pc \in {"ip", "select"}

=============================================================================
