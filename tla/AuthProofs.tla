----------------------------- MODULE AuthProofs -----------------------------
(***************************************************************************)
(* Proofs about GatewayAuth, for every number of receivers, requests and   *)
(* commands and every limit: how far apart one nonce can be accepted, the  *)
(* limit of a window, and what a 200 to a heartbeat and an exit 0 of       *)
(* `receiver disable` promise.                                             *)
(***************************************************************************)
EXTENDS GatewayAuth, TLAPS

-----------------------------------------------------------------------------
(* Types                                                                   *)

Pcs == {"idle", "ip", "select", "nonce", "receiver", "app", "process", "age", "update"}
Ages == {k \in Int : k >= Never}
ReceiverRow == [state : {"absent", "enabled", "disabled"}, heartbeatAge : Ages]
SignedRequest == [kind : {"none", "sms", "heartbeat"}, receiver : Receivers \cup {"none"}, ahead : Int]
Hand == [pc : Pcs, msg : Messages \cup {"none"}, inHand : Nat, ago : Nat, muted : BOOLEAN]
CommandRun == [pc : {"idle", "read", "write"}, sub : {"none", "disable", "enable"},
               receiver : Receivers \cup {"none"}]

RedisTypes ==
    /\ now \in Nat /\ now < WindowSeconds
    /\ nonces \in [Messages -> Nat]
    /\ buckets \in [BucketNames -> [window : {0}, count : Nat]]
    /\ noReplies \in Nat /\ failures \in Nat /\ admitted \in Nat
    /\ accepted \in [Messages -> [times : Nat, age : Nat]]

TableTypes ==
    /\ receivers \in [Receivers -> ReceiverRow]
    /\ commands \in [Commands -> CommandRun]
    /\ heard \in [Receivers -> Int]
    /\ silenced \subseteq Receivers

HandTypes ==
    /\ handlers \in [Handlers -> Hand]
    /\ wire \in [Messages -> SignedRequest]

AuthTypes == RedisTypes /\ TableTypes /\ HandTypes

\* A handler without a request is Idle; the request of the others was signed,
\* and is in hand no longer than the bound allows.
HandsRight ==
    \A h \in Handlers :
        /\ handlers[h].pc = "idle" => handlers[h] = Idle
        /\ handlers[h].pc # "idle" =>
              /\ handlers[h].msg \in Messages
              /\ wire[handlers[h].msg].kind # "none"
              /\ handlers[h].ago <= handlers[h].inHand
              /\ handlers[h].inHand <= MaxStall

\* A signed request names a receiver that has a row, and rows stay.
SignedRight ==
    \A m \in Messages :
        /\ wire[m].kind = "none" => wire[m] = Unsigned
        /\ wire[m].kind # "none" =>
              /\ wire[m].receiver \in Receivers
              /\ receivers[wire[m].receiver].state # "absent"

RowsRight ==
    \A r \in Receivers :
        receivers[r].state = "absent" => receivers[r].heartbeatAge = Never

\* A command that is under way knows what it does to which receiver; once it
\* has read the row, the row is there.
CommandsRight ==
    \A c \in Commands :
        /\ commands[c].pc = "idle" => commands[c] = NotRun
        /\ commands[c].pc # "idle" =>
              /\ commands[c].receiver \in Receivers
              /\ commands[c].sub \in {"disable", "enable"}
        /\ commands[c].pc = "write" => receivers[commands[c].receiver].state # "absent"

BaseInv == AuthTypes /\ HandsRight /\ SignedRight /\ RowsRight /\ CommandsRight

LEMMA BaseInit == Init => BaseInv
<1> SUFFICES ASSUME Init PROVE BaseInv
  OBVIOUS
<1>1. RedisTypes  BY AuthNumbers DEF Init, RedisTypes, EmptyBucket
<1>2. TableTypes  BY DEF Init, TableTypes, ReceiverRow, CommandRun, Absent, NotRun, Never, Ages
<1>3. HandTypes  BY DEF Init, HandTypes, Hand, Pcs, SignedRequest, Idle, Unsigned
<1>4. HandsRight  BY DEF Init, HandsRight, Idle
<1>5. SignedRight  BY DEF Init, SignedRight, Unsigned
<1>6. RowsRight  BY DEF Init, RowsRight, Absent
<1>7. CommandsRight  BY DEF Init, CommandsRight, NotRun
<1> QED BY <1>1, <1>2, <1>3, <1>4, <1>5, <1>6, <1>7 DEF BaseInv, AuthTypes

-----------------------------------------------------------------------------
(* What a step does to the requests in hand                                *)

\* Request h is answered, or goes on to the await p; the others stay.
Answers(h) == handlers' = [handlers EXCEPT ![h] = Idle]
GoesOn(h, p) == handlers[h].pc # "idle" /\ handlers' = [handlers EXCEPT ![h].pc = p]

\* A rate check counts in its own bucket, or Redis gave no reply.
Counts(name, limit) ==
    /\ buckets' = [buckets EXCEPT ![name] = Hit(@, now, WindowSeconds, limit)]
    /\ UNCHANGED noReplies
NoReply == UNCHANGED buckets /\ noReplies' = noReplies + 1

LEMMA IpEffect ==
    ASSUME NEW h, IpCheck(h)
    PROVE  /\ Counts(<<"ip", "all">>, PerIp) \/ NoReply
           /\ \/ GoesOn(h, "select") /\ WithinSkew(handlers[h].msg)
              \/ Answers(h)
BY DEF IpCheck, RateCheck, GoOn, Reply, Counts, NoReply, GoesOn, Answers

LEMMA ReceiverEffect ==
    ASSUME NEW h, ReceiverCheck(h)
    PROVE  /\ (\E limit : Counts(<<wire[handlers[h].msg].kind, wire[handlers[h].msg].receiver>>, limit)) \/ NoReply
           /\ GoesOn(h, "app") \/ GoesOn(h, "age") \/ Answers(h)
<1> DEFINE request == wire[handlers[h].msg]
           sms == request.kind = "sms"
           limit == IF sms THEN PerReceiver ELSE PerHeartbeat
<1>1. RateCheck(h, <<request.kind, request.receiver>>, limit, GoOn(h, IF sms THEN "app" ELSE "age"))
      /\ handlers[h].pc = "receiver"
  BY DEF ReceiverCheck
<1>2. Counts(<<request.kind, request.receiver>>, limit) \/ NoReply  BY <1>1 DEF RateCheck, Counts, NoReply
<1>3. GoOn(h, IF sms THEN "app" ELSE "age") \/ Reply(h, 429)  BY <1>1 DEF RateCheck
<1> QED BY <1>1, <1>2, <1>3 DEF GoOn, Reply, GoesOn, Answers

LEMMA AppEffect ==
    ASSUME NEW h, AppCheck(h)
    PROVE  \/ /\ Counts(<<"app", "all">>, PerApp)
              /\ \/ GoesOn(h, "process") /\ Allowed(buckets'[<<"app", "all">>], PerApp)
                 \/ Answers(h)
           \/ NoReply /\ GoesOn(h, "process")
BY DEF AppCheck, RateCheck, GoOn, Reply, Counts, NoReply, GoesOn, Answers

LEMMA SmallQuotient ==
    ASSUME NEW a \in Nat, NEW b \in Nat \ {0}, a < b
    PROVE  a \div b = 0
OBVIOUS

LEMMA HitType ==
    ASSUME RedisTypes, NEW b \in [window : {0}, count : Nat], NEW limit
    PROVE  /\ Hit(b, now, WindowSeconds, limit) \in [window : {0}, count : Nat]
           /\ Hit(b, now, WindowSeconds, limit).count \in {b.count, b.count + 1}
<1>1. now \div WindowSeconds = 0  BY SmallQuotient, AuthNumbers DEF RedisTypes
<1> QED BY <1>1 DEF Hit

LEMMA CountsType ==
    ASSUME RedisTypes, NEW name, NEW limit, Counts(name, limit) \/ NoReply
    PROVE  /\ buckets' \in [BucketNames -> [window : {0}, count : Nat]]
           /\ noReplies' \in Nat
           /\ \A b \in BucketNames : b # name => buckets'[b] = buckets[b]
BY HitType DEF RedisTypes, Counts, NoReply

\* A request arrives, carrying message m.
Begins(h, m) ==
    /\ handlers[h] = Idle
    /\ wire'[m].kind # "none"
    /\ \E muted \in BOOLEAN :
          handlers' = [handlers EXCEPT ![h] = [Idle EXCEPT !.pc = "ip", !.msg = m, !.muted = muted]]

\* Nobody is told apart from before, but by what is muted.
Unmutes ==
    /\ handlers' = [h \in Handlers |-> handlers'[h]]
    /\ \A h \in Handlers : handlers'[h] \in {handlers[h], [handlers[h] EXCEPT !.muted = FALSE]}
    /\ \A h \in Handlers : handlers[h] = Idle => handlers'[h] = Idle

\* A message is signed for the first time, for a receiver that has a row.
Signs(m) ==
    /\ wire[m] = Unsigned
    /\ \E kind \in {"sms", "heartbeat"}, r \in Receivers, offset \in Int :
          /\ receivers[r].state # "absent"
          /\ wire' = [wire EXCEPT ![m] = [kind |-> kind, receiver |-> r, ahead |-> offset]]

Moves(h) == Answers(h) \/ \E p \in Pcs \ {"idle"} : GoesOn(h, p)

\* The steps, as far as the requests in hand can tell them apart.
HandEffect ==
    \/ UNCHANGED <<handlers, wire>>
    \/ \E h \in Handlers, m \in Messages : Begins(h, m) /\ (Signs(m) \/ UNCHANGED wire)
    \/ \E h \in Handlers : Moves(h) /\ UNCHANGED wire
    \/ Unmutes /\ UNCHANGED wire
    \/ Tick

RowsStay == \A r \in Receivers : receivers[r].state # "absent" => receivers'[r].state # "absent"

LEMMA HandEffects ==
    ASSUME BaseInv, [Next]_vars
    PROVE  HandEffect
<1> USE DEF BaseInv, AuthTypes
<1>1. ASSUME NEW h \in Handlers, NEW m \in Messages, Arrive(h, m) PROVE HandEffect
  <2>1. PICK kind \in {"sms", "heartbeat"}, r \in Receivers, offset \in Offsets :
            /\ receivers[r] # Absent
            /\ wire' = [wire EXCEPT ![m] = [kind |-> kind, receiver |-> r, ahead |-> offset]]
            /\ Begin(h, m, r)
    BY <1>1 DEF Arrive
  <2>2. receivers[r].state # "absent"  BY <2>1 DEF RowsRight, Absent, TableTypes, ReceiverRow
  <2>3. Signs(m)  BY <1>1, <2>1, <2>2, AuthNumbers DEF Arrive, Signs
  <2>4. wire'[m].kind # "none"  BY <2>1 DEF HandTypes
  <2>5. (r \in silenced) \in BOOLEAN  OBVIOUS
  <2>6. Begins(h, m)  BY <2>1, <2>4, <2>5 DEF Begin, Begins
  <2> QED BY <2>3, <2>6 DEF HandEffect
<1>2. ASSUME NEW h \in Handlers, NEW m \in Messages, ArriveAgain(h, m) PROVE HandEffect
  <2>1. wire' = wire /\ wire[m].kind # "none"  BY <1>2 DEF ArriveAgain, SignedRight
  <2>2. (wire[m].receiver \in silenced) \in BOOLEAN  OBVIOUS
  <2>3. Begins(h, m)  BY <1>2, <2>1, <2>2 DEF ArriveAgain, Begin, Begins
  <2> QED BY <2>1, <2>3 DEF HandEffect
<1>3. ASSUME NEW h \in Handlers, HandlerStep(h) PROVE HandEffect
  <2>1. wire' = wire
    BY <1>3 DEF HandlerStep, IpCheck, SelectReceiver, TakeNonce, ReceiverCheck, AppCheck, ProcessInbound,
                HeartbeatAge, HeartbeatUpdate, Fail
  <2>2. Moves(h)
    <3>1. CASE IpCheck(h)  BY <3>1, IpEffect DEF Moves, Pcs
    <3>2. CASE SelectReceiver(h)  BY <3>2 DEF SelectReceiver, Moves, Pcs, GoOn, Reply, GoesOn, Answers
    <3>3. CASE TakeNonce(h)  BY <3>3 DEF TakeNonce, Moves, Pcs, GoOn, Reply, GoesOn, Answers
    <3>4. CASE ReceiverCheck(h)  BY <3>4, ReceiverEffect DEF Moves, Pcs
    <3>5. CASE AppCheck(h)  BY <3>5, AppEffect DEF Moves, Pcs
    <3>6. CASE ProcessInbound(h)  BY <3>6 DEF ProcessInbound, Moves, Reply, Answers
    <3>7. CASE HeartbeatAge(h)
      BY <3>7 DEF HeartbeatAge, Acknowledge, Moves, Pcs, GoOn, Reply, GoesOn, Answers
    <3>8. CASE HeartbeatUpdate(h)  BY <3>8 DEF HeartbeatUpdate, Acknowledge, Moves, Reply, Answers
    <3>9. CASE Fail(h)  BY <3>9 DEF Fail, Moves, Reply, Answers
    <3> QED BY <1>3, <3>1, <3>2, <3>3, <3>4, <3>5, <3>6, <3>7, <3>8, <3>9 DEF HandlerStep
  <2> QED BY <2>1, <2>2 DEF HandEffect
<1>4. ASSUME NEW r \in Receivers, AddReceiver(r) PROVE HandEffect
  BY <1>4 DEF AddReceiver, requestVars, HandEffect
<1>5. ASSUME NEW c \in Commands, CommandStep(c) PROVE HandEffect
  <2>1. CASE RunCommand(c)
    <3>1. wire' = wire  BY <2>1 DEF RunCommand
    <3>2. CASE UNCHANGED handlers  BY <3>1, <3>2 DEF HandEffect
    <3>3. CASE \E r \in Receivers : handlers' = [h \in Handlers |->
                          IF handlers[h] # Idle /\ wire[handlers[h].msg].receiver = r
                            THEN [handlers[h] EXCEPT !.muted = FALSE] ELSE handlers[h]]
      <4>1. Unmutes  BY <3>3 DEF Unmutes
      <4> QED BY <3>1, <4>1 DEF HandEffect
    <3> QED BY <2>1, <3>2, <3>3 DEF RunCommand
  <2>2. CASE ReadReceiver(c)  BY <2>2 DEF ReadReceiver, requestVars, HandEffect
  <2>3. CASE WriteReceiver(c)  BY <2>3 DEF WriteReceiver, requestVars, HandEffect
  <2>4. CASE CommandFails(c)  BY <2>4 DEF CommandFails, HandEffect
  <2> QED BY <1>5, <2>1, <2>2, <2>3, <2>4 DEF CommandStep
<1>6. ASSUME Tick PROVE HandEffect  BY <1>6 DEF HandEffect
<1>7. ASSUME UNCHANGED vars PROVE HandEffect  BY <1>7 DEF vars, HandEffect
<1> QED BY <1>1, <1>2, <1>3, <1>4, <1>5, <1>6, <1>7 DEF Next

LEMMA RowsStayThere ==
    ASSUME BaseInv, [Next]_vars
    PROVE  RowsStay
<1> USE DEF BaseInv, AuthTypes, TableTypes, ReceiverRow, RowsStay
<1>1. ASSUME NEW h \in Handlers, HeartbeatUpdate(h) PROVE RowsStay  BY <1>1 DEF HeartbeatUpdate
<1>2. ASSUME NEW r \in Receivers, AddReceiver(r) PROVE RowsStay  BY <1>2 DEF AddReceiver, NewReceiver
<1>3. ASSUME NEW c \in Commands, WriteReceiver(c) \/ CommandFails(c) PROVE RowsStay
  BY <1>3 DEF WriteReceiver, CommandFails, Wanted
<1>4. ASSUME Tick PROVE RowsStay  BY <1>4 DEF Tick
<1>5. ASSUME UNCHANGED receivers PROVE RowsStay  BY <1>5
<1> QED
  BY <1>1, <1>2, <1>3, <1>4, <1>5
  DEF Next, vars, HandlerStep, CommandStep, Arrive, ArriveAgain, Begin, IpCheck, SelectReceiver, TakeNonce,
      ReceiverCheck, AppCheck, ProcessInbound, HeartbeatAge, Fail, RunCommand, ReadReceiver

\* A second passes for the requests on their way.
LEMMA TickWire ==
    ASSUME HandTypes, Tick
    PROVE  /\ wire' \in [Messages -> SignedRequest]
           /\ \A m \in Messages :
                 /\ wire'[m].kind = wire[m].kind /\ wire'[m].receiver = wire[m].receiver
                 /\ wire[m] = Unsigned => wire'[m] = Unsigned
                 /\ wire'[m].ahead \in {wire[m].ahead, wire[m].ahead - 1}
                 /\ wire[m] # Unsigned /\ wire[m].ahead >= -INBOUND_TIMESTAMP_SKEW_SECONDS =>
                       wire'[m].ahead = wire[m].ahead - 1
<1> DEFINE S == INBOUND_TIMESTAMP_SKEW_SECONDS
<1>1. S \in Int  BY AuthNumbers
<1> HIDE DEF S
<1>2. \A m \in Messages : wire[m] \in SignedRequest /\ wire[m].ahead \in Int  BY DEF HandTypes, SignedRequest
<1>3. wire' = [m \in Messages |-> IF wire[m] = Unsigned \/ wire[m].ahead < -S THEN wire[m]
                                    ELSE [wire[m] EXCEPT !.ahead = wire[m].ahead - 1]]
  BY DEF Tick, S
<1>4. \A m \in Messages : wire'[m] \in SignedRequest  BY <1>2, <1>3 DEF SignedRequest
<1>5. \A m \in Messages : wire'[m] = wire[m] \/ wire'[m] = [wire[m] EXCEPT !.ahead = wire[m].ahead - 1]
  BY <1>3
<1>6. \A m \in Messages : wire[m] = Unsigned => wire'[m] = Unsigned  BY <1>3
<1>7. \A m \in Messages : wire[m] # Unsigned /\ wire[m].ahead >= -S =>
                              wire'[m] = [wire[m] EXCEPT !.ahead = wire[m].ahead - 1]
  BY <1>1, <1>2, <1>3
<1>8. \A m \in Messages : /\ wire'[m].kind = wire[m].kind /\ wire'[m].receiver = wire[m].receiver
                          /\ wire'[m].ahead \in {wire[m].ahead, wire[m].ahead - 1}
  BY <1>2, <1>5 DEF SignedRequest
<1>9. \A m \in Messages : [wire[m] EXCEPT !.ahead = wire[m].ahead - 1].ahead = wire[m].ahead - 1
  BY <1>2 DEF SignedRequest
<1>10. wire' \in [Messages -> SignedRequest]  BY <1>3, <1>4
<1> QED BY <1>6, <1>7, <1>8, <1>9, <1>10 DEF S

\* A second passes for the requests in hand.
LEMMA TickHands ==
    ASSUME HandTypes, Tick
    PROVE  /\ handlers' \in [Handlers -> Hand]
           /\ \A h \in Handlers :
                 /\ handlers[h] = Idle => handlers'[h] = Idle
                 /\ handlers[h] # Idle =>
                       /\ handlers'[h].pc = handlers[h].pc /\ handlers'[h].msg = handlers[h].msg
                       /\ handlers'[h].muted = handlers[h].muted
                       /\ handlers'[h].inHand = handlers[h].inHand + 1
                       /\ handlers'[h].ago = IF ReadClock(h) THEN handlers[h].ago + 1 ELSE 0
                       /\ handlers[h].inHand < MaxStall
<1> DEFINE Ago(h) == IF ReadClock(h) THEN handlers[h].ago + 1 ELSE 0
           Later(h) == [handlers[h] EXCEPT !.inHand = handlers[h].inHand + 1, !.ago = Ago(h)]
<1>1. handlers' = [h \in Handlers |-> IF handlers[h] = Idle THEN Idle ELSE Later(h)]  BY DEF Tick
<1>2. \A h \in Handlers : handlers[h] \in Hand  BY DEF HandTypes
<1>3. \A h \in Handlers : Ago(h) \in Nat  BY <1>2 DEF Hand
<1>4. \A h \in Handlers : handlers[h].inHand + 1 \in Nat  BY <1>2 DEF Hand
<1> HIDE DEF Ago
<1>5. \A h \in Handlers :
          /\ Later(h) \in Hand
          /\ Later(h).pc = handlers[h].pc /\ Later(h).msg = handlers[h].msg
          /\ Later(h).muted = handlers[h].muted
          /\ Later(h).inHand = handlers[h].inHand + 1
          /\ Later(h).ago = Ago(h)
  BY <1>2, <1>3, <1>4 DEF Hand
<1> HIDE DEF Later
<1>6. Idle \in Hand  BY DEF Idle, Hand, Pcs
<1>7. handlers' \in [Handlers -> Hand]  BY <1>1, <1>5, <1>6
<1>8. \A h \in Handlers : /\ handlers[h] = Idle => handlers'[h] = Idle
                          /\ handlers[h] # Idle => handlers'[h] = Later(h)
  BY <1>1
<1>9. \A h \in Handlers : handlers[h] # Idle => handlers[h].inHand < MaxStall  BY DEF Tick
<1> QED BY <1>5, <1>7, <1>8, <1>9 DEF Ago

LEMMA HandsStep ==
    ASSUME BaseInv, [Next]_vars
    PROVE  HandTypes' /\ HandsRight' /\ SignedRight'
<1> DEFINE Goal == HandTypes' /\ HandsRight' /\ SignedRight'
<1> USE DEF BaseInv, AuthTypes, HandTypes, HandsRight, SignedRight, Idle, Unsigned
<1>0. RowsStay  BY RowsStayThere
<1>1. CASE UNCHANGED <<handlers, wire>>  BY <1>0, <1>1 DEF RowsStay
<1>2. ASSUME NEW h \in Handlers, NEW m \in Messages, Begins(h, m), Signs(m) \/ UNCHANGED wire PROVE Goal
  <2>1. handlers' \in [Handlers -> Hand]
    <3>1. PICK muted \in BOOLEAN :
              handlers' = [handlers EXCEPT ![h] = [Idle EXCEPT !.pc = "ip", !.msg = m, !.muted = muted]]
      BY <1>2 DEF Begins
    <3>2. [Idle EXCEPT !.pc = "ip", !.msg = m, !.muted = muted] \in Hand  BY DEF Hand, Pcs
    <3> QED BY <3>1, <3>2
  <2>2. wire' \in [Messages -> SignedRequest]  BY <1>2 DEF Signs, SignedRequest
  <2>3. \A n \in Messages : wire[n].kind # "none" => wire'[n] = wire[n]  BY <1>2 DEF Signs
  <2>4. HandsRight'
    <3> SUFFICES ASSUME NEW k \in Handlers PROVE
              /\ handlers'[k].pc = "idle" => handlers'[k] = Idle
              /\ handlers'[k].pc # "idle" =>
                    /\ handlers'[k].msg \in Messages
                    /\ wire'[handlers'[k].msg].kind # "none"
                    /\ handlers'[k].ago <= handlers'[k].inHand
                    /\ handlers'[k].inHand <= MaxStall
      OBVIOUS
    <3>1. CASE k = h  BY <1>2, <3>1, AuthNumbers DEF Begins
    <3>2. CASE k # h
      <4>1. handlers'[k] = handlers[k]  BY <1>2, <3>2 DEF Begins
      <4> QED BY <4>1, <2>3
    <3> QED BY <3>1, <3>2
  <2>5. SignedRight'
    <3>1. CASE UNCHANGED wire  BY <1>0, <3>1 DEF RowsStay
    <3>2. CASE Signs(m)
      <4>1. wire'[m].kind # "none" /\ wire'[m].receiver \in Receivers
            /\ receivers[wire'[m].receiver].state # "absent"
        BY <3>2 DEF Signs
      <4>2. ASSUME NEW n \in Messages, n # m PROVE wire'[n] = wire[n]  BY <3>2, <4>2 DEF Signs
      <4> QED BY <1>0, <4>1, <4>2 DEF RowsStay
    <3> QED BY <1>2, <3>1, <3>2
  <2> QED BY <2>1, <2>2, <2>4, <2>5
<1>3. ASSUME NEW h \in Handlers, Moves(h), UNCHANGED wire PROVE Goal
  <2>1. HandTypes' /\ HandsRight'
    <3>1. CASE Answers(h)
      <4>1. HandTypes'  BY <1>3, <3>1 DEF Answers, Hand, Pcs
      <4>2. HandsRight'  BY <1>3, <3>1 DEF Answers
      <4> QED BY <4>1, <4>2
    <3>2. ASSUME NEW p \in Pcs \ {"idle"}, GoesOn(h, p) PROVE HandTypes' /\ HandsRight'
      <4>1. HandTypes'  BY <1>3, <3>2 DEF GoesOn, Hand
      <4>2. HandsRight'  BY <1>3, <3>2 DEF GoesOn, Hand
      <4> QED BY <4>1, <4>2
    <3> QED BY <1>3, <3>1, <3>2 DEF Moves
  <2> QED BY <1>0, <1>3, <2>1 DEF RowsStay
<1>4. ASSUME Unmutes, UNCHANGED wire PROVE Goal
  <2>1. ASSUME NEW h \in Handlers PROVE handlers'[h] \in Hand
    <3>1. handlers[h] \in Hand  OBVIOUS
    <3>2. [handlers[h] EXCEPT !.muted = FALSE] \in Hand  BY <3>1 DEF Hand
    <3> QED BY <1>4, <3>1, <3>2 DEF Unmutes
  <2>2. handlers' \in [Handlers -> Hand]  BY <1>4, <2>1 DEF Unmutes
  <2>3. HandsRight'  BY <1>4 DEF Unmutes, Hand
  <2> QED BY <1>0, <1>4, <2>2, <2>3 DEF RowsStay
<1>5. ASSUME Tick PROVE Goal
  <2>1. /\ handlers' \in [Handlers -> Hand]
        /\ \A h \in Handlers :
              /\ handlers[h] = Idle => handlers'[h] = Idle
              /\ handlers[h] # Idle =>
                    /\ handlers'[h].pc = handlers[h].pc /\ handlers'[h].msg = handlers[h].msg
                    /\ handlers'[h].inHand = handlers[h].inHand + 1
                    /\ handlers'[h].ago \in {0, handlers[h].ago + 1}
                    /\ handlers[h].inHand < MaxStall
    BY TickHands, <1>5
  <2>3. /\ wire' \in [Messages -> SignedRequest]
        /\ \A m \in Messages : wire'[m].kind = wire[m].kind /\ wire'[m].receiver = wire[m].receiver
             /\ (wire[m] = Unsigned => wire'[m] = Unsigned)
    BY TickWire, <1>5
  <2>4. HandsRight'
    <3> SUFFICES ASSUME NEW h \in Handlers PROVE
              /\ handlers'[h].pc = "idle" => handlers'[h] = Idle
              /\ handlers'[h].pc # "idle" =>
                    /\ handlers'[h].msg \in Messages
                    /\ wire'[handlers'[h].msg].kind # "none"
                    /\ handlers'[h].ago <= handlers'[h].inHand
                    /\ handlers'[h].inHand <= MaxStall
      OBVIOUS
    <3>1. CASE handlers[h] = Idle
      <4>1. handlers'[h] = Idle  BY <2>1, <3>1
      <4> QED BY <4>1
    <3>2. CASE handlers[h] # Idle
      <4>1. /\ handlers'[h].pc = handlers[h].pc /\ handlers'[h].msg = handlers[h].msg
            /\ handlers'[h].inHand = handlers[h].inHand + 1
            /\ handlers'[h].ago \in {0, handlers[h].ago + 1}
            /\ handlers[h].inHand < MaxStall
        BY <2>1, <3>2
      <4>2. handlers[h].inHand \in Nat /\ handlers[h].ago \in Nat /\ MaxStall \in Nat  BY AuthNumbers DEF Hand
      <4>3. handlers[h].pc # "idle"  BY <3>2
      <4> QED BY <2>3, <4>1, <4>2, <4>3
    <3> QED BY <3>1, <3>2
  <2>5. SignedRight'  BY <1>0, <2>3 DEF RowsStay
  <2> QED BY <2>1, <2>3, <2>4, <2>5
<1> QED BY <1>1, <1>2, <1>3, <1>4, <1>5, HandEffects DEF HandEffect

LEMMA Remainder ==
    ASSUME NEW a \in Nat, NEW b \in Nat \ {0}
    PROVE  a % b \in Nat /\ a % b < b
OBVIOUS

\* A second passes for what was accepted.
LEMMA TickAccepted ==
    ASSUME RedisTypes, Tick
    PROVE  /\ accepted' \in [Messages -> [times : Nat, age : Nat]]
           /\ \A m \in Messages :
                 /\ accepted'[m].times = accepted[m].times
                 /\ accepted'[m].age = IF accepted[m].age < INBOUND_TIMESTAMP_SKEW_SECONDS
                                         THEN accepted[m].age + 1 ELSE accepted[m].age
<1> DEFINE S == INBOUND_TIMESTAMP_SKEW_SECONDS
           Aged(m) == IF accepted[m].age < S THEN accepted[m].age + 1 ELSE accepted[m].age
           Later(m) == [accepted[m] EXCEPT !.age = Aged(m)]
<1>1. accepted' = [m \in Messages |-> Later(m)]  BY DEF Tick
<1>2. \A m \in Messages : accepted[m] \in [times : Nat, age : Nat]  BY DEF RedisTypes
<1>3. \A m \in Messages : Aged(m) \in Nat  BY <1>2
<1> HIDE DEF Aged
<1>4. \A m \in Messages : /\ Later(m) \in [times : Nat, age : Nat]
                          /\ Later(m).times = accepted[m].times /\ Later(m).age = Aged(m)
  BY <1>2, <1>3
<1> HIDE DEF Later
<1> QED BY <1>1, <1>4 DEF Aged

LEMMA RedisStep ==
    ASSUME BaseInv, [Next]_vars
    PROVE  RedisTypes'
<1> DEFINE Bucket == [window : {0}, count : Nat]
<1>0. RedisTypes  BY DEF BaseInv, AuthTypes
<1>1. CASE UNCHANGED <<now, nonces, buckets, noReplies, failures, admitted, accepted>>
  BY <1>0, <1>1 DEF RedisTypes
<1>2. ASSUME NEW name, NEW limit, Counts(name, limit) \/ NoReply,
             UNCHANGED <<now, nonces, failures, accepted>>, admitted' \in {admitted, admitted + 1}
      PROVE  RedisTypes'
  <2>1. buckets' \in [BucketNames -> Bucket] /\ noReplies' \in Nat  BY <1>0, <1>2, CountsType
  <2>2. admitted' \in Nat  BY <1>0, <1>2 DEF RedisTypes
  <2> QED BY <1>0, <1>2, <2>1, <2>2 DEF RedisTypes
<1>3. ASSUME NEW h \in Handlers, TakeNonce(h) PROVE RedisTypes'
  <2>1. CASE UNCHANGED <<nonces, accepted>>  BY <1>0, <1>3, <2>1 DEF TakeNonce, RedisTypes
  <2>2. CASE /\ nonces' = [nonces EXCEPT ![handlers[h].msg] = INBOUND_TIMESTAMP_SKEW_SECONDS]
             /\ accepted' = [accepted EXCEPT ![handlers[h].msg] = [times |-> @.times + 1, age |-> 0]]
    <3>1. nonces' \in [Messages -> Nat]  BY <1>0, <2>2, AuthNumbers DEF RedisTypes
    <3>2. accepted' \in [Messages -> [times : Nat, age : Nat]]
      <4>1. handlers[h].msg \in Messages  BY <1>3 DEF TakeNonce, BaseInv, HandsRight
      <4>2. [times |-> accepted[handlers[h].msg].times + 1, age |-> 0] \in [times : Nat, age : Nat]
        BY <1>0, <4>1 DEF RedisTypes
      <4> QED BY <1>0, <2>2, <4>1, <4>2 DEF RedisTypes
    <3> QED BY <1>0, <1>3, <3>1, <3>2 DEF TakeNonce, RedisTypes
  <2> QED BY <1>3, <2>1, <2>2 DEF TakeNonce
<1>4. ASSUME NEW h \in Handlers, Fail(h) PROVE RedisTypes'
  <2>1. nonces' \in [Messages -> Nat]  BY <1>0, <1>4, AuthNumbers DEF Fail, RedisTypes
  <2> QED BY <1>0, <1>4, <2>1 DEF Fail, RedisTypes
<1>5. ASSUME NEW c \in Commands, CommandFails(c) PROVE RedisTypes'  BY <1>0, <1>5 DEF CommandFails, RedisTypes
<1>6. ASSUME Tick PROVE RedisTypes'
  <2>1. now' \in Nat /\ now' < WindowSeconds
    <3>1. now \in Nat  BY <1>0 DEF RedisTypes
    <3>2. now' = (now + 1) % WindowSeconds  BY <1>6 DEF Tick
    <3>3. now + 1 \in Nat /\ WindowSeconds \in Nat \ {0}  BY <3>1, AuthNumbers
    <3> QED BY <3>2, <3>3, Remainder
  <2>2. nonces' \in [Messages -> Nat]
    <3>1. nonces \in [Messages -> Nat]  BY <1>0 DEF RedisTypes
    <3>2. nonces' = [m \in Messages |-> IF nonces[m] > 0 THEN nonces[m] - 1 ELSE 0]  BY <1>6 DEF Tick
    <3> QED BY <3>1, <3>2
  <2>3. buckets' \in [BucketNames -> Bucket]
    <3>1. EmptyBucket \in Bucket  BY DEF EmptyBucket
    <3>2. buckets' = buckets \/ buckets' = [b \in BucketNames |-> EmptyBucket]  BY <1>6 DEF Tick
    <3> QED BY <1>0, <3>1, <3>2 DEF RedisTypes
  <2>4. accepted' \in [Messages -> [times : Nat, age : Nat]]  BY <1>0, <1>6, TickAccepted
  <2>5. noReplies' \in Nat /\ failures' \in Nat /\ admitted' \in Nat  BY <1>0, <1>6 DEF Tick, RedisTypes
  <2> QED BY <2>1, <2>2, <2>3, <2>4, <2>5 DEF RedisTypes
<1>7. ASSUME NEW h \in Handlers, IpCheck(h) PROVE RedisTypes'  BY <1>2, <1>7, IpEffect DEF IpCheck
<1>8. ASSUME NEW h \in Handlers, ReceiverCheck(h) PROVE RedisTypes'
  BY <1>2, <1>8, ReceiverEffect DEF ReceiverCheck
<1>9. ASSUME NEW h \in Handlers, AppCheck(h) PROVE RedisTypes'  BY <1>2, <1>9, AppEffect DEF AppCheck
<1>10. ASSUME NEW h \in Handlers, HandlerStep(h) PROVE RedisTypes'
  BY <1>1, <1>3, <1>4, <1>7, <1>8, <1>9, <1>10
  DEF HandlerStep, SelectReceiver, ProcessInbound, HeartbeatAge, HeartbeatUpdate
<1>11. ASSUME NEW c \in Commands, CommandStep(c) PROVE RedisTypes'
  BY <1>1, <1>5, <1>11 DEF CommandStep, RunCommand, ReadReceiver, WriteReceiver, requestVars
<1> QED
  BY <1>1, <1>6, <1>10, <1>11 DEF Next, vars, Arrive, ArriveAgain, Begin, AddReceiver, requestVars

\* A heartbeat is acknowledged: the time that its receiver was heard.
LEMMA AcknowledgeType ==
    ASSUME BaseInv, NEW h \in Handlers, handlers[h].pc # "idle", Acknowledge(h)
    PROVE  heard' \in [Receivers -> Int]
<1>1. handlers[h].ago \in Int  BY DEF BaseInv, AuthTypes, HandTypes, Hand
<1> QED BY <1>1 DEF Acknowledge, BaseInv, AuthTypes, TableTypes

LEMMA OlderType ==
    ASSUME NEW a \in Int, NEW old \in Int
    PROVE  Older(a, old) \in Int /\ (a \in Ages => Older(a, old) \in Ages)
BY DEF Older, Ages, Never

LEMMA HeardStep ==
    ASSUME BaseInv, [Next]_vars
    PROVE  heard' \in [Receivers -> Int] /\ silenced' \subseteq Receivers
<1> DEFINE Goal == heard' \in [Receivers -> Int] /\ silenced' \subseteq Receivers
<1>0. heard \in [Receivers -> Int] /\ silenced \subseteq Receivers  BY DEF BaseInv, AuthTypes, TableTypes
<1>1. CASE UNCHANGED <<heard, silenced>>  BY <1>0, <1>1
<1>2. ASSUME NEW h \in Handlers, HeartbeatAge(h) \/ HeartbeatUpdate(h) PROVE Goal
  <2>1. handlers[h].pc # "idle" /\ silenced' = silenced /\ (heard' = heard \/ Acknowledge(h))
    BY <1>2 DEF HeartbeatAge, HeartbeatUpdate
  <2> QED BY <1>0, <2>1, AcknowledgeType
<1>3. ASSUME NEW c \in Commands, RunCommand(c) PROVE Goal  BY <1>0, <1>3 DEF RunCommand
<1>4. ASSUME NEW c \in Commands, ReadReceiver(c) \/ WriteReceiver(c) PROVE Goal
  <2>1. commands[c].receiver \in Receivers
    BY <1>4 DEF ReadReceiver, WriteReceiver, BaseInv, CommandsRight
  <2>2. heard' = heard /\ (silenced' = silenced \/ Silence(c))
    BY <1>4 DEF ReadReceiver, WriteReceiver, requestVars
  <2> QED BY <1>0, <2>1, <2>2 DEF Silence
<1>5. ASSUME Tick PROVE Goal
  <2>1. OldHeartbeat \in Int  BY AuthNumbers DEF OldHeartbeat
  <2>2. heard' = [r \in Receivers |-> Older(heard[r], OldHeartbeat)] /\ silenced' = silenced  BY <1>5 DEF Tick
  <2> QED BY <1>0, <2>1, <2>2, OlderType
<1>6. ASSUME NEW h \in Handlers, HandlerStep(h) PROVE Goal
  BY <1>1, <1>2, <1>6
  DEF HandlerStep, IpCheck, SelectReceiver, TakeNonce, ReceiverCheck, AppCheck, ProcessInbound, Fail
<1>7. ASSUME NEW c \in Commands, CommandStep(c) PROVE Goal
  BY <1>1, <1>3, <1>4, <1>7 DEF CommandStep, CommandFails
<1> QED
  BY <1>1, <1>5, <1>6, <1>7 DEF Next, vars, Arrive, ArriveAgain, Begin, AddReceiver, requestVars

LEMMA CommandsStep ==
    ASSUME BaseInv, [Next]_vars
    PROVE  commands' \in [Commands -> CommandRun] /\ CommandsRight'
<1> DEFINE Goal == commands' \in [Commands -> CommandRun] /\ CommandsRight'
<1>0. commands \in [Commands -> CommandRun] /\ CommandsRight /\ RowsStay
  BY RowsStayThere DEF BaseInv, AuthTypes, TableTypes
<1>1. CASE UNCHANGED commands  BY <1>0, <1>1 DEF CommandsRight, RowsStay
<1>2. ASSUME NEW c \in Commands, commands' = [commands EXCEPT ![c] = NotRun] PROVE Goal
  BY <1>0, <1>2 DEF CommandsRight, RowsStay, NotRun, CommandRun
<1>3. ASSUME NEW c \in Commands, RunCommand(c) PROVE Goal
  <2>1. PICK sub \in {"disable", "enable"}, r \in Receivers :
            commands' = [commands EXCEPT ![c] = [pc |-> "read", sub |-> sub, receiver |-> r]]
    BY <1>3 DEF RunCommand
  <2> QED BY <1>0, <2>1 DEF CommandsRight, RowsStay, CommandRun
<1>4. ASSUME NEW c \in Commands, ReadReceiver(c) PROVE Goal
  <2>1. CASE Exit(c, "RUNTIME") \/ Exit(c, "OK")  BY <1>2, <2>1 DEF Exit
  <2>2. CASE /\ receivers[commands[c].receiver].state \notin {"absent", Wanted(c)}
             /\ commands' = [commands EXCEPT ![c].pc = "write"]
    <3>1. commands[c].pc # "idle"  BY <1>4 DEF ReadReceiver
    <3> QED BY <1>0, <2>2, <3>1 DEF CommandsRight, RowsStay, CommandRun
  <2> QED BY <1>4, <2>1, <2>2 DEF ReadReceiver
<1>5. ASSUME NEW c \in Commands, WriteReceiver(c) \/ CommandFails(c) PROVE Goal
  BY <1>2, <1>5 DEF WriteReceiver, CommandFails, Exit
<1>6. ASSUME NEW h \in Handlers, HandlerStep(h) PROVE Goal
  BY <1>1, <1>6
  DEF HandlerStep, IpCheck, SelectReceiver, TakeNonce, ReceiverCheck, AppCheck, ProcessInbound,
      HeartbeatAge, HeartbeatUpdate, Fail
<1> QED
  BY <1>1, <1>3, <1>4, <1>5, <1>6
  DEF Next, vars, Arrive, ArriveAgain, Begin, AddReceiver, CommandStep, Tick

LEMMA RowsStep ==
    ASSUME BaseInv, [Next]_vars
    PROVE  receivers' \in [Receivers -> ReceiverRow] /\ RowsRight'
<1> DEFINE Goal == receivers' \in [Receivers -> ReceiverRow] /\ RowsRight'
<1>0. receivers \in [Receivers -> ReceiverRow] /\ RowsRight  BY DEF BaseInv, AuthTypes, TableTypes
<1>1. CASE UNCHANGED receivers  BY <1>0, <1>1 DEF RowsRight
<1>2. ASSUME NEW h \in Handlers, HeartbeatUpdate(h) PROVE Goal
  <2>1. PICK r : r = wire[handlers[h].msg].receiver  OBVIOUS
  <2>2. r \in Receivers /\ receivers[r].state # "absent" /\ handlers[h].ago \in Nat
    BY <1>2, <2>1 DEF HeartbeatUpdate, BaseInv, HandsRight, SignedRight, AuthTypes, HandTypes, Hand
  <2>3. receivers' = [receivers EXCEPT ![r].heartbeatAge = handlers[h].ago]  BY <1>2, <2>1 DEF HeartbeatUpdate
  <2>4. handlers[h].ago \in Ages  BY <2>2 DEF Ages, Never
  <2> QED BY <1>0, <2>2, <2>3, <2>4 DEF RowsRight, ReceiverRow
<1>3. ASSUME NEW r \in Receivers, AddReceiver(r) PROVE Goal
  <2>1. 0 \in Ages /\ Never \in Ages  BY DEF Ages, Never
  <2> QED BY <1>0, <1>3, <2>1 DEF AddReceiver, NewReceiver, RowsRight, ReceiverRow
<1>4. ASSUME NEW c \in Commands, WriteReceiver(c) \/ CommandFails(c) PROVE Goal
  <2>1. CASE receivers' = [receivers EXCEPT ![commands[c].receiver].state = Wanted(c)]
    BY <1>0, <2>1 DEF Wanted, RowsRight, ReceiverRow
  <2> QED BY <1>1, <1>4, <2>1 DEF WriteReceiver, CommandFails
<1>5. ASSUME Tick PROVE Goal
  <2>1. \A r \in Receivers : Older(receivers[r].heartbeatAge, OldHeartbeat) \in Ages
    <3>1. OldHeartbeat \in Int  BY AuthNumbers DEF OldHeartbeat
    <3>2. \A r \in Receivers : receivers[r].heartbeatAge \in Ages  BY <1>0 DEF ReceiverRow
    <3>3. Ages \subseteq Int  BY DEF Ages
    <3> QED BY <3>1, <3>2, <3>3, OlderType
  <2>2. receivers' = [r \in Receivers |-> [receivers[r] EXCEPT !.heartbeatAge =
                                              Older(receivers[r].heartbeatAge, OldHeartbeat)]]
    BY <1>5 DEF Tick
  <2>3. receivers' \in [Receivers -> ReceiverRow]  BY <1>0, <2>1, <2>2 DEF ReceiverRow
  <2>4. RowsRight'  BY <1>0, <2>2 DEF RowsRight, ReceiverRow, Older
  <2> QED BY <2>3, <2>4
<1>6. ASSUME NEW h \in Handlers, HandlerStep(h) PROVE Goal
  BY <1>1, <1>2, <1>6
  DEF HandlerStep, IpCheck, SelectReceiver, TakeNonce, ReceiverCheck, AppCheck, ProcessInbound,
      HeartbeatAge, Fail
<1>7. ASSUME NEW c \in Commands, CommandStep(c) PROVE Goal
  BY <1>1, <1>4, <1>7 DEF CommandStep, RunCommand, ReadReceiver
<1> QED BY <1>1, <1>3, <1>5, <1>6, <1>7 DEF Next, vars, Arrive, ArriveAgain, Begin

LEMMA BaseStep ==
    ASSUME BaseInv, [Next]_vars
    PROVE  BaseInv'
BY HandsStep, RedisStep, HeardStep, CommandsStep, RowsStep DEF BaseInv, AuthTypes, TableTypes

\* The tables of the gateway routes and of `syrotp receiver` keep their types:
\* a request past the signature has a signed message and a receiver's row.
THEOREM AuthBase == Spec => []BaseInv
<1>1. BaseInv /\ [Next]_vars => BaseInv'  BY BaseStep
<1> QED BY BaseInit, <1>1, PTL DEF Spec

-----------------------------------------------------------------------------
(* The limit of the app                                                    *)

App == <<"app", "all">>

\* What was admitted was counted, or Redis gave no reply; and the count of
\* those that were let through is within the limit.
LimitInv ==
    /\ admitted <= noReplies + buckets[App].count
    /\ admitted <= PerApp + noReplies

LEMMA LimitInit == Init => LimitInv
<1> SUFFICES ASSUME Init PROVE LimitInv
  OBVIOUS
<1>1. App \in BucketNames  BY DEF App, BucketNames
<1>2. buckets[App].count = 0 /\ admitted = 0 /\ noReplies = 0  BY <1>1 DEF Init, EmptyBucket
<1> QED BY <1>2, AuthNumbers DEF LimitInv

LEMMA LimitStep ==
    ASSUME BaseInv, LimitInv, [Next]_vars
    PROVE  LimitInv'
<1>0. RedisTypes /\ RedisTypes'  BY RedisStep DEF BaseInv, AuthTypes
<1>1. App \in BucketNames  BY DEF App, BucketNames
<1>2. /\ admitted \in Nat /\ noReplies \in Nat /\ buckets[App].count \in Nat
      /\ admitted' \in Nat /\ noReplies' \in Nat /\ buckets'[App].count \in Nat
      /\ PerApp \in Nat
  BY <1>0, <1>1, AuthNumbers DEF RedisTypes
<1>3. ASSUME admitted' = admitted, noReplies' >= noReplies, buckets'[App] = buckets[App] PROVE LimitInv'
  <2>1. buckets'[App].count = buckets[App].count  BY <1>3
  <2>2. admitted' <= noReplies' + buckets'[App].count  BY <1>2, <1>3, <2>1 DEF LimitInv
  <2>3. admitted' <= PerApp + noReplies'  BY <1>2, <1>3 DEF LimitInv
  <2> QED BY <2>2, <2>3 DEF LimitInv
<1>4. ASSUME NEW name, NEW limit, name # App, Counts(name, limit) \/ NoReply, admitted' = admitted
      PROVE  LimitInv'
  <2>1. noReplies' >= noReplies  BY <1>2, <1>4 DEF Counts, NoReply
  <2>2. buckets'[App] = buckets[App]  BY <1>0, <1>1, <1>4, CountsType
  <2> QED BY <1>3, <1>4, <2>1, <2>2
<1>5. ASSUME NEW h \in Handlers, IpCheck(h) PROVE LimitInv'
  <2>1. <<"ip", "all">> # App  BY DEF App
  <2> QED BY <1>4, <1>5, <2>1, IpEffect DEF IpCheck
<1>6. ASSUME NEW h \in Handlers, ReceiverCheck(h) PROVE LimitInv'
  <2>1. wire[handlers[h].msg].kind \in {"none", "sms", "heartbeat"}
    <3>1. handlers[h].msg \in Messages  BY <1>6 DEF ReceiverCheck, BaseInv, HandsRight
    <3> QED BY <3>1 DEF BaseInv, AuthTypes, HandTypes, SignedRequest
  <2>2. <<wire[handlers[h].msg].kind, wire[handlers[h].msg].receiver>> # App  BY <2>1 DEF App
  <2> QED BY <1>4, <1>6, <2>2, ReceiverEffect DEF ReceiverCheck
<1>7. ASSUME NEW h \in Handlers, AppCheck(h) PROVE LimitInv'
  <2>0. handlers \in [Handlers -> Hand] /\ handlers[h].pc = "app"
    BY <1>7 DEF AppCheck, BaseInv, AuthTypes, HandTypes
  <2>1. admitted' = IF handlers'[h].pc = "process" THEN admitted + 1 ELSE admitted  BY <1>7 DEF AppCheck
  <2>2. CASE Counts(App, PerApp) /\ GoesOn(h, "process") /\ Allowed(buckets'[App], PerApp)
    <3>1. buckets'[App] = Hit(buckets[App], now, WindowSeconds, PerApp) /\ noReplies' = noReplies
      BY <1>0, <1>1, <2>2 DEF Counts, RedisTypes
    <3>2. buckets'[App].count <= PerApp  BY <2>2 DEF Allowed
    <3>3. buckets'[App].count = buckets[App].count + 1
      <4>1. now \div WindowSeconds = 0  BY <1>0, SmallQuotient, AuthNumbers DEF RedisTypes
      <4>2. buckets[App].window = 0  BY <1>0, <1>1 DEF RedisTypes
      <4>3. buckets'[App].count = IF buckets[App].count <= PerApp THEN buckets[App].count + 1
                                  ELSE buckets[App].count
        BY <3>1, <4>1, <4>2 DEF Hit
      <4> QED BY <1>2, <3>2, <4>3
    <3>4. admitted' <= admitted + 1  BY <1>2, <2>1
    <3> QED BY <1>2, <3>1, <3>2, <3>3, <3>4 DEF LimitInv
  <2>3. CASE Counts(App, PerApp) /\ Answers(h)
    <3>1. handlers'[h].pc = "idle"  BY <2>0, <2>3 DEF Answers, Idle
    <3>2. admitted' = admitted /\ noReplies' = noReplies  BY <2>1, <2>3, <3>1 DEF Counts
    <3>3. buckets'[App].count >= buckets[App].count
      <4>1. buckets'[App] = Hit(buckets[App], now, WindowSeconds, PerApp)
        BY <1>0, <1>1, <2>3 DEF Counts, RedisTypes
      <4>2. buckets'[App].count \in {buckets[App].count, buckets[App].count + 1}
        BY <1>0, <1>1, <4>1, HitType DEF RedisTypes
      <4> QED BY <1>2, <4>2
    <3> QED BY <1>2, <3>2, <3>3 DEF LimitInv
  <2>4. CASE NoReply /\ GoesOn(h, "process")
    <3>1. admitted' <= admitted + 1  BY <1>2, <2>1
    <3>2. noReplies' = noReplies + 1 /\ buckets' = buckets  BY <2>4 DEF NoReply
    <3> QED BY <1>2, <3>1, <3>2 DEF LimitInv
  <2> QED BY <1>7, <2>2, <2>3, <2>4, AppEffect DEF App
<1>8. ASSUME Tick PROVE LimitInv'
  <2>0. noReplies' = noReplies  BY <1>8 DEF Tick
  <2>1. CASE now' = 0
    <3>1. admitted' = 0  BY <1>8, <2>1 DEF Tick
    <3> QED BY <1>2, <3>1 DEF LimitInv
  <2>2. CASE now' # 0
    <3>1. admitted' = admitted /\ buckets' = buckets  BY <1>8, <2>2 DEF Tick
    <3>2. noReplies' >= noReplies  BY <1>2, <2>0
    <3> QED BY <1>3, <3>1, <3>2
  <2> QED BY <2>1, <2>2
<1>9. ASSUME UNCHANGED <<admitted, noReplies, buckets>> PROVE LimitInv'  BY <1>9 DEF LimitInv
<1>10. ASSUME NEW h \in Handlers, HandlerStep(h) PROVE LimitInv'
  BY <1>5, <1>6, <1>7, <1>9, <1>10
  DEF HandlerStep, SelectReceiver, TakeNonce, ProcessInbound, HeartbeatAge, HeartbeatUpdate, Fail
<1>11. ASSUME NEW c \in Commands, CommandStep(c) PROVE LimitInv'
  BY <1>9, <1>11 DEF CommandStep, RunCommand, ReadReceiver, WriteReceiver, CommandFails, requestVars
<1> QED
  BY <1>8, <1>9, <1>10, <1>11 DEF Next, vars, Arrive, ArriveAgain, Begin, AddReceiver, requestVars

\* rateCheck on the limit of the app: whatever the limits, the number of
\* receivers and the overlap of their requests, no window lets more SMS through
\* than the limit, but for the checks that Redis gave no reply to.
THEOREM LimitOfTheApp == Spec => []AppWithinLimit
<1>1. BaseInv /\ LimitInv /\ [Next]_vars => LimitInv'  BY LimitStep
<1>2. LimitInv => AppWithinLimit  BY DEF LimitInv, AppWithinLimit
<1> QED BY AuthBase, LimitInit, <1>1, <1>2, PTL DEF Spec

-----------------------------------------------------------------------------
(* What a disable promises                                                 *)

\* The receiver of a muted request is silenced, and its row is disabled as
\* long as nobody enables it: the request does not get past its SELECT.
Muted(h) ==
    handlers[h].muted =>
        /\ handlers[h].pc \in {"ip", "select"}
        /\ wire[handlers[h].msg].receiver \in silenced
Silent(r) ==
    r \in silenced => receivers[r].state = "disabled" /\ ~Running("enable", r)

MuteInv == (\A h \in Handlers : Muted(h)) /\ (\A r \in Receivers : Silent(r))

LEMMA MuteInit == Init => MuteInv
BY DEF Init, MuteInv, Muted, Silent, Idle

\* Requests in hand whose silenced receivers stay so.
LEMMA MutedStep ==
    ASSUME BaseInv, MuteInv, [Next]_vars
    PROVE  \A h \in Handlers : Muted(h)'
<1> USE DEF MuteInv, Muted
<1> DEFINE Goal == \A h \in Handlers : Muted(h)'
<1>0. handlers \in [Handlers -> Hand] /\ wire \in [Messages -> SignedRequest] /\ HandsRight
  BY DEF BaseInv, AuthTypes, HandTypes
<1>1. ASSUME NEW h \in Handlers, NEW m \in Messages, Arrive(h, m) PROVE Goal
  <2>1. PICK kind \in {"sms", "heartbeat"}, r \in Receivers, offset \in Offsets :
            /\ wire' = [wire EXCEPT ![m] = [kind |-> kind, receiver |-> r, ahead |-> offset]]
            /\ Begin(h, m, r)
    BY <1>1 DEF Arrive
  <2>2. wire'[m].receiver = r /\ silenced' = silenced  BY <1>0, <2>1 DEF Begin
  <2>3. handlers' = [handlers EXCEPT ![h] = [Idle EXCEPT !.pc = "ip", !.msg = m, !.muted = r \in silenced]]
    BY <2>1 DEF Begin
  <2>4. Muted(h)'  BY <1>0, <2>2, <2>3 DEF Idle
  <2>5. ASSUME NEW k \in Handlers, k # h PROVE Muted(k)'
    <3>1. handlers'[k] = handlers[k]  BY <1>0, <2>3, <2>5
    <3>2. CASE handlers[k].pc = "idle"  BY <1>0, <3>1, <3>2 DEF HandsRight, Idle
    <3>3. CASE handlers[k].pc # "idle"
      <4>1. handlers[k].msg # m /\ handlers[k].msg \in Messages
        BY <1>0, <1>1, <3>3 DEF HandsRight, Arrive, Unsigned
      <4>2. wire'[handlers[k].msg] = wire[handlers[k].msg]  BY <1>0, <2>1, <4>1
      <4> QED BY <2>2, <3>1, <4>2
    <3> QED BY <3>2, <3>3
  <2> QED BY <2>4, <2>5
<1>2. ASSUME NEW h \in Handlers, NEW m \in Messages, ArriveAgain(h, m) PROVE Goal
  BY <1>0, <1>2 DEF ArriveAgain, Begin, Idle
<1>3. ASSUME NEW h \in Handlers, Answers(h), UNCHANGED <<wire, silenced>> PROVE Goal
  BY <1>0, <1>3 DEF Answers, Idle
<1>4. ASSUME NEW h \in Handlers, NEW p, GoesOn(h, p), handlers[h].muted => p \in {"ip", "select"},
             UNCHANGED <<wire, silenced>>
      PROVE  Goal
  BY <1>0, <1>4 DEF GoesOn, Hand
<1>5. ASSUME NEW h \in Handlers, HandlerStep(h) PROVE Goal
  <2>0. UNCHANGED <<wire, silenced>>
    BY <1>5 DEF HandlerStep, IpCheck, SelectReceiver, TakeNonce, ReceiverCheck, AppCheck, ProcessInbound,
                HeartbeatAge, HeartbeatUpdate, Fail
  <2>1. CASE IpCheck(h)  BY <1>3, <1>4, <2>0, <2>1, IpEffect
  <2>2. CASE SelectReceiver(h)
    <3>1. CASE Reply(h, 401)  BY <1>3, <2>0, <3>1 DEF Reply, Answers
    <3>2. CASE Known(wire[handlers[h].msg].receiver) /\ GoOn(h, "nonce")
      <4>1. wire[handlers[h].msg].receiver \in Receivers
        BY <2>2 DEF SelectReceiver, BaseInv, HandsRight, SignedRight
      <4>2. ~handlers[h].muted  BY <3>2, <4>1 DEF Known, Silent
      <4> QED BY <1>4, <2>0, <2>2, <3>2, <4>2 DEF SelectReceiver, GoOn, GoesOn
    <3> QED BY <2>2, <3>1, <3>2 DEF SelectReceiver
  <2>3. CASE handlers[h].pc \notin {"ip", "select"} /\ Moves(h)
    BY <1>3, <1>4, <2>0, <2>3 DEF Moves
  <2>4. CASE Fail(h)  BY <1>3, <2>0, <2>4 DEF Fail, Reply, Answers
  <2>5. ASSUME ~IpCheck(h), ~SelectReceiver(h), ~Fail(h) PROVE handlers[h].pc \notin {"ip", "select"} /\ Moves(h)
    <3>1. CASE TakeNonce(h)  BY <3>1 DEF TakeNonce, Moves, Pcs, GoOn, Reply, GoesOn, Answers
    <3>2. CASE ReceiverCheck(h)  BY <3>2, ReceiverEffect DEF ReceiverCheck, Moves, Pcs
    <3>3. CASE AppCheck(h)  BY <3>3, AppEffect DEF AppCheck, Moves, Pcs
    <3>4. CASE ProcessInbound(h)  BY <3>4 DEF ProcessInbound, Moves, Reply, Answers
    <3>5. CASE HeartbeatAge(h)
      BY <3>5 DEF HeartbeatAge, Acknowledge, Moves, Pcs, GoOn, Reply, GoesOn, Answers
    <3>6. CASE HeartbeatUpdate(h)  BY <3>6 DEF HeartbeatUpdate, Acknowledge, Moves, Reply, Answers
    <3> QED BY <1>5, <2>5, <3>1, <3>2, <3>3, <3>4, <3>5, <3>6 DEF HandlerStep
  <2> QED BY <2>1, <2>2, <2>3, <2>4, <2>5
<1>6. ASSUME NEW c \in Commands, RunCommand(c) PROVE Goal
  <2>1. wire' = wire  BY <1>6 DEF RunCommand
  <2>2. CASE UNCHANGED <<silenced, handlers>>  BY <2>1, <2>2
  <2>3. ASSUME NEW r \in Receivers, silenced' = silenced \ {r},
               handlers' = [h \in Handlers |->
                          IF handlers[h] # Idle /\ wire[handlers[h].msg].receiver = r
                            THEN [handlers[h] EXCEPT !.muted = FALSE] ELSE handlers[h]]
        PROVE  Goal
    <3> SUFFICES ASSUME NEW h \in Handlers PROVE Muted(h)'
      OBVIOUS
    <3>1. CASE handlers[h] # Idle /\ wire[handlers[h].msg].receiver = r
      BY <1>0, <2>3, <3>1 DEF Hand
    <3>2. CASE handlers[h] = Idle  BY <2>3, <3>2 DEF Idle
    <3>3. CASE handlers[h] # Idle /\ wire[handlers[h].msg].receiver # r  BY <2>1, <2>3, <3>3
    <3> QED BY <3>1, <3>2, <3>3
  <2> QED BY <1>6, <2>2, <2>3 DEF RunCommand
<1>7. ASSUME NEW c \in Commands, ReadReceiver(c) \/ WriteReceiver(c) PROVE Goal
  <2>1. UNCHANGED <<handlers, wire>> /\ silenced \subseteq silenced'
    BY <1>7 DEF ReadReceiver, WriteReceiver, requestVars, Silence
  <2> QED BY <2>1
<1>8. ASSUME UNCHANGED <<handlers, wire, silenced>> PROVE Goal  BY <1>8
<1>9. ASSUME Tick PROVE Goal
  <2>1. silenced' = silenced  BY <1>9 DEF Tick
  <2> SUFFICES ASSUME NEW h \in Handlers PROVE Muted(h)'
    OBVIOUS
  <2>2. CASE handlers[h] = Idle
    <3>1. handlers'[h] = Idle  BY <1>9, <2>2, TickHands DEF BaseInv, AuthTypes
    <3> QED BY <3>1 DEF Idle
  <2>3. CASE handlers[h] # Idle
    <3>1. handlers'[h].pc = handlers[h].pc /\ handlers'[h].msg = handlers[h].msg
          /\ handlers'[h].muted = handlers[h].muted
      BY <1>9, <2>3, TickHands DEF BaseInv, AuthTypes
    <3>2. handlers[h].msg \in Messages  BY <1>0, <2>3 DEF HandsRight
    <3>3. wire'[handlers[h].msg].receiver = wire[handlers[h].msg].receiver
      BY <1>9, <3>2, TickWire DEF BaseInv, AuthTypes
    <3> QED BY <2>1, <3>1, <3>3
  <2> QED BY <2>2, <2>3
<1>10. ASSUME NEW c \in Commands, CommandStep(c) PROVE Goal
  BY <1>6, <1>7, <1>8, <1>10 DEF CommandStep, CommandFails
<1> QED
  BY <1>1, <1>2, <1>5, <1>8, <1>9, <1>10 DEF Next, vars, AddReceiver, requestVars

LEMMA SilentStep ==
    ASSUME BaseInv, MuteInv, [Next]_vars
    PROVE  \A r \in Receivers : Silent(r)'
<1> USE DEF MuteInv, Silent, Running
<1> DEFINE Goal == \A r \in Receivers : Silent(r)'
<1>0. /\ commands \in [Commands -> CommandRun] /\ receivers \in [Receivers -> ReceiverRow] /\ CommandsRight
      /\ silenced \subseteq Receivers
  BY DEF BaseInv, AuthTypes, TableTypes
<1>1. ASSUME UNCHANGED <<commands, silenced>>, \A r \in Receivers : receivers'[r].state = receivers[r].state
      PROVE  Goal
  BY <1>1
<1>2. ASSUME NEW h \in Handlers, HeartbeatUpdate(h) PROVE Goal
  <2>1. UNCHANGED <<commands, silenced>>  BY <1>2 DEF HeartbeatUpdate
  <2>2. \A r \in Receivers : receivers'[r].state = receivers[r].state
    BY <1>0, <1>2 DEF HeartbeatUpdate, ReceiverRow
  <2> QED BY <1>1, <2>1, <2>2
<1>3. ASSUME NEW r \in Receivers, AddReceiver(r) PROVE Goal
  <2>1. r \notin silenced  BY <1>3 DEF AddReceiver, Absent
  <2> QED BY <1>0, <1>3, <2>1 DEF AddReceiver
<1>4. ASSUME NEW c \in Commands, RunCommand(c) PROVE Goal
  <2>1. PICK sub \in {"disable", "enable"}, r \in Receivers :
            /\ commands' = [commands EXCEPT ![c] = [pc |-> "read", sub |-> sub, receiver |-> r]]
            /\ IF sub = "enable" THEN silenced' = silenced \ {r} ELSE silenced' = silenced
    BY <1>4 DEF RunCommand
  <2>2. receivers' = receivers  BY <1>4 DEF RunCommand
  <2> QED BY <1>0, <2>1, <2>2
<1>5. ASSUME NEW c \in Commands, commands' = [commands EXCEPT ![c] = NotRun], commands[c].receiver \in Receivers,
             commands[c].sub \in {"disable", "enable"},
             \A r \in Receivers : receivers'[r].state =
                 IF r = commands[c].receiver THEN Wanted(c) ELSE receivers[r].state,
             Silence(c) \/ silenced' = silenced
      PROVE  Goal
  <2>1. ASSUME NEW r \in Receivers, ~Running("enable", r) PROVE ~Running("enable", r)'
    BY <1>0, <1>5, <2>1 DEF NotRun
  <2>2. ASSUME NEW r \in Receivers, r \in silenced PROVE Silent(r)'
    <3>1. ~Running("enable", r) /\ receivers[r].state = "disabled"  BY <2>2
    <3>2. r = commands[c].receiver => commands[c].sub = "disable"  BY <1>5, <3>1
    <3>3. receivers'[r].state = "disabled"  BY <1>5, <3>1, <3>2 DEF Wanted
    <3> QED BY <2>1, <3>1, <3>3
  <2>3. ASSUME NEW r \in Receivers, r \notin silenced, r \in silenced' PROVE Silent(r)'
    <3>1. r = commands[c].receiver /\ commands[c].sub = "disable" /\ ~Running("enable", r)
      BY <1>5, <2>3 DEF Silence
    <3>2. receivers'[r].state = "disabled"  BY <1>5, <3>1 DEF Wanted
    <3> QED BY <2>1, <3>1, <3>2
  <2> QED BY <2>2, <2>3
<1>6. ASSUME NEW c \in Commands, ReadReceiver(c) PROVE Goal
  <2>0. /\ commands[c].receiver \in Receivers /\ commands[c].sub \in {"disable", "enable"}
        /\ commands[c].pc # "idle" /\ receivers' = receivers
    BY <1>0, <1>6 DEF ReadReceiver, CommandsRight
  <2>1. CASE Exit(c, "RUNTIME") /\ silenced' = silenced  BY <1>0, <2>0, <2>1 DEF Exit, NotRun
  <2>2. CASE receivers[commands[c].receiver].state = Wanted(c) /\ Exit(c, "OK") /\ Silence(c)
    BY <1>5, <2>0, <2>2 DEF Exit
  <2>3. CASE commands' = [commands EXCEPT ![c].pc = "write"] /\ silenced' = silenced
    BY <1>0, <2>0, <2>3 DEF CommandRun
  <2> QED BY <1>6, <2>1, <2>2, <2>3 DEF ReadReceiver
<1>7. ASSUME NEW c \in Commands, WriteReceiver(c) \/ CommandFails(c) PROVE Goal
  <2>0. /\ commands[c].receiver \in Receivers /\ commands[c].sub \in {"disable", "enable"}
        /\ commands' = [commands EXCEPT ![c] = NotRun] /\ (Silence(c) \/ silenced' = silenced)
    BY <1>0, <1>7 DEF WriteReceiver, CommandFails, CommandsRight, Exit
  <2>1. CASE receivers' = [receivers EXCEPT ![commands[c].receiver].state = Wanted(c)]
    <3>1. \A r \in Receivers : receivers'[r].state =
                 IF r = commands[c].receiver THEN Wanted(c) ELSE receivers[r].state
      BY <1>0, <2>0, <2>1 DEF ReceiverRow
    <3> QED BY <1>5, <2>0, <3>1
  <2>2. CASE receivers' = receivers /\ silenced' = silenced  BY <1>0, <2>0, <2>2 DEF NotRun
  <2> QED BY <1>7, <2>1, <2>2 DEF WriteReceiver, CommandFails
<1>8. ASSUME Tick PROVE Goal
  <2>1. \A r \in Receivers : receivers'[r].state = receivers[r].state  BY <1>0, <1>8 DEF Tick, ReceiverRow
  <2> QED BY <1>1, <1>8, <2>1 DEF Tick
<1>9. ASSUME UNCHANGED <<commands, silenced, receivers>> PROVE Goal  BY <1>9
<1>10. ASSUME NEW h \in Handlers, HandlerStep(h) PROVE Goal
  BY <1>2, <1>9, <1>10
  DEF HandlerStep, IpCheck, SelectReceiver, TakeNonce, ReceiverCheck, AppCheck, ProcessInbound,
      HeartbeatAge, Fail
<1>11. ASSUME NEW c \in Commands, CommandStep(c) PROVE Goal
  BY <1>4, <1>6, <1>7, <1>11 DEF CommandStep
<1> QED
  BY <1>3, <1>8, <1>9, <1>10, <1>11 DEF Next, vars, Arrive, ArriveAgain, Begin

\* verifyGatewayHmac reads the row before it accepts anything, and `receiver
\* disable` exits 0 only with the row disabled: no request that arrives after
\* the exit is authenticated before somebody begins to enable the receiver.
THEOREM DisableHolds == Spec => []DisabledIsObeyed
<1>1. BaseInv /\ MuteInv /\ [Next]_vars => MuteInv'  BY MutedStep, SilentStep DEF MuteInv
<1>2. MuteInv => DisabledIsObeyed  BY DEF MuteInv, Muted, DisabledIsObeyed
<1> QED BY AuthBase, MuteInit, <1>1, <1>2, PTL DEF Spec

-----------------------------------------------------------------------------
(* What a 200 to a heartbeat promises                                      *)

Timeout == RECEIVER_HEARTBEAT_TIMEOUT_SECONDS
Quarter == Timeout \div 4
Slack == IF MaxStall > Quarter THEN MaxStall ELSE Quarter

LEMMA HeardNumbers ==
    /\ Timeout \in Nat /\ Quarter \in Int /\ Slack \in Int /\ MaxStall \in Nat
    /\ Quarter <= Slack /\ MaxStall <= Slack
BY AuthNumbers DEF Timeout, Quarter, Slack

\* The heartbeat written last is at most the slack older than the one answered
\* last, as long as anybody asks how old they are.
HeardRow(r) ==
    heard[r] # Never =>
        /\ heard[r] >= 0
        /\ receivers[r].state # "absent"
        /\ heard[r] <= Timeout =>
              /\ receivers[r].heartbeatAge # Never
              /\ receivers[r].heartbeatAge <= heard[r] + Slack

HeardInv == \A r \in Receivers : HeardRow(r)

LEMMA HeardInit == Init => HeardInv
BY DEF Init, HeardInv, HeardRow

\* A second passes for the ages.
LEMMA OlderHeard ==
    ASSUME NEW a \in Int
    PROVE  /\ Older(a, OldHeartbeat) \in {a, a + 1}
           /\ a = Never => Older(a, OldHeartbeat) = Never
           /\ a # Never /\ a >= 0 => Older(a, OldHeartbeat) # Never /\ Older(a, OldHeartbeat) >= 0
           /\ a # Never /\ a <= Timeout => Older(a, OldHeartbeat) = a + 1
           /\ a > Timeout => Older(a, OldHeartbeat) > Timeout
BY AuthNumbers DEF Older, OldHeartbeat, Never, Timeout

LEMMA HeardInvStep ==
    ASSUME BaseInv, HeardInv, [Next]_vars
    PROVE  HeardInv'
<1> DEFINE Age(r) == receivers[r].heartbeatAge
<1>0. /\ receivers \in [Receivers -> ReceiverRow] /\ heard \in [Receivers -> Int]
      /\ \A r \in Receivers : Age(r) \in Int /\ Age(r) >= Never /\ heard[r] \in Int
      /\ RowsStay
  BY RowsStayThere DEF BaseInv, AuthTypes, TableTypes, ReceiverRow, Ages
<1>1. ASSUME UNCHANGED heard, \A r \in Receivers : receivers'[r].heartbeatAge = Age(r) PROVE HeardInv'
  BY <1>0, <1>1 DEF HeardInv, HeardRow, RowsStay
<1>2. ASSUME NEW h \in Handlers, handlers[h].pc # "idle" PROVE
          /\ wire[handlers[h].msg].receiver \in Receivers
          /\ receivers[wire[handlers[h].msg].receiver].state # "absent"
          /\ handlers[h].ago \in Nat /\ handlers[h].ago <= MaxStall
  <2>1. /\ handlers[h].msg \in Messages /\ wire[handlers[h].msg].kind # "none"
        /\ handlers[h].ago \in Nat /\ handlers[h].inHand \in Nat
        /\ handlers[h].ago <= handlers[h].inHand /\ handlers[h].inHand <= MaxStall
    BY <1>2 DEF BaseInv, HandsRight, AuthTypes, HandTypes, Hand
  <2>2. handlers[h].ago <= MaxStall  BY <2>1, HeardNumbers
  <2> QED BY <2>1, <2>2 DEF BaseInv, SignedRight
<1>3. ASSUME NEW h \in Handlers, NEW r, r = wire[handlers[h].msg].receiver, handlers[h].pc # "idle", Acknowledge(h),
             \A q \in Receivers : q # r => receivers'[q] = receivers[q],
             \/ receivers'[r].heartbeatAge = handlers[h].ago
             \/ /\ receivers'[r] = receivers[r]
                /\ Age(r) # Never /\ Age(r) - handlers[h].ago <= Quarter
      PROVE  HeardInv'
  <2>1. /\ r \in Receivers /\ receivers[r].state # "absent"
        /\ handlers[h].ago \in Nat /\ handlers[h].ago <= MaxStall
    BY <1>2, <1>3
  <2>2. PICK ago : ago = handlers[h].ago  OBVIOUS
  <2>3. heard' = [heard EXCEPT ![r] = IF heard[r] = Never \/ heard[r] > ago THEN ago ELSE heard[r]]
    BY <1>3, <2>2 DEF Acknowledge
  <2>4. \A q \in Receivers : q # r => HeardRow(q)'  BY <1>0, <1>3, <2>3 DEF HeardInv, HeardRow
  <2>5. HeardRow(r)'
    <3>1. /\ heard'[r] = IF heard[r] = Never \/ heard[r] > ago THEN ago ELSE heard[r]
          /\ receivers'[r].state # "absent"
      BY <1>0, <2>1, <2>3 DEF RowsStay
    <3>2. heard[r] \in Int /\ Age(r) \in Int /\ ago \in Nat /\ ago <= MaxStall  BY <1>0, <2>1, <2>2
    <3>3. heard'[r] >= 0  BY <2>1, <3>1, <3>2 DEF HeardInv, HeardRow
    <3>4. CASE receivers'[r].heartbeatAge = ago
      <4>1. receivers'[r].heartbeatAge <= heard'[r] + Slack
        <5>1. CASE heard'[r] = ago  BY <3>2, <3>4, <5>1, HeardNumbers
        <5>2. CASE heard'[r] = heard[r]  BY <3>2, <3>3, <3>4, <5>2, HeardNumbers
        <5> QED BY <3>1, <5>1, <5>2
      <4>2. receivers'[r].heartbeatAge # Never  BY <3>2, <3>4 DEF Never
      <4> QED BY <3>1, <3>3, <4>1, <4>2 DEF HeardRow
    <3>5. CASE receivers'[r] = receivers[r] /\ Age(r) # Never /\ Age(r) - ago <= Quarter
      <4>1. heard'[r] <= Timeout => receivers'[r].heartbeatAge <= heard'[r] + Slack
        <5>1. CASE heard'[r] = ago  BY <3>2, <3>5, <5>1, HeardNumbers
        <5>2. CASE heard'[r] = heard[r] /\ heard[r] # Never
          BY <2>1, <3>2, <3>5, <5>2, HeardNumbers DEF HeardInv, HeardRow
        <5> QED BY <3>1, <5>1, <5>2
      <4> QED BY <3>1, <3>3, <3>5, <4>1 DEF HeardRow
    <3> QED BY <1>3, <2>2, <3>4, <3>5
  <2> QED BY <2>4, <2>5 DEF HeardInv
<1>4. ASSUME NEW h \in Handlers, HeartbeatAge(h) PROVE HeardInv'
  <2>1. CASE UNCHANGED heard  BY <1>1, <1>4, <2>1 DEF HeartbeatAge
  <2>2. PICK r : r = wire[handlers[h].msg].receiver  OBVIOUS
  <2>3. CASE ~WorthWriting(Age(r), handlers[h].ago) /\ Acknowledge(h)
    <3>1. handlers[h].pc # "idle" /\ receivers' = receivers  BY <1>4 DEF HeartbeatAge
    <3>2. r \in Receivers /\ handlers[h].ago \in Nat  BY <1>2, <2>2, <3>1
    <3>3. Age(r) # Never /\ Age(r) - handlers[h].ago <= Quarter
      BY <1>0, <2>3, <3>2, HeardNumbers DEF WorthWriting, Quarter, Timeout
    <3> QED BY <1>3, <2>2, <2>3, <3>1, <3>3
  <2> QED BY <1>4, <2>1, <2>2, <2>3 DEF HeartbeatAge
<1>5. ASSUME NEW h \in Handlers, HeartbeatUpdate(h) PROVE HeardInv'
  <2>1. PICK r : r = wire[handlers[h].msg].receiver  OBVIOUS
  <2>2. handlers[h].pc # "idle" /\ Acknowledge(h)
        /\ receivers' = [receivers EXCEPT ![r].heartbeatAge = handlers[h].ago]
    BY <1>5, <2>1 DEF HeartbeatUpdate
  <2>3. r \in Receivers  BY <1>2, <2>1, <2>2
  <2>4. receivers'[r].heartbeatAge = handlers[h].ago /\ \A q \in Receivers : q # r => receivers'[q] = receivers[q]
    BY <1>0, <2>2, <2>3 DEF ReceiverRow
  <2> QED BY <1>3, <2>1, <2>2, <2>4
<1>6. ASSUME NEW r \in Receivers, AddReceiver(r) PROVE HeardInv'
  <2>1. heard[r] = Never  BY <1>6 DEF AddReceiver, HeardInv, HeardRow, Absent
  <2>2. heard' = heard /\ \A q \in Receivers : q # r => receivers'[q] = receivers[q]
    BY <1>0, <1>6 DEF AddReceiver, requestVars
  <2> QED BY <2>1, <2>2 DEF HeardInv, HeardRow
<1>7. ASSUME NEW c \in Commands, WriteReceiver(c) \/ CommandFails(c) PROVE HeardInv'
  <2>1. heard' = heard  BY <1>7 DEF WriteReceiver, CommandFails, requestVars
  <2>2. \A r \in Receivers : receivers'[r].heartbeatAge = Age(r)
    BY <1>0, <1>7 DEF WriteReceiver, CommandFails, ReceiverRow
  <2> QED BY <1>1, <2>1, <2>2
<1>8. ASSUME Tick PROVE HeardInv'
  <2> SUFFICES ASSUME NEW r \in Receivers PROVE HeardRow(r)'
    BY DEF HeardInv
  <2>1. heard'[r] = Older(heard[r], OldHeartbeat)  BY <1>8 DEF Tick
  <2>2. receivers'[r].heartbeatAge = Older(Age(r), OldHeartbeat)
    BY <1>0, <1>8 DEF Tick, ReceiverRow
  <2>3. heard[r] \in Int /\ Age(r) \in Int /\ Age(r) >= Never  BY <1>0
  <2>4. CASE heard[r] = Never  BY <2>1, <2>3, <2>4, OlderHeard DEF HeardRow
  <2>5. CASE heard[r] # Never
    <3>1. heard[r] >= 0 /\ receivers[r].state # "absent"
          /\ (heard[r] <= Timeout => Age(r) # Never /\ Age(r) <= heard[r] + Slack)
      BY <2>5 DEF HeardInv, HeardRow
    <3>2. heard'[r] >= 0  BY <2>1, <2>3, <2>5, <3>1, OlderHeard
    <3>3. receivers'[r].state # "absent"  BY <1>0, <3>1 DEF RowsStay
    <3>4. ASSUME heard'[r] <= Timeout PROVE receivers'[r].heartbeatAge # Never
                                            /\ receivers'[r].heartbeatAge <= heard'[r] + Slack
      <4>1. heard[r] <= Timeout  BY <2>1, <2>3, <3>4, OlderHeard, HeardNumbers
      <4>2. heard'[r] = heard[r] + 1  BY <2>1, <2>3, <2>5, <4>1, OlderHeard
      <4>3. receivers'[r].heartbeatAge \in {Age(r), Age(r) + 1}  BY <2>2, <2>3, OlderHeard
      <4>4. receivers'[r].heartbeatAge # Never
        BY <2>3, <3>1, <4>1, <4>3 DEF Never
      <4> QED BY <2>3, <3>1, <4>1, <4>2, <4>3, <4>4, HeardNumbers
    <3> QED BY <3>2, <3>3, <3>4 DEF HeardRow
  <2> QED BY <2>4, <2>5
<1>9. ASSUME UNCHANGED <<heard, receivers>> PROVE HeardInv'  BY <1>9 DEF HeardInv, HeardRow
<1>10. ASSUME NEW h \in Handlers, HandlerStep(h) PROVE HeardInv'
  BY <1>4, <1>5, <1>9, <1>10
  DEF HandlerStep, IpCheck, SelectReceiver, TakeNonce, ReceiverCheck, AppCheck, ProcessInbound, Fail
<1>11. ASSUME NEW c \in Commands, CommandStep(c) PROVE HeardInv'
  BY <1>7, <1>9, <1>11 DEF CommandStep, RunCommand, ReadReceiver, requestVars
<1> QED
  BY <1>6, <1>8, <1>9, <1>10, <1>11 DEF Next, vars, Arrive, ArriveAgain, Begin

LEMMA HeardIsHealthy == BaseInv /\ HeardInv => HeardMeansHealthy
<1> SUFFICES ASSUME BaseInv, HeardInv PROVE HeardMeansHealthy
  OBVIOUS
<1>0. Timeout - Slack \in Int /\ \A r \in Receivers : heard[r] \in Int
  BY HeardNumbers DEF BaseInv, AuthTypes, TableTypes, Ages
<1> SUFFICES ASSUME NEW r \in Receivers,
                    receivers[r].state = "enabled", heard[r] # Never, heard[r] <= Timeout - Slack
             PROVE  Healthy(r) /\ (heard[r] < Timeout - Slack => Choosable(r))
  BY <1>0 DEF HeardMeansHealthy, Timeout, Slack, Quarter
<1>1. heard[r] \in Int /\ receivers[r].heartbeatAge \in Int
  BY DEF BaseInv, AuthTypes, TableTypes, ReceiverRow, Ages
<1>2. Slack >= 0  BY HeardNumbers
<1>3. heard[r] <= Timeout  BY <1>1, <1>2, HeardNumbers
<1>4. receivers[r].heartbeatAge # Never /\ receivers[r].heartbeatAge <= heard[r] + Slack
  BY <1>3 DEF HeardInv, HeardRow
<1>5. Healthy(r)
  <2>1. receivers[r].heartbeatAge <= Timeout  BY <1>1, <1>4, HeardNumbers
  <2> QED BY <1>4, <2>1 DEF Healthy, Timeout
<1>6. ASSUME heard[r] < Timeout - Slack PROVE Choosable(r)
  <2>1. receivers[r].heartbeatAge < Timeout  BY <1>1, <1>4, <1>6, HeardNumbers
  <2> QED BY <1>5, <2>1 DEF Choosable, Timeout
<1> QED BY <1>5, <1>6

\* The heartbeat route answers 200 without a write while the row is young
\* enough, and writes a time it read earlier: for every timeout, quarter and
\* overlap, an enabled receiver that was answered is listed as healthy for the
\* rest of the timeout but the slack, and may be chosen until just before.
THEOREM AnsweredIsHealthy == Spec => []HeardMeansHealthy
<1>1. BaseInv /\ HeardInv /\ [Next]_vars => HeardInv'  BY HeardInvStep
<1> QED BY AuthBase, HeardInit, <1>1, HeardIsHealthy, PTL DEF Spec

-----------------------------------------------------------------------------
(* One nonce, accepted more than once                                      *)

Skew == INBOUND_TIMESTAMP_SKEW_SECONDS

\* What the time stamp leaves for further acceptances of a message.
Left(m) == (2 - accepted[m].times) * Skew

\* The request got through the check of its time stamp.
PastSkew(h) == handlers[h].pc \notin {"idle", "ip"}

\* The key of a nonce lives until the message was accepted Skew seconds ago; a
\* message still fresh has used up its time stamp as often as it was accepted.
NonceOf(m) ==
    /\ wire[m] = Unsigned => accepted[m].times = 0
    /\ accepted[m].times > 0 =>
          /\ nonces[m] + accepted[m].age >= Skew
          /\ wire[m].ahead >= -Skew => wire[m].ahead + accepted[m].age <= Left(m)

\* A request in hand was fresh when it was begun.
FreshHand(h) ==
    PastSkew(h) =>
        LET m == handlers[h].msg
        IN  /\ wire[m].ahead <= Skew
            /\ accepted[m].times > 0 => Left(m) - accepted[m].age >= -Skew - handlers[h].inHand

NonceInv == (\A m \in Messages : NonceOf(m)) /\ (\A h \in Handlers : FreshHand(h))

LEMMA NonceInit == Init => NonceInv
<1> SUFFICES ASSUME Init PROVE NonceInv
  OBVIOUS
<1>1. \A m \in Messages : accepted[m].times = 0  BY DEF Init
<1>2. \A m \in Messages : NonceOf(m)  BY <1>1 DEF NonceOf
<1>3. \A h \in Handlers : FreshHand(h)  BY DEF Init, FreshHand, PastSkew, Idle
<1> QED BY <1>2, <1>3 DEF NonceInv

LEMMA OneLess ==
    ASSUME NEW t \in Int, NEW s \in Int
    PROVE  /\ (2 - t) * s \in Int
           /\ (2 - (t + 1)) * s = (2 - t) * s - s
           /\ t * s = 2 * s - (2 - t) * s
OBVIOUS

LEMMA NonceTypes ==
    ASSUME BaseInv
    PROVE  /\ Skew \in Nat
           /\ \A m \in Messages : /\ nonces[m] \in Nat /\ wire[m].ahead \in Int
                                  /\ accepted[m].times \in Nat /\ accepted[m].age \in Nat
                                  /\ Left(m) \in Int
           /\ \A h \in Handlers : handlers[h].inHand \in Nat
<1>1. Skew \in Nat  BY AuthNumbers DEF Skew
<1>2. \A m \in Messages : nonces[m] \in Nat /\ accepted[m].times \in Nat /\ accepted[m].age \in Nat
  BY DEF BaseInv, AuthTypes, RedisTypes
<1>3. \A m \in Messages : wire[m].ahead \in Int  BY DEF BaseInv, AuthTypes, HandTypes, SignedRequest
<1>4. \A h \in Handlers : handlers[h].inHand \in Nat  BY DEF BaseInv, AuthTypes, HandTypes, Hand
<1>5. \A m \in Messages : Left(m) \in Int  BY <1>1, <1>2, OneLess DEF Left
<1> QED BY <1>1, <1>2, <1>3, <1>4, <1>5

\* SET NX found no key: the message is accepted.
Accepts(h) ==
    LET m == handlers[h].msg
    IN  /\ handlers[h].pc = "nonce"
        /\ nonces[m] = 0
        /\ nonces' = [nonces EXCEPT ![m] = Skew]
        /\ accepted' = [accepted EXCEPT ![m] = [times |-> @.times + 1, age |-> 0]]
        /\ GoesOn(h, "receiver")
        /\ UNCHANGED wire

LEMMA NonceAccept ==
    ASSUME BaseInv, BaseInv', NonceInv, NEW h \in Handlers, Accepts(h)
    PROVE  NonceInv'
<1>1. PICK m : m = handlers[h].msg  OBVIOUS
<1>2. m \in Messages /\ wire[m] # Unsigned
  BY <1>1 DEF Accepts, BaseInv, HandsRight, Unsigned
<1>3. /\ nonces'[m] = Skew /\ accepted'[m].times = accepted[m].times + 1 /\ accepted'[m].age = 0
      /\ \A n \in Messages : n # m => nonces'[n] = nonces[n] /\ accepted'[n] = accepted[n]
      /\ wire' = wire /\ nonces[m] = 0
  BY <1>1, <1>2 DEF Accepts, BaseInv, AuthTypes, RedisTypes
<1>4. Left(m)' = Left(m) - Skew
  <2>1. accepted[m].times \in Int /\ Skew \in Int  BY <1>2, NonceTypes
  <2>2. Left(m)' = (2 - (accepted[m].times + 1)) * Skew  BY <1>3 DEF Left, Skew
  <2> QED BY <2>1, <2>2, OneLess DEF Left
<1>5. /\ wire[m].ahead <= Skew
      /\ accepted[m].times > 0 => accepted[m].age >= Skew
      /\ accepted[m].times = 0 => Left(m) = 2 * Skew
  <2>1. PastSkew(h)  BY DEF Accepts, PastSkew
  <2>2. accepted[m].times > 0 => accepted[m].age >= Skew
    BY <1>2, <1>3, NonceTypes DEF NonceInv, NonceOf
  <2>3. accepted[m].times = 0 => Left(m) = 2 * Skew  BY NonceTypes DEF Left
  <2> QED BY <1>1, <2>1, <2>2, <2>3 DEF NonceInv, FreshHand
<1>6. NonceOf(m)'
  <2>1. wire[m].ahead >= -Skew => wire[m].ahead <= Left(m) - Skew
    BY <1>2, <1>5, NonceTypes DEF NonceInv, NonceOf
  <2>2. nonces'[m] + accepted'[m].age >= Skew  BY <1>3, NonceTypes
  <2>3. wire'[m].ahead >= -Skew => wire'[m].ahead + accepted'[m].age <= Left(m)'
    BY <1>2, <1>3, <1>4, <2>1, NonceTypes
  <2> QED BY <1>2, <1>3, <2>2, <2>3 DEF NonceOf, Skew
<1>7. ASSUME NEW n \in Messages, n # m PROVE NonceOf(n)' /\ Left(n)' = Left(n)
  <2>1. Left(n)' = Left(n)  BY <1>3, <1>7 DEF Left, Skew
  <2> QED BY <1>3, <1>7, <2>1 DEF NonceInv, NonceOf, Skew
<1>8. ASSUME NEW k \in Handlers PROVE FreshHand(k)'
  <2>1. /\ handlers'[k].msg = handlers[k].msg /\ handlers'[k].inHand = handlers[k].inHand
        /\ PastSkew(k)' => PastSkew(k)
    BY DEF Accepts, GoesOn, BaseInv, AuthTypes, HandTypes, Hand, PastSkew
  <2>2. CASE ~PastSkew(k)'  BY <2>2 DEF FreshHand
  <2>3. CASE PastSkew(k)' /\ handlers[k].msg # m
    <3>1. handlers[k].msg \in Messages  BY <2>1, <2>3 DEF PastSkew, BaseInv, HandsRight
    <3>2. FreshHand(k) /\ PastSkew(k)  BY <2>1, <2>3 DEF NonceInv
    <3> QED BY <1>3, <1>7, <2>1, <2>3, <3>1, <3>2 DEF FreshHand, Skew
  <2>4. CASE PastSkew(k)' /\ handlers[k].msg = m
    <3>1. /\ wire[m].ahead <= Skew
          /\ accepted[m].times > 0 => Left(m) - accepted[m].age >= -Skew - handlers[k].inHand
      BY <2>1, <2>4 DEF NonceInv, FreshHand
    <3>2. Left(m)' - accepted'[m].age >= -Skew - handlers[k].inHand
      <4>1. /\ Left(m) \in Int /\ Skew \in Nat /\ handlers[k].inHand \in Nat
            /\ accepted[m].times \in Nat /\ accepted[m].age \in Nat
        BY <1>2, NonceTypes
      <4>2. CASE accepted[m].times = 0  BY <1>3, <1>4, <1>5, <4>1, <4>2
      <4>3. CASE accepted[m].times > 0  BY <1>3, <1>4, <1>5, <3>1, <4>1, <4>3
      <4> QED BY <4>1, <4>2, <4>3
    <3> QED BY <1>3, <2>1, <2>4, <3>1, <3>2 DEF FreshHand, Skew
  <2> QED BY <2>2, <2>3, <2>4
<1> QED BY <1>6, <1>7, <1>8 DEF NonceInv

\* The message of an Unsigned row is signed: it was never accepted.
LEMMA NonceSign ==
    ASSUME BaseInv, NonceInv, NEW h \in Handlers, NEW m \in Messages, Arrive(h, m)
    PROVE  NonceInv'
<1>1. /\ wire[m] = Unsigned /\ UNCHANGED <<nonces, accepted>> /\ accepted[m].times = 0
      /\ \A n \in Messages : n # m => wire'[n] = wire[n]
      /\ handlers'[h].pc = "ip"
      /\ \A k \in Handlers : k # h => handlers'[k] = handlers[k]
  BY DEF Arrive, Begin, NonceInv, NonceOf, BaseInv, AuthTypes, HandTypes
<1>2. \A n \in Messages : NonceOf(n)'
  <2>1. NonceOf(m)'  BY <1>1 DEF NonceOf
  <2>2. \A n \in Messages : n # m => NonceOf(n)'  BY <1>1 DEF NonceInv, NonceOf, Left, Skew
  <2> QED BY <2>1, <2>2
<1>3. ASSUME NEW k \in Handlers PROVE FreshHand(k)'
  <2>1. CASE k = h  BY <1>1, <2>1 DEF FreshHand, PastSkew
  <2>2. CASE k # h /\ PastSkew(k)
    <3>1. handlers[k].msg \in Messages /\ handlers[k].msg # m
      BY <1>1, <2>2 DEF PastSkew, BaseInv, HandsRight, Unsigned
    <3> QED BY <1>1, <2>2, <3>1 DEF NonceInv, FreshHand, PastSkew, Left, Skew
  <2>3. CASE k # h /\ ~PastSkew(k)  BY <1>1, <2>3 DEF FreshHand, PastSkew
  <2> QED BY <2>1, <2>2, <2>3
<1> QED BY <1>2, <1>3 DEF NonceInv

\* A second passes.
LEMMA NonceTick ==
    ASSUME BaseInv, NonceInv, Tick
    PROVE  NonceInv'
<1>0. HandTypes /\ RedisTypes  BY DEF BaseInv, AuthTypes
<1>1. ASSUME NEW m \in Messages
      PROVE  /\ accepted'[m].times = accepted[m].times /\ Left(m)' = Left(m)
             /\ accepted'[m].age = IF accepted[m].age < Skew THEN accepted[m].age + 1 ELSE accepted[m].age
             /\ nonces'[m] = IF nonces[m] > 0 THEN nonces[m] - 1 ELSE 0
             /\ wire'[m] = Unsigned => wire[m] = Unsigned
             /\ wire'[m].ahead \in {wire[m].ahead, wire[m].ahead - 1}
             /\ wire[m] # Unsigned /\ wire[m].ahead >= -Skew => wire'[m].ahead = wire[m].ahead - 1
  <2>1. /\ accepted'[m].times = accepted[m].times
        /\ accepted'[m].age = IF accepted[m].age < Skew THEN accepted[m].age + 1 ELSE accepted[m].age
    BY <1>0, TickAccepted DEF Skew
  <2>2. nonces'[m] = IF nonces[m] > 0 THEN nonces[m] - 1 ELSE 0  BY DEF Tick
  <2>3. /\ wire'[m].kind = wire[m].kind
        /\ wire'[m].ahead \in {wire[m].ahead, wire[m].ahead - 1}
        /\ wire[m] # Unsigned /\ wire[m].ahead >= -Skew => wire'[m].ahead = wire[m].ahead - 1
    BY <1>0, TickWire DEF Skew
  <2>4. wire'[m] = Unsigned => wire[m] = Unsigned  BY <2>3 DEF BaseInv, SignedRight, Unsigned
  <2>5. Left(m)' = Left(m)  BY <2>1 DEF Left, Skew
  <2> QED BY <2>1, <2>2, <2>3, <2>4, <2>5
<1>2. ASSUME NEW m \in Messages PROVE NonceOf(m)'
  <2>1. /\ nonces[m] \in Nat /\ wire[m].ahead \in Int /\ accepted[m].times \in Nat /\ accepted[m].age \in Nat
        /\ Left(m) \in Int /\ Skew \in Nat
    BY NonceTypes
  <2>2. CASE accepted[m].times = 0  BY <1>1, <2>2 DEF NonceOf
  <2>3. CASE accepted[m].times > 0
    <3>1. /\ wire[m] # Unsigned /\ nonces[m] + accepted[m].age >= Skew
          /\ wire[m].ahead >= -Skew => wire[m].ahead + accepted[m].age <= Left(m)
      BY <2>1, <2>3 DEF NonceInv, NonceOf
    <3>2. nonces'[m] + accepted'[m].age >= Skew  BY <1>1, <2>1, <3>1
    <3>3. wire'[m].ahead >= -Skew => wire'[m].ahead + accepted'[m].age <= Left(m)'
      <4>1. /\ wire'[m].ahead \in {wire[m].ahead, wire[m].ahead - 1}
            /\ wire[m].ahead >= -Skew => wire'[m].ahead = wire[m].ahead - 1
            /\ accepted'[m].age \in {accepted[m].age, accepted[m].age + 1}
            /\ Left(m)' = Left(m)
        BY <1>1, <3>1
      <4> QED BY <2>1, <3>1, <4>1
    <3> QED BY <1>1, <3>1, <3>2, <3>3 DEF NonceOf, Skew
  <2> QED BY <2>1, <2>2, <2>3
<1>3. ASSUME NEW h \in Handlers PROVE FreshHand(h)'
  <2>1. CASE handlers[h] = Idle
    <3>1. handlers'[h] = Idle  BY <1>0, <2>1, TickHands
    <3> QED BY <3>1 DEF FreshHand, PastSkew, Idle
  <2>2. CASE handlers[h] # Idle /\ PastSkew(h)
    <3>1. handlers'[h].msg = handlers[h].msg /\ handlers'[h].inHand = handlers[h].inHand + 1
      BY <1>0, <2>2, TickHands
    <3>2. PICK m : m = handlers[h].msg  OBVIOUS
    <3>3. m \in Messages  BY <2>2, <3>2 DEF PastSkew, BaseInv, HandsRight
    <3>4. /\ wire[m].ahead \in Int /\ accepted[m].times \in Nat /\ accepted[m].age \in Nat
          /\ Left(m) \in Int /\ Skew \in Nat /\ handlers[h].inHand \in Nat
      BY <3>3, NonceTypes
    <3>5. /\ wire[m].ahead <= Skew
          /\ accepted[m].times > 0 => Left(m) - accepted[m].age >= -Skew - handlers[h].inHand
      BY <2>2, <3>2 DEF NonceInv, FreshHand
    <3>6. /\ wire'[m].ahead \in {wire[m].ahead, wire[m].ahead - 1}
          /\ accepted'[m].age \in {accepted[m].age, accepted[m].age + 1}
          /\ Left(m)' = Left(m) /\ accepted'[m].times = accepted[m].times
      BY <1>1, <3>3
    <3>7. wire'[m].ahead <= Skew  BY <3>4, <3>5, <3>6
    <3>8. accepted'[m].times > 0 => Left(m)' - accepted'[m].age >= -Skew - handlers'[h].inHand
      BY <3>1, <3>4, <3>5, <3>6
    <3> QED BY <3>1, <3>2, <3>7, <3>8 DEF FreshHand, Skew
  <2>3. CASE handlers[h] # Idle /\ ~PastSkew(h)
    <3>1. handlers'[h].pc = handlers[h].pc  BY <1>0, <2>3, TickHands
    <3> QED BY <2>3, <3>1 DEF FreshHand, PastSkew
  <2> QED BY <2>1, <2>2, <2>3
<1> QED BY <1>2, <1>3 DEF NonceInv

\* Nothing is accepted and no time passes: a request is answered, goes on from
\* a later await than the first, or gets through the check of its time stamp.
LEMMA NonceQuiet ==
    ASSUME BaseInv, NonceInv, UNCHANGED <<wire, accepted>>,
           \A m \in Messages : nonces'[m] \in {nonces[m], Skew},
           \A h \in Handlers :
              \/ ~PastSkew(h)'
              \/ /\ handlers'[h].msg = handlers[h].msg /\ handlers'[h].inHand = handlers[h].inHand
                 /\ PastSkew(h) \/ (handlers[h].pc = "ip" /\ WithinSkew(handlers[h].msg))
    PROVE  NonceInv'
<1>0. \A m \in Messages : Left(m)' = Left(m)  BY DEF Left, Skew
<1>1. ASSUME NEW m \in Messages PROVE NonceOf(m)'
  <2>1. accepted[m].times > 0 => nonces'[m] + accepted[m].age >= Skew
    <3>1. nonces'[m] \in {nonces[m], Skew}  OBVIOUS
    <3>2. nonces[m] \in Nat /\ accepted[m].age \in Nat /\ Skew \in Nat  BY NonceTypes
    <3> QED BY <3>1, <3>2 DEF NonceInv, NonceOf
  <2> QED BY <1>0, <2>1 DEF NonceInv, NonceOf, Skew
<1>2. ASSUME NEW h \in Handlers, PastSkew(h)' PROVE FreshHand(h)'
  <2>1. /\ handlers'[h].msg = handlers[h].msg /\ handlers'[h].inHand = handlers[h].inHand
        /\ PastSkew(h) \/ (handlers[h].pc = "ip" /\ WithinSkew(handlers[h].msg))
    BY <1>2
  <2>2. PICK m : m = handlers[h].msg  OBVIOUS
  <2>3. m \in Messages  BY <2>1, <2>2 DEF PastSkew, BaseInv, HandsRight
  <2>4. /\ wire[m].ahead <= Skew
        /\ accepted[m].times > 0 => Left(m) - accepted[m].age >= -Skew - handlers[h].inHand
    <3>1. CASE PastSkew(h)  BY <2>2, <3>1 DEF NonceInv, FreshHand
    <3>2. CASE WithinSkew(m)
      <4>1. /\ wire[m].ahead \in Int /\ accepted[m].age \in Nat /\ Left(m) \in Int
            /\ Skew \in Nat /\ handlers[h].inHand \in Nat
        BY <2>3, NonceTypes
      <4>2. wire[m].ahead <= Skew /\ -wire[m].ahead <= Skew  BY <3>2 DEF WithinSkew, Skew
      <4>3. wire[m].ahead >= -Skew  BY <4>1, <4>2
      <4>4. accepted[m].times > 0 => wire[m].ahead + accepted[m].age <= Left(m)
        BY <2>3, <4>3 DEF NonceInv, NonceOf
      <4> QED BY <4>1, <4>2, <4>3, <4>4
    <3> QED BY <2>1, <2>2, <3>1, <3>2
  <2> QED BY <1>0, <2>1, <2>2, <2>3, <2>4 DEF FreshHand, Skew
<1>3. \A h \in Handlers : FreshHand(h)'  BY <1>2 DEF FreshHand
<1> QED BY <1>1, <1>3 DEF NonceInv

\* The steps, as far as the nonces can tell them apart.
NonceEffect ==
    \/ \E h \in Handlers : Accepts(h)
    \/ \E h \in Handlers, m \in Messages : Arrive(h, m)
    \/ Tick
    \/ /\ UNCHANGED <<wire, accepted>>
       /\ \A m \in Messages : nonces'[m] \in {nonces[m], Skew}
       /\ \A h \in Handlers :
              \/ ~PastSkew(h)'
              \/ /\ handlers'[h].msg = handlers[h].msg /\ handlers'[h].inHand = handlers[h].inHand
                 /\ PastSkew(h) \/ (handlers[h].pc = "ip" /\ WithinSkew(handlers[h].msg))

LEMMA NonceEffects ==
    ASSUME BaseInv, [Next]_vars
    PROVE  NonceEffect
<1> DEFINE Still(h) == \/ ~PastSkew(h)'
                       \/ /\ handlers'[h].msg = handlers[h].msg /\ handlers'[h].inHand = handlers[h].inHand
                          /\ PastSkew(h) \/ (handlers[h].pc = "ip" /\ WithinSkew(handlers[h].msg))
<1>0. handlers \in [Handlers -> Hand] /\ nonces \in [Messages -> Nat]
  BY DEF BaseInv, AuthTypes, HandTypes, RedisTypes
<1>1. ASSUME UNCHANGED <<wire, accepted>>, \A m \in Messages : nonces'[m] \in {nonces[m], Skew},
             \A h \in Handlers : Still(h)
      PROVE  NonceEffect
  BY <1>1 DEF NonceEffect
<1>2. ASSUME NEW h \in Handlers, Answers(h) PROVE \A k \in Handlers : Still(k)
  BY <1>0, <1>2 DEF Answers, PastSkew, Idle
<1>3. ASSUME NEW h \in Handlers, NEW p, GoesOn(h, p),
             PastSkew(h) \/ (handlers[h].pc = "ip" /\ WithinSkew(handlers[h].msg))
      PROVE  \A k \in Handlers : Still(k)
  <2>1. handlers'[h].msg = handlers[h].msg /\ handlers'[h].inHand = handlers[h].inHand
    BY <1>0, <1>3 DEF GoesOn, Hand
  <2>2. \A k \in Handlers : k # h => handlers'[k] = handlers[k]  BY <1>0, <1>3 DEF GoesOn
  <2> QED BY <1>3, <2>1, <2>2 DEF PastSkew
<1>4. ASSUME UNCHANGED handlers PROVE \A k \in Handlers : Still(k)  BY <1>4 DEF PastSkew
<1>5. ASSUME NEW h \in Handlers, NEW m \in Messages, ArriveAgain(h, m) PROVE NonceEffect
  <2>1. UNCHANGED <<wire, accepted, nonces>>  BY <1>5 DEF ArriveAgain, Begin
  <2>2. handlers'[h].pc = "ip" /\ \A k \in Handlers : k # h => handlers'[k] = handlers[k]
    BY <1>0, <1>5 DEF ArriveAgain, Begin, Idle
  <2>3. \A k \in Handlers : Still(k)  BY <2>2 DEF PastSkew
  <2> QED BY <1>1, <2>1, <2>3
<1>6. ASSUME NEW h \in Handlers, HandlerStep(h) PROVE NonceEffect
  <2>1. CASE IpCheck(h)
    <3>1. UNCHANGED <<wire, accepted, nonces>> /\ handlers[h].pc = "ip"  BY <2>1 DEF IpCheck
    <3>2. \A k \in Handlers : Still(k)  BY <1>2, <1>3, <2>1, <3>1, IpEffect
    <3> QED BY <1>1, <3>1, <3>2
  <2>2. CASE TakeNonce(h)
    <3>1. PICK m : m = handlers[h].msg  OBVIOUS
    <3>2. CASE NonceFree(m)
      BY <2>2, <3>1, <3>2 DEF TakeNonce, NonceFree, NonceEffect, Accepts, GoOn, GoesOn, Skew
    <3>3. CASE ~NonceFree(m)
      <4>1. UNCHANGED <<wire, accepted, nonces>> /\ Answers(h)
        BY <2>2, <3>1, <3>3 DEF TakeNonce, Reply, Answers
      <4> QED BY <1>1, <1>2, <4>1
    <3> QED BY <3>2, <3>3
  <2>3. CASE Fail(h)
    <3>1. UNCHANGED <<wire, accepted>> /\ Answers(h)  BY <2>3 DEF Fail, Reply, Answers
    <3>2. \A m \in Messages : nonces'[m] \in {nonces[m], Skew}  BY <1>0, <2>3 DEF Fail, Skew
    <3> QED BY <1>1, <1>2, <3>1, <3>2
  <2>4. CASE PastSkew(h) /\ Moves(h) /\ UNCHANGED <<wire, accepted, nonces>>
    <3>1. \A k \in Handlers : Still(k)  BY <1>2, <1>3, <2>4 DEF Moves
    <3> QED BY <1>1, <2>4, <3>1
  <2>5. ASSUME ~IpCheck(h), ~TakeNonce(h), ~Fail(h)
        PROVE  PastSkew(h) /\ Moves(h) /\ UNCHANGED <<wire, accepted, nonces>>
    <3>1. CASE SelectReceiver(h)  BY <3>1 DEF SelectReceiver, PastSkew, Moves, Pcs, GoOn, Reply, GoesOn, Answers
    <3>2. CASE ReceiverCheck(h)  BY <3>2, ReceiverEffect DEF ReceiverCheck, PastSkew, Moves, Pcs
    <3>3. CASE AppCheck(h)  BY <3>3, AppEffect DEF AppCheck, PastSkew, Moves, Pcs
    <3>4. CASE ProcessInbound(h)  BY <3>4 DEF ProcessInbound, PastSkew, Moves, Reply, Answers
    <3>5. CASE HeartbeatAge(h)
      BY <3>5 DEF HeartbeatAge, PastSkew, Acknowledge, Moves, Pcs, GoOn, Reply, GoesOn, Answers
    <3>6. CASE HeartbeatUpdate(h)
      BY <3>6 DEF HeartbeatUpdate, PastSkew, Acknowledge, Moves, Reply, Answers
    <3> QED BY <1>6, <2>5, <3>1, <3>2, <3>3, <3>4, <3>5, <3>6 DEF HandlerStep
  <2> QED BY <2>1, <2>2, <2>3, <2>4, <2>5
<1>7. ASSUME NEW c \in Commands, CommandStep(c) PROVE NonceEffect
  <2>0. UNCHANGED <<wire, accepted, nonces>>
    BY <1>7 DEF CommandStep, RunCommand, ReadReceiver, WriteReceiver, CommandFails, requestVars
  <2>1. \A k \in Handlers : Still(k)
    <3>1. CASE UNCHANGED handlers  BY <1>4, <3>1
    <3>2. CASE RunCommand(c) /\ ~UNCHANGED handlers
      <4>1. \A k \in Handlers : /\ handlers'[k].pc = handlers[k].pc /\ handlers'[k].msg = handlers[k].msg
                                /\ handlers'[k].inHand = handlers[k].inHand
        BY <1>0, <3>2 DEF RunCommand, Hand
      <4> QED BY <4>1 DEF PastSkew
    <3> QED BY <1>7, <3>1, <3>2 DEF CommandStep, ReadReceiver, WriteReceiver, CommandFails, requestVars
  <2> QED BY <1>1, <2>0, <2>1
<1>8. ASSUME UNCHANGED <<handlers, wire, accepted, nonces>> PROVE NonceEffect  BY <1>1, <1>4, <1>8
<1> QED
  BY <1>5, <1>6, <1>7, <1>8 DEF Next, NonceEffect, vars, AddReceiver, requestVars

LEMMA NonceStep ==
    ASSUME BaseInv, BaseInv', NonceInv, [Next]_vars
    PROVE  NonceInv'
BY NonceEffects, NonceAccept, NonceSign, NonceTick, NonceQuiet DEF NonceEffect

LEMMA ApartStep ==
    ASSUME BaseInv, NonceInv, [Next]_vars, NEW m \in Messages, accepted'[m].times # accepted[m].times
    PROVE  /\ accepted[m].times > 0 => accepted[m].age >= INBOUND_TIMESTAMP_SKEW_SECONDS
           /\ accepted[m].times * INBOUND_TIMESTAMP_SKEW_SECONDS
                 <= 2 * INBOUND_TIMESTAMP_SKEW_SECONDS + MaxStall
<1>1. ~Tick  BY TickAccepted DEF BaseInv, AuthTypes
<1>2. \A h \in Handlers, n \in Messages : ~Arrive(h, n)  BY DEF Arrive, Begin
<1>3. PICK h \in Handlers : Accepts(h)  BY <1>1, <1>2, NonceEffects DEF NonceEffect
<1>4. handlers[h].msg = m  BY <1>3 DEF Accepts, BaseInv, AuthTypes, RedisTypes
<1>5. nonces[m] = 0 /\ PastSkew(h)  BY <1>3, <1>4 DEF Accepts, PastSkew
<1>6. /\ accepted[m].times \in Nat /\ accepted[m].age \in Nat /\ Left(m) \in Int /\ Skew \in Nat
      /\ handlers[h].inHand \in Nat /\ MaxStall \in Nat /\ handlers[h].inHand <= MaxStall
  BY <1>5, NonceTypes, AuthNumbers DEF BaseInv, HandsRight, PastSkew
<1>7. accepted[m].times > 0 => accepted[m].age >= Skew  BY <1>5, <1>6 DEF NonceInv, NonceOf
<1>8. accepted[m].times > 0 => Left(m) - accepted[m].age >= -Skew - handlers[h].inHand
  BY <1>4, <1>5 DEF NonceInv, FreshHand
<1>9. accepted[m].times * Skew = 2 * Skew - Left(m)  BY <1>6, OneLess DEF Left
<1>10. accepted[m].times * Skew <= 2 * Skew + MaxStall
  <2>1. CASE accepted[m].times = 0  BY <1>6, <2>1
  <2>2. CASE accepted[m].times > 0
    <3>1. -Left(m) <= MaxStall  BY <1>6, <1>7, <1>8, <2>2
    <3> QED BY <1>6, <1>9, <3>1
  <2> QED BY <1>6, <2>1, <2>2
<1> QED BY <1>7, <1>10 DEF Skew

\* The replay guard of verifyGatewayHmac, for every skew and every number of
\* requests that carry one nonce and are handled at once: SET NX keeps two
\* acceptances the skew apart, and the time stamp bounds how many there are.
THEOREM ReplaysApart == Spec => AcceptedApart
<1>1. BaseInv /\ BaseInv' /\ NonceInv /\ [Next]_vars => NonceInv'  BY NonceStep
<1>2. BaseInv /\ NonceInv /\ [Next]_vars =>
          [\A m \in Messages :
              accepted'[m].times # accepted[m].times =>
                  /\ accepted[m].times > 0 => accepted[m].age >= INBOUND_TIMESTAMP_SKEW_SECONDS
                  /\ accepted[m].times * INBOUND_TIMESTAMP_SKEW_SECONDS
                        <= 2 * INBOUND_TIMESTAMP_SKEW_SECONDS + MaxStall]_vars
  BY ApartStep
<1> QED BY AuthBase, NonceInit, <1>1, <1>2, PTL DEF Spec, AcceptedApart
=============================================================================
