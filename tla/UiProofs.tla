------------------------------ MODULE UiProofs ------------------------------
(***************************************************************************)
(* Proofs about UiWidgets, for every number of verifications, controllers  *)
(* and requests in flight and every clock: what is announced is true, what *)
(* was stopped is silent, and what was shown as settled stays so.          *)
(***************************************************************************)
EXTENDS UiWidgets, TLAPS

-----------------------------------------------------------------------------
(* Types                                                                   *)

What == Status \cup {"error", "timeout", "aborted"}
Instance == [v : Ids, status : Status, queued : Status, up : BOOLEAN, queuedUp : BOOLEAN,
             timers : BOOLEAN, effect : Nat, stopped : BOOLEAN]
Request == [inst : Nat, effect : Nat, answer : Status \cup {"error", None}]
Host == [connected : BOOLEAN, verification : Ids \cup {None}]

UiTypes ==
    /\ kind \in {"element", "hook", "call"}
    /\ server \in [Ids -> Status]
    /\ clock \in Nat
    /\ host \in Host
    /\ insts \in Seq(Instance)
    /\ fired \in Seq(Seq(What)) /\ Len(fired) = Len(insts)
    /\ polls \in [Polls -> Request]
    /\ \A p \in Polls : polls[p] # NoPoll => polls[p].inst \in DOMAIN insts

\* A new controller, hook or call.
LEMMA NewInstanceIs ==
    ASSUME UiTypes, NEW v \in Ids, NEW s \in Status
    PROVE  /\ NewInstance(v, s) \in Instance
           /\ NewInstance(v, s).v = v
           /\ NewInstance(v, s).timers => s = "pending"
           /\ ~NewInstance(v, s).stopped
           /\ NewInstance(v, s).status = s /\ NewInstance(v, s).queued = s
           /\ NewInstance(v, s).queuedUp => TimeIsUp
<1>1. TimeIsUp \in BOOLEAN  BY DEF TimeIsUp
<1> QED BY <1>1 DEF NewInstance, Instance, Status

\* stop() of every controller there is.
LEMMA StoppedIs ==
    ASSUME NEW s \in Seq(Instance)
    PROVE  /\ Stopped(s) \in Seq(Instance)
           /\ Len(Stopped(s)) = Len(s) /\ DOMAIN Stopped(s) = DOMAIN s
           /\ \A i \in DOMAIN s :
                 /\ Stopped(s)[i] \in Instance
                 /\ Stopped(s)[i].stopped /\ ~Stopped(s)[i].timers
                 /\ Stopped(s)[i].v = s[i].v /\ Stopped(s)[i].effect = s[i].effect
                 /\ Stopped(s)[i].status = s[i].status /\ Stopped(s)[i].queued = s[i].queued
                 /\ Stopped(s)[i].queuedUp = s[i].queuedUp
<1>1. DOMAIN s = 1 .. Len(s) /\ Len(s) \in Nat /\ \A i \in 1 .. Len(s) : s[i] \in Instance  OBVIOUS
<1> DEFINE Off(i) == [s[i] EXCEPT !.stopped = TRUE, !.timers = FALSE]
<1>2. \A i \in 1 .. Len(s) :
          /\ Off(i) \in Instance
          /\ Off(i).stopped /\ ~Off(i).timers
          /\ Off(i).v = s[i].v /\ Off(i).effect = s[i].effect
          /\ Off(i).status = s[i].status /\ Off(i).queued = s[i].queued
          /\ Off(i).queuedUp = s[i].queuedUp
  BY <1>1 DEF Instance
<1>3. Stopped(s) = [i \in 1 .. Len(s) |-> Off(i)]
  BY <1>1 DEF Stopped
<1> HIDE DEF Off
<1>4. Stopped(s) \in [1 .. Len(s) -> Instance]  BY <1>2, <1>3
<1>5. Stopped(s) \in Seq(Instance) /\ Len(Stopped(s)) = Len(s)  BY <1>1, <1>4
<1> QED BY <1>1, <1>2, <1>3, <1>5

LEMMA InitTypes == Init => UiTypes
<1> SUFFICES ASSUME Init PROVE UiTypes
  OBVIOUS
<1>1. kind \in {"element", "hook", "call"}  BY UiAssumption DEF Init
<1>2. server \in [Ids -> Status] /\ clock \in Nat /\ host \in Host  BY DEF Init, Status, Host
<1>3. polls \in [Polls -> Request] /\ \A p \in Polls : polls[p] = NoPoll
  BY DEF Init, Request, NoPoll
<1>4. /\ insts \in Seq(Instance)
      /\ insts = <<>> \/ \E x \in Instance : insts = <<x>>
  <2>1. CASE kind = "element"  BY <2>1 DEF Init
  <2>2. CASE kind # "element"
    <3>1. PICK v \in Ids : insts = <<NewInstance(v, "pending")>>  BY <2>2 DEF Init
    <3>2. NewInstance(v, "pending") \in Instance
      <4>1. TimeIsUp \in BOOLEAN  BY DEF TimeIsUp
      <4> QED BY <4>1 DEF NewInstance, Instance, Status
    <3> QED BY <3>1, <3>2
  <2> QED BY <2>1, <2>2
<1>5. fired \in Seq(Seq(What)) /\ Len(fired) = Len(insts)
  <2>1. fired = [i \in DOMAIN insts |-> <<>>] /\ DOMAIN insts = 1 .. Len(insts) /\ Len(insts) \in Nat
    BY <1>4 DEF Init
  <2>2. <<>> \in Seq(What)  OBVIOUS
  <2>3. fired \in [1 .. Len(insts) -> Seq(What)]  BY <2>1, <2>2
  <2> QED BY <2>1, <2>3
<1> QED BY <1>1, <1>2, <1>3, <1>4, <1>5 DEF UiTypes

-----------------------------------------------------------------------------
(* What a step does to the instances                                       *)

\* The history of instance i grows by w; or stays, as those of the others do.
Says(i, w) == fired' = [fired EXCEPT ![i] = Append(fired[i], w)]

\* Instance i becomes x.
Becomes(i, x) == insts' = [insts EXCEPT ![i] = x]

LEMMA SaysIs ==
    ASSUME UiTypes, NEW i \in DOMAIN insts, NEW w \in What, Says(i, w)
    PROVE  /\ fired' \in Seq(Seq(What)) /\ Len(fired') = Len(fired)
           /\ fired'[i] = Append(fired[i], w)
           /\ \A j \in DOMAIN insts : j # i => fired'[j] = fired[j]
<1>1. DOMAIN insts = 1 .. Len(insts) /\ DOMAIN fired = 1 .. Len(insts) /\ Len(fired) = Len(insts)
      /\ fired \in Seq(Seq(What)) /\ Len(insts) \in Nat
  BY DEF UiTypes
<1>2. fired[i] \in Seq(What)  BY <1>1
<1>3. Append(fired[i], w) \in Seq(What)  BY <1>2
<1>4. fired' = [fired EXCEPT ![i] = Append(fired[i], w)]  BY DEF Says
<1> HIDE DEF Says
<1> QED BY <1>1, <1>3, <1>4

LEMMA BecomesIs ==
    ASSUME UiTypes, NEW i \in DOMAIN insts, NEW x \in Instance, Becomes(i, x)
    PROVE  /\ insts' \in Seq(Instance) /\ Len(insts') = Len(insts) /\ DOMAIN insts' = DOMAIN insts
           /\ insts'[i] = x
           /\ \A j \in DOMAIN insts : j # i => insts'[j] = insts[j]
<1>1. insts \in Seq(Instance) /\ insts' = [insts EXCEPT ![i] = x]  BY DEF UiTypes, Becomes
<1> QED BY <1>1

LEMMA InstanceIs ==
    ASSUME UiTypes, NEW i \in DOMAIN insts
    PROVE  insts[i] \in Instance /\ fired[i] \in Seq(What)
BY DEF UiTypes

LEMMA TransitionIs ==
    ASSUME UiTypes, NEW i \in DOMAIN insts, NEW s \in Status, Transition(i, s)
    PROVE  /\ \E x \in Instance :
                 /\ Becomes(i, x)
                 /\ x.v = insts[i].v /\ x.status = s /\ x.stopped = insts[i].stopped /\ x.effect = insts[i].effect
                 /\ x.timers => insts[i].timers /\ s = "pending"
           /\ \/ Says(i, s)
              \/ UNCHANGED fired
<1> DEFINE x == [insts[i] EXCEPT !.status = s, !.queued = s, !.timers = insts[i].timers /\ s = "pending"]
<1>1. insts[i] \in Instance  BY InstanceIs
<1>2. /\ x \in Instance
      /\ x.v = insts[i].v /\ x.status = s /\ x.stopped = insts[i].stopped /\ x.effect = insts[i].effect
      /\ x.timers => insts[i].timers /\ s = "pending"
  BY <1>1 DEF Instance
<1>3. insts \in Seq(Instance) /\
      insts' = [insts EXCEPT ![i].status = s, ![i].queued = s, ![i].timers = @ /\ s = "pending"]
  BY DEF Transition, UiTypes
<1>4. Becomes(i, x)  BY <1>3 DEF Becomes
<1>5. Says(i, s) \/ UNCHANGED fired  BY DEF Transition, Fire, Says
<1> HIDE DEF x
<1> QED BY <1>2, <1>4, <1>5

LEMMA SecondsIs ==
    ASSUME UiTypes, NEW i \in DOMAIN insts, SetSecondsLeft(i)
    PROVE  \E x \in Instance :
              /\ Becomes(i, x)
              /\ x.v = insts[i].v /\ x.status = insts[i].status /\ x.queued = insts[i].queued
              /\ x.stopped = insts[i].stopped /\ x.effect = insts[i].effect /\ x.timers = insts[i].timers
              /\ x.queuedUp => TimeIsUp
<1> DEFINE x == [insts[i] EXCEPT !.queuedUp = TimeIsUp]
<1>0. TimeIsUp \in BOOLEAN  BY DEF TimeIsUp
<1>1. insts[i] \in Instance  BY InstanceIs
<1>2. /\ x \in Instance
      /\ x.v = insts[i].v /\ x.status = insts[i].status /\ x.queued = insts[i].queued
      /\ x.stopped = insts[i].stopped /\ x.effect = insts[i].effect /\ x.timers = insts[i].timers
      /\ x.queuedUp => TimeIsUp
  BY <1>0, <1>1 DEF Instance
<1>3. insts \in Seq(Instance) /\ insts' = [insts EXCEPT ![i].queuedUp = TimeIsUp]
  BY DEF SetSecondsLeft, UiTypes
<1>4. Becomes(i, x)  BY <1>3 DEF Becomes
<1> HIDE DEF x
<1> QED BY <1>2, <1>4

LEMMA QueuedIs ==
    ASSUME UiTypes, NEW i \in DOMAIN insts, NEW s \in Status, insts' = [insts EXCEPT ![i].queued = s]
    PROVE  \E x \in Instance :
              /\ Becomes(i, x)
              /\ x.v = insts[i].v /\ x.status = insts[i].status /\ x.queued = s
              /\ x.stopped = insts[i].stopped /\ x.effect = insts[i].effect /\ x.timers = insts[i].timers
              /\ x.queuedUp = insts[i].queuedUp
<1> DEFINE x == [insts[i] EXCEPT !.queued = s]
<1>1. insts[i] \in Instance  BY InstanceIs
<1>2. /\ x \in Instance
      /\ x.v = insts[i].v /\ x.status = insts[i].status /\ x.queued = s
      /\ x.stopped = insts[i].stopped /\ x.effect = insts[i].effect /\ x.timers = insts[i].timers
      /\ x.queuedUp = insts[i].queuedUp
  BY <1>1 DEF Instance
<1>3. Becomes(i, x)  BY DEF Becomes, UiTypes
<1> HIDE DEF x
<1> QED BY <1>2, <1>3

LEMMA CommitIs ==
    ASSUME UiTypes, NEW i \in DOMAIN insts, Commit(i)
    PROVE  /\ \E x \in Instance :
                 /\ Becomes(i, x)
                 /\ x.v = insts[i].v /\ x.status = insts[i].queued
                 /\ x.queued = insts[i].queued \/ (x.queued = "expired" /\ insts[i].queued = "pending" /\ insts[i].queuedUp)
                 /\ x.stopped = insts[i].stopped /\ x.queuedUp = insts[i].queuedUp
                 /\ x.timers = (insts[i].queued = "pending")
                 /\ x.effect = IF insts[i].queued = insts[i].status THEN insts[i].effect ELSE insts[i].effect + 1
           /\ \/ Says(i, insts[i].queued) /\ insts[i].status = "pending"
              \/ UNCHANGED fired
<1> DEFINE s == insts[i].queued
           e == IF s = insts[i].status THEN insts[i].effect ELSE insts[i].effect + 1
           q == IF s = "pending" /\ insts[i].queuedUp THEN "expired" ELSE s
           x == [insts[i] EXCEPT !.status = s, !.up = insts[i].queuedUp, !.timers = s = "pending",
                                 !.effect = e, !.queued = q]
<1>1. insts[i] \in Instance  BY InstanceIs
<1>2. s \in Status /\ e \in Nat /\ q \in Status /\ insts[i].queuedUp \in BOOLEAN  BY <1>1 DEF Instance, Status, Terminal
<1>3. insts \in Seq(Instance) /\ Becomes(i, x)  BY DEF Becomes, Commit, UiTypes
<1>4. (Says(i, s) /\ insts[i].status = "pending") \/ UNCHANGED fired  BY DEF Commit, Fire, Says
<1> HIDE DEF e, q
<1>5. /\ x \in Instance
      /\ x.v = insts[i].v /\ x.status = s /\ x.queued = q /\ x.stopped = insts[i].stopped
      /\ x.queuedUp = insts[i].queuedUp /\ x.timers = (s = "pending") /\ x.effect = e
  BY <1>1, <1>2 DEF Instance
<1> HIDE DEF x
<1> QED BY <1>3, <1>4, <1>5 DEF e, q

LEMMA ReturnIs ==
    ASSUME UiTypes, NEW i \in DOMAIN insts, NEW what \in What, Return(i, what)
    PROVE  /\ Says(i, what)
           /\ insts' \in Seq(Instance) /\ Len(insts') = Len(insts) /\ DOMAIN insts' = DOMAIN insts
           /\ \A j \in DOMAIN insts :
                 /\ insts'[j].v = insts[j].v /\ insts'[j].stopped /\ ~insts'[j].timers
                 /\ insts'[j].effect = insts[j].effect
                 /\ j # i => insts'[j].status = insts[j].status
<1> DEFINE t == Stopped(insts)
           y == IF what \in Status THEN what ELSE t[i].status
           x == [t[i] EXCEPT !.status = y]
<1>1. insts \in Seq(Instance)  BY DEF UiTypes
<1>2. /\ t \in Seq(Instance) /\ Len(t) = Len(insts) /\ DOMAIN t = DOMAIN insts
      /\ \A j \in DOMAIN insts : t[j] \in Instance
  BY <1>1, StoppedIs
<1>3. \A j \in DOMAIN insts : /\ t[j].v = insts[j].v /\ t[j].stopped /\ ~t[j].timers
                              /\ t[j].effect = insts[j].effect /\ t[j].status = insts[j].status
  BY <1>1, StoppedIs
<1> HIDE DEF t
<1>4. y \in Status  BY <1>2 DEF Instance
<1>5. insts' = [t EXCEPT ![i] = x]  BY <1>2 DEF Return, t
<1> HIDE DEF y
<1>6. /\ x \in Instance /\ x.v = t[i].v /\ x.stopped = t[i].stopped /\ x.timers = t[i].timers
      /\ x.effect = t[i].effect
  BY <1>2, <1>4 DEF Instance
<1> HIDE DEF x
<1>7. /\ insts' \in Seq(Instance) /\ Len(insts') = Len(t) /\ DOMAIN insts' = DOMAIN t
      /\ insts'[i] = x /\ \A j \in DOMAIN insts : j # i => insts'[j] = t[j]
  BY <1>2, <1>5, <1>6
<1>8. Says(i, what)  BY DEF Return, Fire, Says
<1> QED BY <1>2, <1>3, <1>6, <1>7, <1>8

\* Every instance there is is stopped; at most one is made, which has fired nothing.
Stops ==
    /\ insts' \in Seq(Instance) /\ fired' \in Seq(Seq(What)) /\ Len(fired') = Len(insts')
    /\ DOMAIN insts \subseteq DOMAIN insts'
    /\ \A j \in DOMAIN insts : insts'[j] = Stopped(insts)[j] /\ fired'[j] = fired[j]
    /\ \A j \in DOMAIN insts' \ DOMAIN insts :
          /\ kind = "element"
          /\ fired'[j] = <<>> /\ ~insts'[j].stopped
          /\ insts'[j].timers => insts'[j].status = "pending"

LEMMA StopsIs ==
    ASSUME UiTypes, insts' = Stopped(insts), UNCHANGED fired
    PROVE  Stops
<1>1. insts \in Seq(Instance)  BY DEF UiTypes
<1> QED BY <1>1, StoppedIs DEF Stops, UiTypes

LEMMA RestartIs ==
    ASSUME UiTypes, kind = "element", NEW v \in Ids \cup {None}, Restart(v)
    PROVE  Stops
<1>1. CASE v = None  BY <1>1, StopsIs DEF Restart
<1>2. CASE v # None
  <2>1. v \in Ids /\ server[v] \in Status  BY <1>2 DEF UiTypes
  <2>2. PICK s \in {"pending", server[v]} : insts' = Append(Stopped(insts), NewInstance(v, s))
    BY <1>2 DEF Restart
  <2>3. s \in Status /\ fired' = Append(fired, <<>>)  BY <1>2, <2>1, <2>2 DEF Restart, Status
  <2>4. PICK x \in Instance : /\ x = NewInstance(v, s) /\ ~x.stopped
                              /\ x.timers => x.status = "pending"
    BY <2>1, <2>3, NewInstanceIs
  <2>5. PICK t \in Seq(Instance) : t = Stopped(insts) /\ Len(t) = Len(insts) /\ DOMAIN t = DOMAIN insts
    BY StoppedIs DEF UiTypes
  <2>6. insts \in Seq(Instance) /\ fired \in Seq(Seq(What)) /\ Len(fired) = Len(insts)  BY DEF UiTypes
  <2>7. insts' = Append(t, x)  BY <2>2, <2>4, <2>5
  <2>8. /\ insts' \in Seq(Instance) /\ Len(insts') = Len(insts) + 1
        /\ \A j \in DOMAIN insts : insts'[j] = t[j]
        /\ insts'[Len(insts) + 1] = x
    BY <2>5, <2>6, <2>7
  <2>9. /\ fired' \in Seq(Seq(What)) /\ Len(fired') = Len(insts) + 1
        /\ \A j \in DOMAIN insts : fired'[j] = fired[j]
        /\ fired'[Len(insts) + 1] = <<>>
    <3>1. <<>> \in Seq(What)  OBVIOUS
    <3> QED BY <2>3, <2>6, <3>1
  <2>10. /\ DOMAIN insts = 1 .. Len(insts) /\ DOMAIN insts' = 1 .. (Len(insts) + 1) /\ Len(insts) \in Nat
    BY <2>6, <2>8
  <2>11. \A j \in DOMAIN insts' \ DOMAIN insts : j = Len(insts) + 1  BY <2>10
  <2> QED BY <2>4, <2>5, <2>8, <2>9, <2>10, <2>11 DEF Stops
<1> QED BY <1>1, <1>2

-----------------------------------------------------------------------------
(* The invariant                                                           *)

\* w may be said of verification v.
Holds(v, w) ==
    /\ w \in {"verified", "cancelled"} => server[v] = w
    /\ w = "expired" => server[v] = "expired" \/ (clock > ExpiresAt - Second /\ kind # "call")

\* The timers run while the verification is shown as pending and nobody has
\* stopped; what a hook has queued and what was said is true.
InstInv(i) ==
    /\ insts[i].timers => insts[i].status = "pending" /\ ~insts[i].stopped
    /\ kind = "hook" =>
          /\ insts[i].status # "pending" => insts[i].queued = insts[i].status
          /\ Holds(insts[i].v, insts[i].queued)
          /\ insts[i].queuedUp => clock > ExpiresAt - Second
    /\ kind = "call" /\ insts[i].status # "pending" => insts[i].stopped
    /\ \A k \in DOMAIN fired[i] : Holds(insts[i].v, fired[i][k])

\* An answer is what the row was, and a row that has settled stays; the effect
\* that asked for the answer is gone once a hook has shown a settled status.
PollInv(p) ==
    polls[p] # NoPoll =>
        LET x == insts[polls[p].inst]
        IN  /\ polls[p].answer \in Terminal => server[x.v] = polls[p].answer
            /\ polls[p].effect <= x.effect
            /\ kind = "hook" /\ x.status # "pending" => polls[p].effect < x.effect
            /\ kind = "call" => ~x.stopped

OneAtATime ==
    kind = "call" => \A p, q \in Polls : polls[p] # NoPoll /\ polls[q] # NoPoll => p = q

UiInv ==
    /\ UiTypes
    /\ \A i \in DOMAIN insts : InstInv(i)
    /\ \A p \in Polls : PollInv(p)
    /\ OneAtATime

LEMMA LastSecond ==
    ASSUME NEW a \in Int, NEW b \in Int, 0 < b, a \div b <= 0
    PROVE  a < b
<1>1. a \div b \in Int /\ a < b * (a \div b) + b  BY SMTT(20)
<1>2. ASSUME NEW q \in Int, q <= 0, a < b * q + b PROVE a < b  BY <1>2, SMTT(20)
<1> QED BY <1>1, <1>2

\* computeSecondsLeft rounds down: it is 0 less than a second before the end.
LEMMA UpIsLate == clock \in Nat /\ TimeIsUp => clock > ExpiresAt - Second
<1> SUFFICES ASSUME clock \in Nat, TimeIsUp PROVE clock > ExpiresAt - Second
  OBVIOUS
<1>1. ExpiresAt - clock \in Int /\ Second \in Int /\ 0 < Second /\ ExpiresAt \in Int  BY UiAssumption
<1>2. ExpiresAt - clock < Second  BY <1>1, LastSecond DEF TimeIsUp
<1> QED BY <1>1, <1>2

\* The rows settle once, the clock runs on: what was true stays true.
LEMMA HoldsOn ==
    ASSUME UiTypes, [Next]_vars
    PROVE  /\ kind' = kind /\ clock' \in Nat /\ clock' >= clock
           /\ server' \in [Ids -> Status]
           /\ \A v \in Ids : server[v] \in Terminal => server'[v] = server[v]
           /\ \A v \in Ids : \A w : Holds(v, w) => Holds(v, w)'
<1>1. kind' = kind
  BY DEF Next, vars, Settle, Tick, Timers, Poll, CountdownTick, SetSecondsLeft, Commit, Unmount, CallEnds, Handle,
         Answer, PollAnswered, SetVerificationState, CallAnswered, Connect, Disconnect, SetVerification
<1>2. clock' = clock \/ clock' = clock + 1
  BY DEF Next, vars, Settle, Tick, Timers, Poll, CountdownTick, SetSecondsLeft, Commit, Unmount, CallEnds, Handle,
         Answer, PollAnswered, SetVerificationState, CallAnswered, Connect, Disconnect, SetVerification
<1>3. server' = server \/ \E v \in Ids : Settle(v)
  BY DEF Next, vars, Tick, Timers, Poll, CountdownTick, SetSecondsLeft, Commit, Unmount, CallEnds, Handle,
         Answer, PollAnswered, SetVerificationState, CallAnswered, Connect, Disconnect, SetVerification
<1>4. server \in [Ids -> Status] /\ clock \in Nat  BY DEF UiTypes
<1>5. clock' \in Nat /\ clock' >= clock  BY <1>2, <1>4
<1>6. /\ server' \in [Ids -> Status]
      /\ \A v \in Ids : server[v] \in Terminal => server'[v] = server[v]
  BY <1>3, <1>4 DEF Settle, Status, Terminal
<1>7. ExpiresAt - Second \in Int  BY UiAssumption
<1>8. clock > ExpiresAt - Second => clock' > ExpiresAt - Second  BY <1>4, <1>5, <1>7
<1>9. \A v \in Ids : \A w : Holds(v, w) => Holds(v, w)'  BY <1>1, <1>6, <1>8 DEF Holds, Terminal
<1> QED BY <1>1, <1>5, <1>6, <1>9

-----------------------------------------------------------------------------
(* The steps, as far as the instances can tell them apart                  *)

\* A controller leaves a status.
Transits(i, s) ==
    /\ kind = "element" /\ ~insts[i].stopped /\ Transition(i, s) /\ Holds(insts[i].v, s)

\* A poll has failed, and onError is told.
Fails(i) ==
    /\ kind = "element" \/ (kind = "hook" /\ insts[i].status = "pending")
    /\ ~insts[i].stopped /\ Says(i, "error") /\ UNCHANGED insts

\* The answer of a poll is queued by the hook.
Queues(i, s) ==
    /\ kind = "hook" /\ insts[i].status = "pending" /\ Holds(insts[i].v, s)
    /\ insts' = [insts EXCEPT ![i].queued = s] /\ UNCHANGED fired

Seconds(i) == SetSecondsLeft(i) /\ UNCHANGED fired

\* A call ends, with a true status or with an error.
Returns(i, what) ==
    /\ kind = "call" /\ ~insts[i].stopped /\ Return(i, what) /\ Holds(insts[i].v, what)
    /\ \A p \in Polls : polls'[p] = NoPoll

StepOf(i) ==
    \/ \E s \in Status : Transits(i, s) \/ Queues(i, s)
    \/ Fails(i) \/ Seconds(i) \/ Commit(i)
    \/ \E what \in What : Returns(i, what)

UiEffect ==
    \/ UNCHANGED <<insts, fired>>
    \/ \E i \in DOMAIN insts : StepOf(i)
    \/ Stops /\ kind # "call"

\* What a poll was answered may be said of its verification.
LEMMA AnswerHolds ==
    ASSUME UiInv, NEW p \in Polls, polls[p].answer # None
    PROVE  /\ polls[p] # NoPoll /\ polls[p].inst \in DOMAIN insts
           /\ polls[p].answer \in Status \cup {"error"}
           /\ Holds(insts[polls[p].inst].v, polls[p].answer)
<1>1. polls[p] # NoPoll  BY DEF NoPoll
<1>2. polls[p].inst \in DOMAIN insts /\ polls[p].answer \in Status \cup {"error"}
  BY <1>1 DEF UiInv, UiTypes, Request
<1>3. Holds(insts[polls[p].inst].v, polls[p].answer)  BY <1>1 DEF UiInv, PollInv, Holds, Terminal
<1> QED BY <1>1, <1>2, <1>3

LEMMA UiEffects ==
    ASSUME UiInv, [Next]_vars
    PROVE  UiEffect
<1>0. UiTypes  BY DEF UiInv
<1>1. ASSUME NEW i \in DOMAIN insts, StepOf(i) PROVE UiEffect  BY <1>1 DEF UiEffect
<1>2. ASSUME UNCHANGED <<insts, fired>> PROVE UiEffect  BY <1>2 DEF UiEffect
<1>3. ASSUME NEW i \in DOMAIN insts, CountdownTick(i) PROVE UiEffect
  <2>1. kind = "element" /\ insts[i].timers /\ TimeIsUp /\ Transition(i, "expired")  BY <1>3 DEF CountdownTick
  <2>2. ~insts[i].stopped  BY <2>1 DEF UiInv, InstInv
  <2>3. Holds(insts[i].v, "expired")  BY <1>0, <2>1, UpIsLate DEF Holds, UiTypes
  <2>4. "expired" \in Status  BY DEF Status, Terminal
  <2> QED BY <1>1, <2>1, <2>2, <2>3, <2>4 DEF StepOf, Transits
<1>4. ASSUME NEW i \in DOMAIN insts, SetSecondsLeft(i) PROVE UiEffect
  BY <1>1, <1>4 DEF StepOf, Seconds, SetSecondsLeft
<1>5. ASSUME NEW i \in DOMAIN insts, Commit(i) PROVE UiEffect  BY <1>1, <1>5 DEF StepOf
<1>6. ASSUME NEW i \in DOMAIN insts, Unmount(i) PROVE UiEffect
  BY <1>0, <1>6, StopsIs DEF Unmount, UiEffect
<1>7. ASSUME NEW i \in DOMAIN insts, NEW what \in {"timeout", "aborted"}, CallEnds(i, what) PROVE UiEffect
  <2>1. what \in What /\ Holds(insts[i].v, what)  BY DEF What, Holds
  <2>2. Returns(i, what)  BY <1>7, <2>1 DEF CallEnds, Returns
  <2> QED BY <1>1, <2>1, <2>2 DEF StepOf
<1>8. ASSUME NEW p \in Polls, PollAnswered(p) PROVE UiEffect
  <2>0. PICK i, answer : i = polls[p].inst /\ answer = polls[p].answer  OBVIOUS
  <2>1. /\ i \in DOMAIN insts /\ answer \in Status \cup {"error"} /\ Holds(insts[i].v, answer)
        /\ kind = "element"
    BY <1>8, <2>0, AnswerHolds DEF PollAnswered
  <2>2. CASE UNCHANGED <<insts, fired>>  BY <1>2, <2>2
  <2>3. CASE ~UNCHANGED <<insts, fired>>
    <3>1. ~insts[i].stopped  BY <1>8, <2>0, <2>3 DEF PollAnswered, Dropped
    <3>2. \/ answer = "error" /\ Fire(i, "error") /\ UNCHANGED insts
          \/ answer # "error" /\ Transition(i, answer)
      BY <1>8, <2>0, <2>3 DEF PollAnswered
    <3>3. CASE answer = "error"  BY <1>1, <2>1, <3>1, <3>2, <3>3 DEF StepOf, Fails, Fire, Says
    <3>4. CASE answer # "error"  BY <1>1, <2>1, <3>1, <3>2, <3>4 DEF StepOf, Transits
    <3> QED BY <3>3, <3>4
  <2> QED BY <2>2, <2>3
<1>9. ASSUME NEW p \in Polls, SetVerificationState(p) PROVE UiEffect
  <2>0. PICK i, answer : i = polls[p].inst /\ answer = polls[p].answer  OBVIOUS
  <2>1. /\ i \in DOMAIN insts /\ answer \in Status \cup {"error"} /\ Holds(insts[i].v, answer)
        /\ kind = "hook" /\ polls[p] # NoPoll
    BY <1>9, <2>0, AnswerHolds DEF SetVerificationState
  <2>2. CASE Dropped(i, polls[p])  BY <1>2, <1>9, <2>0, <2>2 DEF SetVerificationState
  <2>3. CASE ~Dropped(i, polls[p])
    <3>1. ~insts[i].stopped /\ polls[p].effect = insts[i].effect  BY <2>1, <2>3 DEF Dropped
    <3>2. insts[i].status = "pending"
      <4>1. insts[i].effect \in Nat  BY <1>0, <2>1, InstanceIs DEF Instance
      <4>2. insts[i].status # "pending" => polls[p].effect < insts[i].effect
        BY <2>0, <2>1 DEF UiInv, PollInv
      <4> QED BY <3>1, <4>1, <4>2
    <3>3. \/ answer = "error" /\ Fire(i, "error") /\ UNCHANGED insts
          \/ answer # "error" /\ insts' = [insts EXCEPT ![i].queued = answer] /\ UNCHANGED fired
      BY <1>9, <2>0, <2>3 DEF SetVerificationState
    <3>4. CASE answer = "error"  BY <1>1, <2>1, <3>1, <3>2, <3>3, <3>4 DEF StepOf, Fails, Fire, Says
    <3>5. CASE answer # "error"  BY <1>1, <2>1, <3>1, <3>2, <3>3, <3>5 DEF StepOf, Queues
    <3> QED BY <3>4, <3>5
  <2> QED BY <2>2, <2>3
<1>10. ASSUME NEW p \in Polls, CallAnswered(p) PROVE UiEffect
  <2>0. PICK i, answer : i = polls[p].inst /\ answer = polls[p].answer  OBVIOUS
  <2>1. /\ i \in DOMAIN insts /\ answer \in Status \cup {"error"} /\ Holds(insts[i].v, answer)
        /\ kind = "call" /\ polls[p] # NoPoll
    BY <1>10, <2>0, AnswerHolds DEF CallAnswered
  <2>2. CASE answer = "pending"  BY <1>2, <1>10, <2>0, <2>2 DEF CallAnswered
  <2>3. CASE answer # "pending"
    <3>1. ~insts[i].stopped  BY <2>0, <2>1 DEF UiInv, PollInv
    <3>2. Return(i, answer) /\ polls' = [polls EXCEPT ![p] = NoPoll]  BY <1>10, <2>0, <2>3 DEF CallAnswered
    <3>3. \A q \in Polls : polls'[q] = NoPoll
      BY <1>0, <2>1, <3>2 DEF UiInv, OneAtATime, UiTypes
    <3>4. answer \in What  BY <2>1 DEF What
    <3> QED BY <1>1, <2>1, <3>1, <3>2, <3>3, <3>4 DEF StepOf, Returns
  <2> QED BY <2>2, <2>3
<1>11. ASSUME Connect PROVE UiEffect
  <2>1. host.verification \in Ids \cup {None} /\ kind = "element" /\ Restart(host.verification)
    BY <1>0, <1>11 DEF Connect, UiTypes, Host
  <2> QED BY <1>0, <2>1, RestartIs DEF UiEffect
<1>12. ASSUME Disconnect PROVE UiEffect  BY <1>0, <1>12, StopsIs DEF Disconnect, UiEffect
<1>13. ASSUME NEW v \in Ids \cup {None}, SetVerification(v) PROVE UiEffect
  BY <1>0, <1>2, <1>13, RestartIs DEF SetVerification, UiEffect
<1> QED
  BY <1>2, <1>3, <1>4, <1>5, <1>6, <1>7, <1>8, <1>9, <1>10, <1>11, <1>12, <1>13
  DEF Next, vars, Settle, Tick, Timers, Poll, Handle, Answer

\* What a step never does to an instance there is.
Keeps(i) ==
    /\ insts'[i].v = insts[i].v
    /\ insts'[i].effect >= insts[i].effect
    /\ insts[i].stopped => insts'[i].stopped /\ fired'[i] = fired[i]
    /\ kind # "element" /\ insts[i].status # "pending" =>
          insts'[i].status = insts[i].status /\ fired'[i] = fired[i]
    /\ kind = "hook" /\ insts[i].status = "pending" /\ insts'[i].status # "pending" =>
          insts'[i].effect > insts[i].effect
    /\ kind = "call" => insts'[i].stopped = insts[i].stopped \/ \A p \in Polls : polls'[p] = NoPoll

InstancesRight ==
    /\ insts' \in Seq(Instance) /\ fired' \in Seq(Seq(What)) /\ Len(fired') = Len(insts')
    /\ DOMAIN insts \subseteq DOMAIN insts'
    /\ \A i \in DOMAIN insts : Keeps(i)
    /\ \A i \in DOMAIN insts' : InstInv(i)'

\* What was said of an instance is true, and so is what a step adds.
LEMMA SaidHolds ==
    ASSUME UiInv, [Next]_vars, NEW i \in DOMAIN insts, insts'[i].v = insts[i].v,
           \/ fired'[i] = fired[i]
           \/ \E w : fired'[i] = Append(fired[i], w) /\ Holds(insts[i].v, w)
    PROVE  (\A k \in DOMAIN fired[i] : Holds(insts[i].v, fired[i][k]))'
<1>0. UiTypes /\ InstInv(i)  BY DEF UiInv
<1>1. PICK v \in Ids : v = insts[i].v  BY <1>0, InstanceIs DEF Instance
<1>2. fired[i] \in Seq(What)  BY <1>0, InstanceIs
<1>3. \A w : Holds(v, w) => Holds(v, w)'  BY <1>0, HoldsOn
<1>4. ASSUME NEW k \in DOMAIN fired'[i] PROVE \E w : w = fired'[i][k] /\ Holds(v, w)
  <2>1. CASE fired'[i] = fired[i]  BY <1>0, <1>1, <1>4, <2>1 DEF InstInv
  <2>2. ASSUME NEW w, fired'[i] = Append(fired[i], w), Holds(insts[i].v, w)
        PROVE  \E u : u = fired'[i][k] /\ Holds(v, u)
    <3>1. k \in 1 .. Len(fired[i]) + 1  BY <1>2, <1>4, <2>2
    <3>2. CASE k = Len(fired[i]) + 1
      <4>1. fired'[i][k] = w  BY <1>2, <2>2, <3>2
      <4> QED BY <1>1, <2>2, <4>1
    <3>3. CASE k \in 1 .. Len(fired[i])
      <4>1. fired'[i][k] = fired[i][k] /\ k \in DOMAIN fired[i]  BY <1>2, <2>2, <3>3
      <4> QED BY <1>0, <1>1, <4>1 DEF InstInv
    <3> QED BY <1>2, <3>1, <3>2, <3>3
  <2> QED BY <2>1, <2>2
<1>5. ASSUME NEW k \in DOMAIN fired'[i] PROVE Holds(insts[i].v, fired[i][k])'
  <2>1. PICK w : w = fired'[i][k] /\ Holds(v, w)  BY <1>4, <1>5
  <2>2. Holds(v, w)'  BY <1>3, <2>1
  <2> QED BY <1>1, <2>1, <2>2 DEF Holds
<1> QED BY <1>5

\* An instance that a step leaves alone, or stops.
LEMMA Untouched ==
    ASSUME UiInv, [Next]_vars, NEW i \in DOMAIN insts, fired'[i] = fired[i],
           insts'[i] = insts[i] \/ (kind # "call" /\ insts'[i] = Stopped(insts)[i])
    PROVE  Keeps(i) /\ InstInv(i)'
<1>0. UiTypes /\ InstInv(i) /\ insts[i] \in Instance /\ insts \in Seq(Instance)
  BY InstanceIs DEF UiInv, UiTypes
<1>1. /\ insts'[i].v = insts[i].v /\ insts'[i].status = insts[i].status /\ insts'[i].queued = insts[i].queued
      /\ insts'[i].effect = insts[i].effect /\ insts'[i].queuedUp = insts[i].queuedUp
      /\ insts[i].stopped => insts'[i].stopped
      /\ insts'[i].timers => insts[i].timers /\ ~insts'[i].stopped
      /\ insts'[i].stopped = insts[i].stopped \/ kind # "call"
  <2>1. CASE insts'[i] = insts[i]  BY <1>0, <2>1 DEF InstInv
  <2>2. CASE kind # "call" /\ insts'[i] = Stopped(insts)[i]  BY <1>0, <2>2, StoppedIs
  <2> QED BY <2>1, <2>2
<1>2. Keeps(i)
  <2>1. insts[i].effect \in Nat  BY <1>0 DEF Instance
  <2> QED BY <1>1, <2>1 DEF Keeps
<1>3. (\E v \in Ids : v = insts[i].v) /\ (\E w : w = insts[i].queued)  BY <1>0 DEF Instance
<1> PICK v \in Ids : v = insts[i].v  BY <1>3
<1> PICK w : w = insts[i].queued  BY <1>3
<1>4. Holds(v, w) => Holds(v, w)'  BY <1>0, HoldsOn
<1>5. /\ clock > ExpiresAt - Second => clock' > ExpiresAt - Second
      /\ kind' = kind
  <2>1. clock \in Nat /\ clock' \in Nat /\ clock' >= clock /\ kind' = kind  BY <1>0, HoldsOn DEF UiTypes
  <2>2. ExpiresAt - Second \in Int  BY UiAssumption
  <2> QED BY <2>1, <2>2
<1>6. (\A k \in DOMAIN fired[i] : Holds(insts[i].v, fired[i][k]))'  BY <1>1, SaidHolds
<1>7. kind = "hook" => Holds(v, w)'  BY <1>0, <1>3, <1>4 DEF InstInv
<1> QED BY <1>0, <1>1, <1>2, <1>3, <1>5, <1>6, <1>7 DEF InstInv, Holds

\* One instance changes, the others stay.
LEMMA OneTouched ==
    ASSUME UiInv, [Next]_vars, NEW i \in DOMAIN insts,
           insts' = insts \/ (\E x \in Instance : Becomes(i, x)),
           fired' = fired \/ (\E w \in What : Says(i, w)),
           Keeps(i) /\ InstInv(i)'
    PROVE  InstancesRight
<1>0. UiTypes /\ insts \in Seq(Instance) /\ fired \in Seq(Seq(What)) /\ Len(fired) = Len(insts)
  BY DEF UiInv, UiTypes
<1>1. /\ insts' \in Seq(Instance) /\ Len(insts') = Len(insts) /\ DOMAIN insts' = DOMAIN insts
      /\ \A j \in DOMAIN insts : j # i => insts'[j] = insts[j]
  BY <1>0, BecomesIs
<1>2. /\ fired' \in Seq(Seq(What)) /\ Len(fired') = Len(fired)
      /\ \A j \in DOMAIN insts : j # i => fired'[j] = fired[j]
  BY <1>0, SaysIs
<1>3. ASSUME NEW j \in DOMAIN insts, j # i PROVE Keeps(j) /\ InstInv(j)'  BY <1>1, <1>2, <1>3, Untouched
<1> QED BY <1>0, <1>1, <1>2, <1>3 DEF InstancesRight

LEMMA HookFacts ==
    ASSUME UiInv, [Next]_vars
    PROVE  /\ kind' = kind
           /\ clock > ExpiresAt - Second => clock' > ExpiresAt - Second
<1>1. clock \in Nat /\ clock' \in Nat /\ clock' >= clock /\ kind' = kind  BY HoldsOn DEF UiInv, UiTypes
<1>2. ExpiresAt - Second \in Int  BY UiAssumption
<1> QED BY <1>1, <1>2

LEMMA TouchedStep ==
    ASSUME UiInv, [Next]_vars, NEW i \in DOMAIN insts, StepOf(i)
    PROVE  InstancesRight
<1>0. UiTypes /\ InstInv(i) /\ insts[i] \in Instance /\ fired[i] \in Seq(What)
      /\ insts \in Seq(Instance) /\ insts[i].effect \in Nat /\ insts[i].queued \in Status /\ insts[i].status \in Status
  BY InstanceIs DEF UiInv, UiTypes, Instance
<1>1. PICK v \in Ids : v = insts[i].v  BY <1>0 DEF Instance
<1>2. \A w : Holds(v, w) => Holds(v, w)'  BY <1>0, HoldsOn
<1>3. kind' = kind /\ (clock > ExpiresAt - Second => clock' > ExpiresAt - Second)  BY HookFacts
<1>4. Status \subseteq What  BY DEF What
<1>5. ASSUME NEW s \in Status, Transits(i, s) PROVE InstancesRight
  <2>1. kind = "element" /\ ~insts[i].stopped /\ Transition(i, s) /\ Holds(insts[i].v, s)  BY <1>5 DEF Transits
  <2>2. PICK x \in Instance :
                 /\ Becomes(i, x)
                 /\ x.v = insts[i].v /\ x.status = s /\ x.stopped = insts[i].stopped /\ x.effect = insts[i].effect
                 /\ x.timers => insts[i].timers /\ s = "pending"
    BY <1>0, <2>1, TransitionIs
  <2>3. insts'[i] = x  BY <1>0, <2>2, BecomesIs
  <2>4. Says(i, s) \/ fired' = fired  BY <1>0, <2>1, TransitionIs
  <2>5. fired'[i] = fired[i] \/ fired'[i] = Append(fired[i], s)  BY <1>0, <1>4, <2>4, SaysIs
  <2>6. (\A k \in DOMAIN fired[i] : Holds(insts[i].v, fired[i][k]))'  BY <2>1, <2>2, <2>3, <2>5, SaidHolds
  <2>7. Keeps(i)  BY <1>0, <2>1, <2>2, <2>3 DEF Keeps
  <2>8. InstInv(i)'  BY <1>3, <2>1, <2>2, <2>3, <2>6 DEF InstInv
  <2> QED BY <1>4, <2>2, <2>4, <2>7, <2>8, OneTouched
<1>6. ASSUME NEW s \in Status, Queues(i, s) PROVE InstancesRight
  <2>1. /\ kind = "hook" /\ insts[i].status = "pending" /\ Holds(insts[i].v, s)
        /\ insts' = [insts EXCEPT ![i].queued = s] /\ fired' = fired
    BY <1>6 DEF Queues
  <2>2. PICK x \in Instance :
              /\ Becomes(i, x)
              /\ x.v = insts[i].v /\ x.status = insts[i].status /\ x.queued = s
              /\ x.stopped = insts[i].stopped /\ x.effect = insts[i].effect /\ x.timers = insts[i].timers
              /\ x.queuedUp = insts[i].queuedUp
    BY <1>0, <2>1, QueuedIs
  <2>3. insts'[i] = x  BY <1>0, <2>2, BecomesIs
  <2>4. (\A k \in DOMAIN fired[i] : Holds(insts[i].v, fired[i][k]))'  BY <2>1, <2>2, <2>3, SaidHolds
  <2>5. Keeps(i)
    <3>1. insts'[i].v = insts[i].v /\ insts'[i].effect = insts[i].effect /\ insts'[i].status = "pending"
          /\ insts'[i].stopped = insts[i].stopped
      BY <2>1, <2>2, <2>3
    <3> QED BY <1>0, <2>1, <3>1 DEF Keeps
  <2>6. Holds(v, s)'  BY <1>1, <1>2, <2>1
  <2>7. InstInv(i)'
    <3>1. /\ insts'[i].v = v /\ insts'[i].queued = s /\ insts'[i].status = "pending"
          /\ insts'[i].timers => ~insts'[i].stopped
          /\ insts'[i].queuedUp => clock' > ExpiresAt - Second
      BY <1>0, <1>1, <1>3, <2>1, <2>2, <2>3 DEF InstInv
    <3>2. Holds(insts[i].v, insts[i].queued)'  BY <2>6, <3>1 DEF Holds
    <3> QED BY <1>3, <2>1, <2>4, <3>1, <3>2 DEF InstInv
  <2> QED BY <2>1, <2>2, <2>5, <2>7, OneTouched
<1>7. ASSUME Fails(i) PROVE InstancesRight
  <2>1. /\ kind = "element" \/ (kind = "hook" /\ insts[i].status = "pending")
        /\ ~insts[i].stopped /\ Says(i, "error") /\ insts' = insts
    BY <1>7 DEF Fails
  <2>2. "error" \in What  BY DEF What
  <2>3. fired'[i] = Append(fired[i], "error")  BY <1>0, <2>1, <2>2, SaysIs
  <2>4. Holds(insts[i].v, "error")  BY DEF Holds
  <2>5. (\A k \in DOMAIN fired[i] : Holds(insts[i].v, fired[i][k]))'  BY <2>1, <2>3, <2>4, SaidHolds
  <2>6. PICK w : w = insts[i].queued  OBVIOUS
  <2>7. kind = "hook" => Holds(v, w)'  BY <1>0, <1>1, <1>2, <2>6 DEF InstInv
  <2>8. InstInv(i)'  BY <1>0, <1>1, <1>3, <2>1, <2>5, <2>6, <2>7 DEF InstInv, Holds
  <2>9. Keeps(i)  BY <1>0, <2>1 DEF Keeps
  <2> QED BY <2>1, <2>2, <2>8, <2>9, OneTouched
<1>8. ASSUME Seconds(i) PROVE InstancesRight
  <2>1. SetSecondsLeft(i) /\ fired' = fired /\ kind = "hook" /\ insts[i].timers
    BY <1>8 DEF Seconds, SetSecondsLeft
  <2>2. PICK x \in Instance :
              /\ Becomes(i, x)
              /\ x.v = insts[i].v /\ x.status = insts[i].status /\ x.queued = insts[i].queued
              /\ x.stopped = insts[i].stopped /\ x.effect = insts[i].effect /\ x.timers = insts[i].timers
              /\ x.queuedUp => TimeIsUp
    BY <1>0, <2>1, SecondsIs
  <2>3. insts'[i] = x  BY <1>0, <2>2, BecomesIs
  <2>4. (\A k \in DOMAIN fired[i] : Holds(insts[i].v, fired[i][k]))'  BY <2>1, <2>2, <2>3, SaidHolds
  <2>5. Keeps(i)  BY <1>0, <2>1, <2>2, <2>3 DEF Keeps
  <2>6. PICK w : w = insts[i].queued  OBVIOUS
  <2>7. Holds(v, w)'  BY <1>0, <1>1, <1>2, <2>1, <2>6 DEF InstInv
  <2>8. x.queuedUp => clock' > ExpiresAt - Second  BY <1>0, <1>3, <2>2, UpIsLate DEF UiTypes
  <2>9. InstInv(i)'
    BY <1>0, <1>1, <1>3, <2>1, <2>2, <2>3, <2>4, <2>6, <2>7, <2>8 DEF InstInv, Holds
  <2> QED BY <2>1, <2>2, <2>5, <2>9, OneTouched
<1>9. ASSUME Commit(i) PROVE InstancesRight
  <2>1. kind = "hook" /\ ~insts[i].stopped  BY <1>9 DEF Commit
  <2>2. PICK x \in Instance :
                 /\ Becomes(i, x)
                 /\ x.v = insts[i].v /\ x.status = insts[i].queued
                 /\ x.queued = insts[i].queued \/ (x.queued = "expired" /\ insts[i].queued = "pending" /\ insts[i].queuedUp)
                 /\ x.stopped = insts[i].stopped /\ x.queuedUp = insts[i].queuedUp
                 /\ x.timers = (insts[i].queued = "pending")
                 /\ x.effect = IF insts[i].queued = insts[i].status THEN insts[i].effect ELSE insts[i].effect + 1
    BY <1>0, <1>9, CommitIs
  <2>3. insts'[i] = x  BY <1>0, <2>2, BecomesIs
  <2>4. (Says(i, insts[i].queued) /\ insts[i].status = "pending") \/ fired' = fired  BY <1>0, <1>9, CommitIs
  <2>5. (fired'[i] = Append(fired[i], insts[i].queued) /\ insts[i].status = "pending") \/ fired'[i] = fired[i]
    BY <1>0, <1>4, <2>4, SaysIs
  <2>6. Holds(insts[i].v, insts[i].queued)  BY <1>0, <2>1 DEF InstInv
  <2>7. (\A k \in DOMAIN fired[i] : Holds(insts[i].v, fired[i][k]))'  BY <2>2, <2>3, <2>5, <2>6, SaidHolds
  <2>8. Keeps(i)
    <3>1. insts[i].status # "pending" => x.status = insts[i].status /\ fired'[i] = fired[i]
      BY <1>0, <2>1, <2>2, <2>5 DEF InstInv
    <3>2. x.effect >= insts[i].effect  BY <1>0, <2>2
    <3>3. insts[i].status = "pending" /\ x.status # "pending" => x.effect > insts[i].effect  BY <1>0, <2>2
    <3> QED BY <2>1, <2>2, <2>3, <3>1, <3>2, <3>3 DEF Keeps
  <2>9. PICK w : w = x.queued  OBVIOUS
  <2>10. Holds(v, w)
    <3>1. CASE w = insts[i].queued  BY <1>1, <2>6, <3>1
    <3>2. CASE w = "expired" /\ insts[i].queuedUp  BY <1>0, <2>1, <3>2 DEF InstInv, Holds
    <3> QED BY <2>2, <2>9, <3>1, <3>2
  <2>11. Holds(v, w)'  BY <1>2, <2>10
  <2>12. InstInv(i)'
    <3>1. x.timers => x.status = "pending" /\ ~x.stopped  BY <2>1, <2>2
    <3>2. x.status # "pending" => x.queued = x.status  BY <2>2
    <3>3. x.queuedUp => clock' > ExpiresAt - Second  BY <1>0, <1>3, <2>1, <2>2 DEF InstInv
    <3> QED BY <1>1, <1>3, <2>1, <2>2, <2>3, <2>7, <2>9, <2>11, <3>1, <3>2, <3>3 DEF InstInv, Holds
  <2> QED BY <1>0, <1>4, <2>2, <2>4, <2>8, <2>12, OneTouched
<1>10. ASSUME NEW what \in What, Returns(i, what) PROVE InstancesRight
  <2>1. /\ kind = "call" /\ ~insts[i].stopped /\ Return(i, what) /\ Holds(insts[i].v, what)
        /\ \A p \in Polls : polls'[p] = NoPoll
    BY <1>10 DEF Returns
  <2>2. /\ Says(i, what)
        /\ insts' \in Seq(Instance) /\ Len(insts') = Len(insts) /\ DOMAIN insts' = DOMAIN insts
        /\ \A j \in DOMAIN insts :
              /\ insts'[j].v = insts[j].v /\ insts'[j].stopped /\ ~insts'[j].timers
              /\ insts'[j].effect = insts[j].effect
              /\ j # i => insts'[j].status = insts[j].status
    BY <1>0, <2>1, ReturnIs
  <2>3. /\ fired' \in Seq(Seq(What)) /\ Len(fired') = Len(fired)
        /\ fired'[i] = Append(fired[i], what)
        /\ \A j \in DOMAIN insts : j # i => fired'[j] = fired[j]
    BY <1>0, <2>2, SaysIs
  <2>4. ASSUME NEW j \in DOMAIN insts PROVE Keeps(j) /\ InstInv(j)'
    <3>1. (\A k \in DOMAIN fired[j] : Holds(insts[j].v, fired[j][k]))'
      BY <2>1, <2>2, <2>3, SaidHolds
    <3>2. InstInv(j)'  BY <1>3, <2>1, <2>2, <3>1 DEF InstInv
    <3>3. insts[j].effect \in Nat  BY <1>0, InstanceIs DEF Instance
    <3>4. j = i => insts[i].status = "pending"  BY <1>0, <2>1 DEF InstInv
    <3>5. Keeps(j)  BY <2>1, <2>2, <2>3, <3>3, <3>4 DEF Keeps
    <3> QED BY <3>2, <3>5
  <2> QED BY <1>0, <2>2, <2>3, <2>4 DEF InstancesRight, UiTypes
<1> QED BY <1>5, <1>6, <1>7, <1>8, <1>9, <1>10 DEF StepOf

LEMMA InstancesStep ==
    ASSUME UiInv, [Next]_vars
    PROVE  InstancesRight
<1>0. UiTypes /\ insts \in Seq(Instance) /\ fired \in Seq(Seq(What)) /\ Len(fired) = Len(insts)
  BY DEF UiInv, UiTypes
<1>1. CASE UNCHANGED <<insts, fired>>
  <2>1. \A i \in DOMAIN insts : Keeps(i) /\ InstInv(i)'  BY <1>1, Untouched
  <2> QED BY <1>0, <1>1, <2>1 DEF InstancesRight
<1>2. CASE Stops /\ kind # "call"
  <2>1. ASSUME NEW i \in DOMAIN insts PROVE Keeps(i) /\ InstInv(i)'  BY <1>2, <2>1, Untouched DEF Stops
  <2>2. ASSUME NEW i \in DOMAIN insts' \ DOMAIN insts PROVE InstInv(i)'
    <3>1. /\ kind = "element" /\ fired'[i] = <<>> /\ ~insts'[i].stopped
          /\ insts'[i].timers => insts'[i].status = "pending"
      BY <1>2, <2>2 DEF Stops
    <3>2. DOMAIN fired'[i] = {}  BY <3>1
    <3>3. kind' = kind  BY HookFacts
    <3> QED BY <3>1, <3>2, <3>3 DEF InstInv
  <2> QED BY <1>2, <2>1, <2>2 DEF InstancesRight, Stops
<1> QED BY <1>1, <1>2, TouchedStep, UiEffects DEF UiEffect

-----------------------------------------------------------------------------
(* The requests in flight                                                  *)

PollEffect ==
    \/ UNCHANGED polls
    \/ \E i \in DOMAIN insts, p \in Polls : Poll(i, p)
    \/ \E p \in Polls : Answer(p)
    \/ \E p \in Polls : polls' = [polls EXCEPT ![p] = NoPoll]

LEMMA PollEffects == [Next]_vars => PollEffect
BY DEF PollEffect, Next, vars, Settle, Tick, Timers, CountdownTick, SetSecondsLeft, Commit, Unmount, CallEnds, Handle,
       PollAnswered, SetVerificationState, CallAnswered, Connect, Disconnect, SetVerification

LEMMA NoPollIs == NoPoll \in Request
BY DEF NoPoll, Request

\* A request stays in flight, its answer as it was; its instance still wants it
\* no more than before.
LEMMA PollStays ==
    ASSUME UiInv, [Next]_vars, NEW p \in Polls, polls'[p] = polls[p]
    PROVE  PollInv(p)' /\ (polls'[p] # NoPoll => polls'[p].inst \in DOMAIN insts')
<1> SUFFICES ASSUME polls[p] # NoPoll PROVE PollInv(p)' /\ polls[p].inst \in DOMAIN insts'
  BY DEF PollInv, NoPoll
<1>0. UiTypes /\ InstancesRight /\ PollInv(p) /\ kind' = kind  BY InstancesStep, HookFacts DEF UiInv
<1>1. PICK i \in DOMAIN insts : i = polls[p].inst  BY <1>0 DEF UiTypes
<1>2. Keeps(i) /\ i \in DOMAIN insts' /\ insts[i] \in Instance  BY <1>0, InstanceIs DEF InstancesRight
<1>3. polls[p].effect \in Nat /\ insts[i].effect \in Nat /\ insts[i].v \in Ids /\ insts'[i].effect \in Nat
  <2>1. insts'[i] \in Instance  BY <1>0, <1>2 DEF InstancesRight
  <2> QED BY <1>0, <1>2, <2>1 DEF UiTypes, Request, Instance
<1>4. polls[p].answer \in Terminal => server'[insts'[i].v] = polls[p].answer
  <2>1. polls[p].answer \in Terminal => server[insts[i].v] = polls[p].answer  BY <1>0, <1>1 DEF PollInv
  <2>2. \A v \in Ids : server[v] \in Terminal => server'[v] = server[v]  BY <1>0, HoldsOn
  <2> QED BY <1>2, <1>3, <2>1, <2>2 DEF Keeps
<1>5. polls[p].effect <= insts'[i].effect  BY <1>0, <1>1, <1>2, <1>3 DEF PollInv, Keeps
<1>6. kind = "hook" /\ insts'[i].status # "pending" => polls[p].effect < insts'[i].effect
  <2>1. kind = "hook" /\ insts[i].status # "pending" => polls[p].effect < insts[i].effect
    BY <1>0, <1>1 DEF PollInv
  <2>2. polls[p].effect <= insts[i].effect  BY <1>0, <1>1 DEF PollInv
  <2> QED BY <1>2, <1>3, <2>1, <2>2 DEF Keeps
<1>7. kind = "call" => ~insts'[i].stopped
  <2>1. kind = "call" => ~insts[i].stopped  BY <1>0, <1>1 DEF PollInv
  <2>2. kind = "call" => insts'[i].stopped = insts[i].stopped  BY <1>2 DEF Keeps
  <2> QED BY <2>1, <2>2
<1> QED BY <1>0, <1>1, <1>2, <1>4, <1>5, <1>6, <1>7 DEF PollInv

LEMMA PollsStep ==
    ASSUME UiInv, [Next]_vars
    PROVE  /\ polls' \in [Polls -> Request]
           /\ \A p \in Polls : PollInv(p)' /\ (polls'[p] # NoPoll => polls'[p].inst \in DOMAIN insts')
           /\ OneAtATime'
<1> DEFINE Right(p) == PollInv(p)' /\ (polls'[p] # NoPoll => polls'[p].inst \in DOMAIN insts')
           Goal == polls' \in [Polls -> Request] /\ (\A p \in Polls : Right(p)) /\ OneAtATime'
<1>0. UiTypes /\ polls \in [Polls -> Request] /\ kind' = kind /\ OneAtATime  BY HookFacts DEF UiInv, UiTypes
<1>1. \A p \in Polls : polls'[p] = polls[p] => Right(p)  BY PollStays
<1>2. CASE UNCHANGED polls  BY <1>0, <1>1, <1>2 DEF OneAtATime
<1>3. ASSUME NEW p \in Polls, polls' = [polls EXCEPT ![p] = NoPoll] PROVE Goal
  <2>1. polls' \in [Polls -> Request]  BY <1>0, <1>3, NoPollIs
  <2>2. polls'[p] = NoPoll /\ \A q \in Polls : q # p => polls'[q] = polls[q]  BY <1>0, <1>3
  <2>3. Right(p)  BY <2>2 DEF PollInv, NoPoll
  <2>4. OneAtATime'  BY <1>0, <2>2 DEF OneAtATime, NoPoll
  <2> QED BY <1>1, <2>1, <2>2, <2>3, <2>4
<1>4. ASSUME NEW i \in DOMAIN insts, NEW p \in Polls, Poll(i, p) PROVE Goal
  <2>1. /\ insts[i] \in Instance /\ insts[i].timers /\ ~insts[i].stopped /\ insts[i].status = "pending"
        /\ insts' = insts /\ insts[i].effect \in Nat /\ i \in Nat
    BY <1>0, <1>4, InstanceIs DEF Poll, MayPoll, UiInv, InstInv, Instance, UiTypes
  <2>2. PICK x \in Request : x = [inst |-> i, effect |-> insts[i].effect, answer |-> None]
    BY <2>1 DEF Request
  <2>3. polls' = [polls EXCEPT ![p] = x]  BY <1>4, <2>2 DEF Poll
  <2>4. polls' \in [Polls -> Request] /\ polls'[p] = x /\ \A q \in Polls : q # p => polls'[q] = polls[q]
    BY <1>0, <2>3
  <2>5. None \notin Terminal  BY UiAssumption DEF Terminal
  <2>6. x.inst = i /\ x.effect = insts[i].effect /\ x.answer = None  BY <2>2
  <2>7. PollInv(p)'  BY <1>0, <2>1, <2>4, <2>5, <2>6 DEF PollInv
  <2>8. OneAtATime'
    <3>1. kind = "call" => \A q \in Polls : polls[q] = NoPoll  BY <1>4 DEF Poll, MayPoll
    <3> QED BY <1>0, <2>4, <3>1 DEF OneAtATime, NoPoll
  <2> QED BY <1>1, <2>1, <2>4, <2>6, <2>7, <2>8
<1>5. ASSUME NEW p \in Polls, Answer(p) PROVE Goal
  <2>1. /\ polls[p] # NoPoll /\ insts' = insts /\ server' = server
        /\ \E a \in {server[insts[polls[p].inst].v], "error"} : polls' = [polls EXCEPT ![p].answer = a]
    BY <1>5 DEF Answer
  <2>2. PICK a \in {server[insts[polls[p].inst].v], "error"} : polls' = [polls EXCEPT ![p].answer = a]  BY <2>1
  <2>3. PICK i \in DOMAIN insts : i = polls[p].inst  BY <1>0, <2>1 DEF UiTypes
  <2>4. insts[i] \in Instance /\ insts[i].v \in Ids  BY <1>0, InstanceIs DEF Instance
  <2>5. a \in Status \cup {"error"}  BY <1>0, <2>2, <2>3, <2>4 DEF UiTypes
  <2>6. PICK x \in Request : /\ x = [polls[p] EXCEPT !.answer = a]
                             /\ x.inst = i /\ x.effect = polls[p].effect /\ x.answer = a
    <3>1. polls[p] \in Request  BY <1>0
    <3> DEFINE y == [polls[p] EXCEPT !.answer = a]
    <3>2. y \in Request /\ y.inst = polls[p].inst /\ y.effect = polls[p].effect /\ y.answer = a
      BY <2>5, <3>1 DEF Request
    <3> QED BY <2>3, <3>2
  <2>7. polls' = [polls EXCEPT ![p] = x]  BY <1>0, <2>2, <2>6
  <2>8. polls' \in [Polls -> Request] /\ polls'[p] = x /\ \A q \in Polls : q # p => polls'[q] = polls[q]
    BY <1>0, <2>7
  <2>9. a \in Terminal => server[insts[i].v] = a  BY <2>2, <2>3 DEF Terminal
  <2>10. PollInv(p)'
    <3>1. PollInv(p)  BY DEF UiInv
    <3> QED BY <1>0, <2>1, <2>3, <2>6, <2>8, <2>9, <3>1 DEF PollInv
  <2>11. OneAtATime'  BY <1>0, <2>1, <2>8 DEF OneAtATime, NoPoll
  <2> QED BY <1>1, <2>1, <2>6, <2>8, <2>10, <2>11
<1> QED BY <1>2, <1>3, <1>4, <1>5, PollEffects DEF PollEffect

LEMMA HostStep ==
    ASSUME UiTypes, [Next]_vars
    PROVE  host' \in Host
<1>0. host \in Host  BY DEF UiTypes
<1>1. CASE UNCHANGED host  BY <1>0, <1>1
<1>2. CASE Connect \/ Disconnect  BY <1>0, <1>2 DEF Connect, Disconnect, Host
<1>3. CASE \E v \in Ids \cup {None} : SetVerification(v)  BY <1>0, <1>3 DEF SetVerification, Host
<1> QED
  BY <1>1, <1>2, <1>3
  DEF Next, vars, Settle, Tick, Timers, Poll, CountdownTick, SetSecondsLeft, Commit, Unmount, CallEnds, Handle,
      Answer, PollAnswered, SetVerificationState, CallAnswered

LEMMA UiStep ==
    ASSUME UiInv, [Next]_vars
    PROVE  UiInv'
<1>1. UiTypes /\ InstancesRight /\ OneAtATime'  BY InstancesStep, PollsStep DEF UiInv
<1>2. kind' = kind /\ clock' \in Nat /\ server' \in [Ids -> Status]  BY <1>1, HoldsOn
<1>3. host' \in Host  BY <1>1, HostStep
<1>4. /\ polls' \in [Polls -> Request]
      /\ \A p \in Polls : PollInv(p)' /\ (polls'[p] # NoPoll => polls'[p].inst \in DOMAIN insts')
  BY PollsStep
<1>5. UiTypes'  BY <1>1, <1>2, <1>3, <1>4 DEF UiTypes, InstancesRight, NoPoll
<1> QED BY <1>1, <1>4, <1>5 DEF UiInv, InstancesRight

LEMMA UiInit == Init => UiInv
<1> SUFFICES ASSUME Init PROVE UiInv
  OBVIOUS
<1>1. UiTypes  BY InitTypes
<1>2. \A p \in Polls : polls[p] = NoPoll  BY DEF Init
<1>3. ASSUME NEW i \in DOMAIN insts PROVE InstInv(i)
  <2>1. fired[i] = <<>>  BY DEF Init
  <2>2. DOMAIN fired[i] = {}  BY <2>1
  <2>3. PICK v \in Ids : insts = <<NewInstance(v, "pending")>> /\ kind # "element"  BY <1>3 DEF Init
  <2>4. i = 1 /\ insts[i] = NewInstance(v, "pending")  BY <2>3
  <2>5. "pending" \in Status  BY DEF Status
  <2>6. /\ insts[i].status = "pending" /\ insts[i].queued = "pending" /\ ~insts[i].stopped
        /\ insts[i].queuedUp => TimeIsUp
    BY <1>1, <2>4, <2>5, NewInstanceIs
  <2>7. insts[i].queuedUp => clock > ExpiresAt - Second  BY <1>1, <2>6, UpIsLate DEF UiTypes
  <2>8. Holds(insts[i].v, insts[i].queued)  BY <2>6 DEF Holds
  <2> QED BY <2>2, <2>6, <2>7, <2>8 DEF InstInv
<1> QED BY <1>1, <1>2, <1>3 DEF UiInv, PollInv, OneAtATime

\* The invariant of the widgets: timers only run while a verification is
\* pending, and no answer or render under way is one the row has outlived.
THEOREM UiInvariant == Spec => []UiInv
<1>1. UiInv /\ [Next]_vars => UiInv'  BY UiStep
<1> QED BY UiInit, <1>1, PTL DEF Spec

-----------------------------------------------------------------------------

\* poll(), transition(), setVerification and waitForVerification: whatever the
\* order of the answers, an instance announces what its own row is, or that
\* the time is up when less than a second is left.
THEOREM AnnouncesTheTruth == Spec => []AnnouncedIsTrue
<1>1. UiInv => AnnouncedIsTrue  BY DEF UiInv, InstInv, Holds, AnnouncedIsTrue
<1> QED BY UiInvariant, <1>1, PTL

\* stop(), unmount and the end of a call are final: however many requests were
\* in flight, none of them causes another callback.
THEOREM StopIsFinal == Spec => SilentAfterStop
<1>1. UiInv /\ [Next]_vars =>
          [\A i \in DOMAIN insts : insts[i].stopped =>
              /\ fired'[i] = fired[i]
              /\ insts'[i].stopped]_vars
  BY InstancesStep DEF InstancesRight, Keeps
<1> QED BY UiInvariant, <1>1, PTL DEF Spec, SilentAfterStop

\* The hook's effects and the call's return: a settled verification stays so,
\* and is announced once, because the effect that asked is torn down with it.
THEOREM SettledIsFinal == Spec => SettledStays
<1>1. UiInv /\ [Next]_vars =>
          [kind # "element" => \A i \in DOMAIN insts :
              insts[i].status # "pending" =>
                  insts'[i].status = insts[i].status
                  /\ {k \in DOMAIN fired'[i] : fired'[i][k] \in Terminal} =
                     {k \in DOMAIN fired[i] : fired[i][k] \in Terminal}]_vars
  BY InstancesStep DEF InstancesRight, Keeps
<1> QED BY UiInvariant, <1>1, PTL DEF Spec, SettledStays
=============================================================================
