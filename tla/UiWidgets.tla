----------------------------- MODULE UiWidgets -----------------------------
(***************************************************************************)
(* Clients that wait for a verification to settle by polling its status:   *)
(* <syrotp-verification> with its VerificationController (web-component),  *)
(* useSyrotpVerification (react) and waitForVerification (sdk-js).         *)
(*                                                                         *)
(* An instance is one controller, one mounted hook or one call.  An        *)
(* element makes a controller each time it is (re)started.  The row on the *)
(* server settles whenever it likes: the clock here is the client's, and   *)
(* the two need not agree.  expires_at of a row never changes (RowsAreStable*)
(* of Server), so that the branch that merges a new one is left out.       *)
(* Rendering is left out, onChange with it.                                *)
(***************************************************************************)
EXTENDS Integers, Sequences, FiniteSets

CONSTANTS
    Kinds,              \* subset of {"element", "hook", "call"}
    Ids,                \* verifications
    Polls,              \* requests in flight at a time, a bound
    MaxInstances,       \* controllers one element makes, a bound
    MaxErrors,          \* polls that fail, a bound
    Second,             \* units of the clock in a second
    ExpiresAt,          \* expires_at of every verification
    Deadline,           \* deadline of waitForVerification
    MaxClock,           \* a bound
    None

ASSUME UiAssumption ==
    /\ Kinds \subseteq {"element", "hook", "call"}
    /\ MaxInstances \in Nat /\ MaxErrors \in Nat
    /\ Second \in Nat \ {0}
    /\ {ExpiresAt, Deadline, MaxClock} \subseteq Nat
    /\ ExpiresAt <= MaxClock /\ Deadline <= MaxClock
    /\ None \notin {"pending", "verified", "expired", "cancelled", "error"}

\* isTerminal: every status but pending.  The fifth one, failed, is shown by the
\* clients too and announced by none; no statement of the server ever stores it, so
\* that no row has it here.
Terminal == {"verified", "expired", "cancelled"}
Status == {"pending"} \cup Terminal

VARIABLES
    kind,               \* which client this is
    server,             \* status of the rows
    clock,              \* Date.now() of the client
    host,               \* the element: is it connected, its _verification
    insts,              \* the instances, oldest first
    polls,              \* requests in flight
    errors,             \* polls that have failed
    fired               \* history: callbacks, events and results per instance

vars == <<kind, server, clock, host, insts, polls, errors, fired>>

\* Fault: the last whole second is not counted.
TimeIsUpEarly == (ExpiresAt - clock - 1) \div Second <= 0

\* computeSecondsLeft(...) <= 0: the seconds are rounded down, so that the last
\* one is already over when it begins to run.
TimeIsUp == (ExpiresAt - clock) \div Second <= 0

\* status: what is shown; queued, queuedUp: React state that is set and not yet
\* committed; up: secondsLeft = 0, as committed; effect: the poll effect.
NewInstance(v, s) ==
    [v |-> v, status |-> s, queued |-> s, up |-> FALSE, queuedUp |-> kind = "hook" /\ TimeIsUp,
     timers |-> s = "pending", effect |-> 1, stopped |-> FALSE]

NoPoll == [inst |-> 0, effect |-> 0, answer |-> None]

Fire(i, what) == fired' = [fired EXCEPT ![i] = Append(@, what)]

-----------------------------------------------------------------------------
(* The network and the server                                              *)

\* The status is polled while the timers run; waitForVerification sends one
\* request at a time.
MayPoll(i) ==
    /\ insts[i].timers /\ ~insts[i].stopped
    /\ kind = "call" => clock < Deadline /\ \A p \in Polls : polls[p] = NoPoll

Poll(i, p) ==
    /\ MayPoll(i)
    /\ polls[p] = NoPoll
    /\ polls' = [polls EXCEPT ![p] = [inst |-> i, effect |-> insts[i].effect, answer |-> None]]
    /\ UNCHANGED <<kind, server, clock, host, insts, errors, fired>>

\* GET /v/:id/status: what the row is now, or an error.
Answer(p) ==
    /\ polls[p] # NoPoll /\ polls[p].answer = None
    /\ \/ /\ polls' = [polls EXCEPT ![p].answer = server[insts[polls[p].inst].v]]
          /\ UNCHANGED errors
       \/ /\ errors < MaxErrors
          /\ errors' = errors + 1
          /\ polls' = [polls EXCEPT ![p].answer = "error"]
    /\ UNCHANGED <<kind, server, clock, host, insts, fired>>

Settle(v) ==
    /\ server[v] = "pending"
    /\ \E s \in Terminal : server' = [server EXCEPT ![v] = s]
    /\ UNCHANGED <<kind, clock, host, insts, polls, errors, fired>>

Tick ==
    /\ clock < MaxClock
    /\ clock' = clock + 1
    /\ UNCHANGED <<kind, server, host, insts, polls, errors, fired>>

-----------------------------------------------------------------------------
(* controller.ts and element.ts                                            *)

\* transition: the callback belongs to leaving pending; a terminal status stops
\* the timers, not the requests in flight.
Transition(i, s) ==
    /\ insts' = [insts EXCEPT ![i].status = s, ![i].queued = s,
                              ![i].timers = @ /\ s = "pending"]
    /\ IF insts[i].status = "pending" /\ s # "pending" THEN Fire(i, s) ELSE UNCHANGED fired

CountdownTick(i) ==
    /\ kind = "element"
    /\ insts[i].timers /\ insts[i].status = "pending"
    /\ TimeIsUp
    /\ Transition(i, "expired")
    /\ UNCHANGED <<kind, server, clock, host, polls, errors>>

\* Faults: poll() does not look at stopped when the answer is there; the hook
\* applies answers to requests of an effect it has torn down.
NeverDropped(i, poll) == FALSE
DroppedIfStopped(i, poll) == insts[i].stopped

\* An answer nobody wants any more: the controller is stopped, or the hook has
\* torn down the effect that asked.
Dropped(i, poll) ==
    \/ insts[i].stopped
    \/ kind = "hook" /\ poll.effect # insts[i].effect

\* The rest of poll() once its answer is there.
PollAnswered(p) ==
    LET i == polls[p].inst
        answer == polls[p].answer
    IN  /\ kind = "element"
        /\ answer # None
        /\ polls' = [polls EXCEPT ![p] = NoPoll]
        /\ IF Dropped(i, polls[p]) \/ answer = insts[i].status THEN UNCHANGED <<insts, fired>>
           ELSE IF answer = "error" THEN Fire(i, "error") /\ UNCHANGED insts
           ELSE Transition(i, answer)
        /\ UNCHANGED <<kind, server, clock, host, errors>>

Stopped(s) == [i \in DOMAIN s |-> [s[i] EXCEPT !.stopped = TRUE, !.timers = FALSE]]

\* restart: stop the controller there is; make one if there is a verification.
\* What the page was given may be the row as it was started, or as it is now.
Restart(v) ==
    IF v = None THEN insts' = Stopped(insts) /\ UNCHANGED fired
    ELSE /\ Len(insts) < MaxInstances
         /\ \E s \in {"pending", server[v]} :
               insts' = Append(Stopped(insts), NewInstance(v, s))
         /\ fired' = Append(fired, <<>>)

Connect ==
    /\ kind = "element" /\ ~host.connected
    /\ host' = [host EXCEPT !.connected = TRUE]
    /\ Restart(host.verification)
    /\ UNCHANGED <<kind, server, clock, polls, errors>>

Disconnect ==
    /\ kind = "element" /\ host.connected
    /\ host' = [host EXCEPT !.connected = FALSE]
    /\ insts' = Stopped(insts)
    /\ UNCHANGED <<kind, server, clock, polls, errors, fired>>

\* The property, or the attribute, is set.
SetVerification(v) ==
    /\ kind = "element"
    /\ host' = [host EXCEPT !.verification = v]
    /\ IF host.connected THEN Restart(v) ELSE UNCHANGED <<insts, fired>>
    /\ UNCHANGED <<kind, server, clock, polls, errors>>

-----------------------------------------------------------------------------
(* useSyrotpVerification.ts                                                *)

\* The 1 Hz interval sets secondsLeft.
SetSecondsLeft(i) ==
    /\ kind = "hook" /\ insts[i].timers
    /\ insts' = [insts EXCEPT ![i].queuedUp = TimeIsUp]
    /\ UNCHANGED <<kind, server, clock, host, polls, errors, fired>>

\* setVerification with the answer of a poll.
SetVerificationState(p) ==
    LET i == polls[p].inst
        answer == polls[p].answer
    IN  /\ kind = "hook"
        /\ answer # None
        /\ polls' = [polls EXCEPT ![p] = NoPoll]
        /\ IF Dropped(i, polls[p]) THEN UNCHANGED <<insts, fired>>
           ELSE IF answer = "error" THEN Fire(i, "error") /\ UNCHANGED insts
           ELSE insts' = [insts EXCEPT ![i].queued = answer] /\ UNCHANGED fired
        /\ UNCHANGED <<kind, server, clock, host, errors>>

\* Fault: the intervals are not set up again.
CommitLosingTimers(i) ==
    LET s == insts[i].queued
    IN  /\ kind = "hook" /\ ~insts[i].stopped
        /\ s # insts[i].status \/ insts[i].queuedUp # insts[i].up
        /\ insts' = [insts EXCEPT
              ![i].status = s, ![i].up = insts[i].queuedUp, ![i].timers = FALSE,
              ![i].queued = IF s = "pending" /\ insts[i].queuedUp THEN "expired" ELSE s]
        /\ IF insts[i].status = "pending" /\ s # "pending" THEN Fire(i, s) ELSE UNCHANGED fired
        /\ UNCHANGED <<kind, server, clock, host, polls, errors>>

\* React renders what is queued and runs the effects whose dependencies have
\* changed: the callback, the two timers, and the expiry, which queues the
\* next state.
Commit(i) ==
    LET s == insts[i].queued
    IN  /\ kind = "hook" /\ ~insts[i].stopped
        /\ s # insts[i].status \/ insts[i].queuedUp # insts[i].up
        /\ insts' = [insts EXCEPT
              ![i].status = s, ![i].up = insts[i].queuedUp,
              ![i].timers = s = "pending",
              ![i].effect = IF s = insts[i].status THEN @ ELSE @ + 1,
              ![i].queued = IF s = "pending" /\ insts[i].queuedUp THEN "expired" ELSE s]
        /\ IF insts[i].status = "pending" /\ s # "pending" THEN Fire(i, s) ELSE UNCHANGED fired
        /\ UNCHANGED <<kind, server, clock, host, polls, errors>>

Unmount(i) ==
    /\ kind = "hook" /\ ~insts[i].stopped
    /\ insts' = Stopped(insts)
    /\ UNCHANGED <<kind, server, clock, host, polls, errors, fired>>

-----------------------------------------------------------------------------
(* waitForVerification (sdk-js)                                            *)

Return(i, what) ==
    /\ insts' = [Stopped(insts) EXCEPT ![i].status = IF what \in Status THEN what ELSE @]
    /\ Fire(i, what)

\* Any status but pending is returned, an error is thrown, a pending one is
\* followed by a sleep.
CallAnswered(p) ==
    LET i == polls[p].inst
        answer == polls[p].answer
    IN  /\ kind = "call"
        /\ answer # None
        /\ polls' = [polls EXCEPT ![p] = NoPoll]
        /\ IF answer = "pending" THEN UNCHANGED <<insts, fired>> ELSE Return(i, answer)
        /\ UNCHANGED <<kind, server, clock, host, errors>>

\* Between two requests: the deadline has passed, or the signal was aborted.
CallEnds(i, what) ==
    /\ kind = "call" /\ ~insts[i].stopped
    /\ \A p \in Polls : polls[p] = NoPoll
    /\ what = "timeout" => clock >= Deadline
    /\ Return(i, what)
    /\ UNCHANGED <<kind, server, clock, host, polls, errors>>

-----------------------------------------------------------------------------
Init ==
    /\ kind \in Kinds
    /\ server = [v \in Ids |-> "pending"]
    /\ clock = 0
    /\ host = [connected |-> FALSE, verification |-> None]
    /\ IF kind = "element" THEN insts = <<>> ELSE \E v \in Ids : insts = <<NewInstance(v, "pending")>>
    /\ polls = [p \in Polls |-> NoPoll]
    /\ errors = 0
    /\ fired = [i \in DOMAIN insts |-> <<>>]

Timers(i) == (\E p \in Polls : Poll(i, p)) \/ CountdownTick(i) \/ SetSecondsLeft(i) \/ Commit(i)

Handle(p) == Answer(p) \/ PollAnswered(p) \/ SetVerificationState(p) \/ CallAnswered(p)

Next ==
    \/ \E v \in Ids : Settle(v)
    \/ Tick
    \/ \E i \in DOMAIN insts : Timers(i) \/ Unmount(i) \/ \E what \in {"timeout", "aborted"} : CallEnds(i, what)
    \/ \E p \in Polls : Handle(p)
    \/ Connect \/ Disconnect
    \/ \E v \in Ids \cup {None} : SetVerification(v)

Spec == Init /\ [][Next]_vars

\* Intervals fire, React renders, requests end, time passes, the server expires
\* a row in the end, and waitForVerification looks at its deadline.
Fairness ==
    /\ WF_vars(Tick)
    /\ \A v \in Ids : WF_vars(Settle(v))
    /\ \A p \in Polls : WF_vars(Handle(p))
    /\ \A i \in 1..MaxInstances :
          /\ WF_vars(i \in DOMAIN insts /\ \E p \in Polls : Poll(i, p))
          /\ WF_vars(i \in DOMAIN insts /\ CountdownTick(i))
          /\ WF_vars(i \in DOMAIN insts /\ SetSecondsLeft(i))
          /\ WF_vars(i \in DOMAIN insts /\ Commit(i))
          /\ WF_vars(i \in DOMAIN insts /\ CallEnds(i, "timeout"))

FairSpec == Spec /\ Fairness

-----------------------------------------------------------------------------
\* poll() and transition(): what a client announces is true. verified and
\* cancelled are what the row of that very instance is on the server; expired
\* is that, or the countdown has run out, which is less than a second early.
AnnouncedIsTrue ==
    \A i \in DOMAIN insts : \A k \in DOMAIN fired[i] :
        /\ fired[i][k] \in {"verified", "cancelled"} => server[insts[i].v] = fired[i][k]
        /\ fired[i][k] = "expired" =>
              server[insts[i].v] = "expired" \/ (clock > ExpiresAt - Second /\ kind # "call")

\* stop(), unmount and the end of a call: after it, a request still in flight or
\* a timer causes no callback, and the element has one working controller.
SilentAfterStop ==
    [][\A i \in DOMAIN insts : insts[i].stopped =>
          /\ fired'[i] = fired[i]
          /\ insts'[i].stopped]_vars

\* useSyrotpVerification and waitForVerification: a verification shown as
\* settled stays so, whichever answers arrive late; its callback came once.
SettledStays ==
    [][kind # "element" => \A i \in DOMAIN insts :
          insts[i].status # "pending" =>
              insts'[i].status = insts[i].status
              /\ {k \in DOMAIN fired'[i] : fired'[i][k] \in Terminal} =
                 {k \in DOMAIN fired[i] : fired[i][k] \in Terminal}]_vars

\* controller.ts says that its contract is the hook's, with the same merge rules
\* and the same local TTL fallback: a settled verification is not shown as
\* pending again.
NeverReopened ==
    [][\A i \in DOMAIN insts : insts[i].status # "pending" => insts'[i].status # "pending"]_vars

\* The countdown and the polls together: a mounted hook does not show pending
\* for ever and a call returns, although polls fail and answers come late.
ClientSettles ==
    <>(kind = "element" \/ \A i \in DOMAIN insts : insts[i].stopped \/ insts[i].status # "pending")

=============================================================================
