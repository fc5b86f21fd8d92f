----------------------------- MODULE LoadProofs -----------------------------
(***************************************************************************)
(* Proofs about LoadTest, for every plan, every number of items and every  *)
(* pool of loops: what the exit code 0 of the load test promises, that a   *)
(* scenario that passes was measured to its end, and which fixtures a run  *)
(* may leave behind.                                                       *)
(***************************************************************************)
EXTENDS LoadTest, FiniteSetTheorems, TLAPS

-----------------------------------------------------------------------------
(* The inductive invariant                                                 *)

Phases == {"preflight", "fixtures", "probe", "seed", "run", "join", "evaluate", "cleanup",
           "collect", "verdict", "over"}
Worker == [pc : {"done", "loop", "midpoint", "send", "end", "failed"},
           ops : Seq(Ops), begun : BOOLEAN]
Result == [scenario : Scenarios, pass : BOOLEAN, ranTo : {"completed", "errored", "skipped"}]

\* A loop that sends, or is about to, has a request to send.
Equipped(r) == r.pc \in {"send", "midpoint"} => r.ops # <<>>

WorkTypes ==
    /\ stage \in Nat /\ size \in Nat /\ next \in Nat /\ finished \in Nat
    /\ okStarts \in Nat /\ midpoint \in Nat /\ unhandled \in Nat
    /\ metrics \in [Ops -> [Kinds -> Nat]]
    /\ pool \in [Pool -> Worker]
    /\ \A w \in Pool : Equipped(pool[w])

StepTypes ==
    /\ input \in Inputs
    /\ step \in 1..Len(input.plan)
    /\ phase \in Phases
    /\ failing \in BOOLEAN /\ threw \in BOOLEAN
    /\ results \in Seq(Result)
    /\ safety \in [unhandled : Nat, err5xx : Nat, lost : Nat]

AllDone == \A w \in Pool : pool[w].pc = "done"
StageInv == phase = "join" \/ ~AllDone => stage \in 1..Len(Stages)

\* Loops run on after their pool was left only when an exception was counted.
DrainInv == phase # "join" /\ ~AllDone => unhandled > 0 /\ phase \in {"evaluate", "cleanup", "collect"}

\* The loops that hold an item which has not run to its end.
Holding == {w \in Pool : pool[w].pc \in {"midpoint", "send", "end", "failed"}}
Handed == IF next < size THEN next ELSE size

\* runPool: an index is with a loop or finished, and a loop only returns when
\* the indices are used up; onMidpoint is called by the first item past the middle.
JoinInv ==
    phase = "join" =>
        /\ finished + Cardinality(Holding) = Handed
        /\ AllDone => next > size
        /\ scenario = "receiver-disabled" =>
             /\ size = Total
             /\ midpoint \in {0, 1}
             /\ midpoint = 0 => next <= size \div 2

Early == {"preflight", "fixtures", "probe", "seed", "run"}
MidpointInv == phase \in Early => midpoint = 0

Measured ==
    /\ AllDone
    /\ stage = Len(Stages) /\ finished = size
    /\ scenario = "receiver-disabled" => midpoint = 1

MeasuredInv == phase \in {"evaluate", "cleanup", "collect"} => failing \/ threw \/ Measured

\* The app row of the current step may exist until its finally has run.
FixtureInv ==
    apps \subseteq IF phase \in {"probe", "seed", "run", "join", "evaluate", "cleanup"}
                     THEN leaked \cup {step} ELSE leaked

ExitInv == phase # "over" => exit = None

AllPass == \A i \in 1..Len(results) : results[i].pass

ResultInv ==
    /\ phase \notin {"verdict", "over"} => Len(results) = step - 1
    /\ phase = "verdict" => Len(results) = Len(input.plan) /\ input.mode = "suite"
    /\ \A i \in 1..Len(results) : results[i].pass => results[i].ranTo = "completed"
    /\ input.mode = "chain" /\ ~input.noAcceptance /\ phase # "over" => AllPass

\* What the current step has recorded will show in hardSafety or in its result.
Dirty ==
    \/ \E op \in Ops, kind \in Bad : metrics[op][kind] > 0
    \/ unhandled > 0
    \/ phase = "join" /\ \E w \in Pool : pool[w].pc = "failed"

NoHarm == [unhandled |-> 0, err5xx |-> 0, lost |-> 0]

\* addToSafety: nothing bad that was seen is forgotten between two steps.
SeenInv ==
    /\ phase = "preflight" => seen = {}
    /\ input.mode = "suite" /\ seen # {} =>
         safety # NoHarm \/ ~AllPass \/ (phase \notin {"verdict", "over"} /\ Dirty)

GreenInv ==
    exit = 0 /\ ~input.noAcceptance =>
        /\ phase = "over"
        /\ Len(results) = Len(input.plan) /\ AllPass
        /\ input.mode = "suite" => safety = NoHarm

LoadInv ==
    /\ WorkTypes /\ StepTypes /\ StageInv /\ DrainInv /\ JoinInv /\ MidpointInv /\ MeasuredInv
    /\ FixtureInv /\ ExitInv /\ ResultInv /\ SeenInv /\ GreenInv

-----------------------------------------------------------------------------
(* The operators of the model                                              *)

Programs == Seq(Ops) \ {<<>>}

\* Every plan is a nonempty sequence of scenarios.
LEMMA PlansRight ==
    ASSUME NEW i \in Inputs
    PROVE  /\ i.plan \in Seq(Scenarios) /\ Len(i.plan) \in Nat \ {0}
           /\ i.mode \in {"suite", "chain"}
           /\ i.continueOnFail \in BOOLEAN /\ i.noAcceptance \in BOOLEAN
           /\ i.byo \in BOOLEAN /\ i.cli \in BOOLEAN
           /\ i.cli => ~i.noAcceptance
<1>1. /\ i.plan \in UNION {Plans[m] : m \in DOMAIN Plans}
      /\ i.mode \in {"suite", "chain"}
      /\ i.continueOnFail \in BOOLEAN /\ i.noAcceptance \in BOOLEAN
      /\ i.byo \in BOOLEAN /\ i.cli \in BOOLEAN
      /\ i.cli => ~i.noAcceptance
    BY DEF Inputs
<1>2. PICK m \in DOMAIN Plans : i.plan \in Plans[m]
    BY <1>1
<1>3. i.plan \in Seq(Scenarios) /\ i.plan # <<>>
    BY <1>2, LoadTestAssumption
<1> QED
    BY <1>1, <1>3

\* The scenario of a step is one of the table's.
LEMMA ScenarioOfStep ==
    ASSUME input \in Inputs, step \in 1..Len(input.plan)
    PROVE  scenario \in Scenarios
<1>1. input.plan \in Seq(Scenarios)
    BY PlansRight
<1> HIDE DEF Scenarios
<1> QED
    BY <1>1 DEF scenario

\* The items of a pool are nonempty lists of requests, and a scenario has one
\* pool or two; those that run fullFlow have one.
LEMMA StagesRight ==
    ASSUME scenario \in Scenarios
    PROVE  /\ Len(Stages) \in {1, 2}
           /\ scenario \in FullFlowScenarios => Len(Stages) = 1
           /\ \A n \in 1..Len(Stages) : Stages[n] \subseteq Programs
<1>1. /\ <<"start">> \in Programs /\ <<"inbound">> \in Programs /\ <<"status">> \in Programs
      /\ <<"start", "inbound">> \in Programs /\ <<"start", "inbound", "status">> \in Programs
    BY DEF Programs, Ops
<1> DEFINE right(s) == Len(s) \in {1, 2} /\ \A n \in 1..Len(s) : s[n] \subseteq Programs
<1>2. /\ right(startOnly) /\ right(fullFlow) /\ right(inboundOnly) /\ right(statusPolling)
      /\ right(mixed) /\ right(replayStorm) /\ right(wrongCodeStorm)
    <2> HIDE DEF Programs
    <2>1. right(startOnly) /\ right(fullFlow) /\ right(wrongCodeStorm)
        BY <1>1 DEF startOnly, fullFlow, wrongCodeStorm
    <2>2. right(inboundOnly) /\ right(statusPolling)
        BY <1>1 DEF inboundOnly, statusPolling
    <2>3. right(mixed) /\ right(replayStorm)
        BY <1>1 DEF mixed, replayStorm
    <2> QED
        BY <2>1, <2>2, <2>3
<1>3. scenario \in FullFlowScenarios => Stages = fullFlow
    BY DEF Stages, FullFlowScenarios
<1>4. Len(fullFlow) = 1
    BY DEF fullFlow
<1>5. right(Stages)
    <2> HIDE DEF right
    <2> QED
        BY <1>2, <1>3 DEF Stages, Scenarios, FullFlowScenarios
<1> QED
    BY <1>3, <1>4, <1>5

\* The total of a pool; receiver-disabled runs all its items.
LEMMA PoolSizeRight ==
    ASSUME okStarts \in Nat, NEW n \in Nat
    PROVE  /\ PoolSize(n) \in Nat
           /\ scenario = "receiver-disabled" => PoolSize(n) = Total
<1>1. PoolSize(n) \in {1, okStarts, 0, Total}
    BY DEF PoolSize
<1>2. scenario = "receiver-disabled" => PoolSize(n) = Total
    BY DEF PoolSize
<1> QED
    BY <1>1, <1>2, LoadTestAssumption

\* A finite set has a subset of every smaller size.
LEMMA SubsetOfSize ==
    ASSUME NEW S, IsFiniteSet(S), NEW k \in Nat, k <= Cardinality(S)
    PROVE  \E s \in SUBSET S : Cardinality(s) = k
<1>1. Cardinality(S) \in Nat /\ ExistsBijection(1..Cardinality(S), S)
    BY FS_CardinalityType
<1>2. PICK f \in Bijection(1..Cardinality(S), S) : TRUE
    BY <1>1 DEF ExistsBijection
<1>3. /\ f \in [1..Cardinality(S) -> S]
      /\ \A a, b \in 1..Cardinality(S) : f[a] = f[b] => a = b
    BY <1>2 DEF Bijection, Injection, IsInjective
<1> DEFINE s == {f[a] : a \in 1..k}
           g == [a \in 1..k |-> f[a]]
<1>4. \A a \in 1..k : a \in 1..Cardinality(S)
    BY <1>1
<1>5. g \in [1..k -> s]
    OBVIOUS
<1>6. \A a, b \in 1..k : g[a] = g[b] => a = b
    BY <1>3, <1>4
<1>7. \A y \in s : \E a \in 1..k : g[a] = y
    OBVIOUS
<1>8. g \in Bijection(1..k, s)
    <2> HIDE DEF g, s
    <2> QED
        BY <1>5, <1>6, <1>7 DEF Bijection, Injection, Surjection, IsInjective
<1>9. Cardinality(s) = k
    <2> HIDE DEF g, s
    <2>1. ExistsBijection(1..k, s)
        BY <1>8 DEF ExistsBijection
    <2> QED
        BY <2>1, FS_CountingElements
<1>10. s \in SUBSET S
    BY <1>3, <1>4
<1> QED
    BY <1>9, <1>10

-----------------------------------------------------------------------------
(* What the steps do to a pool                                             *)

\* runPool starts its loops, one at least, and hands out nothing yet.
PoolStarts(n) ==
    /\ stage' = n /\ size' = PoolSize(n) /\ next' = 0 /\ finished' = 0
    /\ size' \in Nat
    /\ pool' \in [Pool -> Worker]
    /\ \A w \in Pool : pool'[w].pc \in {"done", "loop"}
    /\ \E w \in Pool : pool'[w].pc = "loop"

LEMMA RunPoolStarts ==
    ASSUME okStarts \in Nat, NEW n \in Nat, RunPoolOf(n)
    PROVE  PoolStarts(n)
<1>1. PoolSize(n) \in Nat
    BY PoolSizeRight
<1>2. IsFiniteSet(Pool) /\ Cardinality(Pool) \in Nat /\ Cardinality(Pool) # 0
    BY LoadTestAssumption, FS_CardinalityType, FS_EmptySet
<1> DEFINE concurrency == IF PoolSize(n) < Cardinality(Pool) THEN PoolSize(n) ELSE Cardinality(Pool)
           k == IF concurrency = 0 THEN 1 ELSE concurrency
           loops == CHOOSE s \in SUBSET Pool : Cardinality(s) = k
<1>3. k \in Nat /\ k <= Cardinality(Pool) /\ k # 0
    BY <1>1, <1>2
<1>4. loops \in SUBSET Pool /\ Cardinality(loops) = k
    <2> HIDE DEF k
    <2>1. \E s \in SUBSET Pool : Cardinality(s) = k
        BY <1>2, <1>3, SubsetOfSize
    <2> QED
        BY <2>1
<1>5. loops # {}
    <2> HIDE DEF k, loops
    <2> QED
        BY <1>3, <1>4, FS_EmptySet
<1>6. /\ stage' = n /\ size' = PoolSize(n) /\ next' = 0 /\ finished' = 0
      /\ pool' = [w \in Pool |-> IF w \in loops THEN Loop ELSE Idle]
    BY DEF RunPoolOf
<1>7. Loop \in Worker /\ Idle \in Worker /\ Loop.pc = "loop" /\ Idle.pc = "done"
    BY DEF Loop, Idle, Worker
<1>8. \E w \in Pool : pool'[w].pc = "loop"
    <2> HIDE DEF k, loops
    <2> QED
        BY <1>4, <1>5, <1>6, <1>7
<1>9. pool' \in [Pool -> Worker] /\ \A w \in Pool : pool'[w].pc \in {"done", "loop"}
    <2> HIDE DEF loops
    <2> QED
        BY <1>6, <1>7
<1> QED
    BY <1>1, <1>6, <1>8, <1>9 DEF PoolStarts

\* What a step of a loop leaves alone.
LeavesRunOne ==
    UNCHANGED <<input, step, phase, failing, strays, apps, leaked, results, safety, exit,
                stage, size, threw, accepted>>

Recorded == metrics' \in [Ops -> [Kinds -> Nat]] /\ unhandled' \in Nat /\ okStarts' \in Nat
NothingRecorded == metrics' = metrics /\ unhandled' = unhandled /\ seen' = seen

\* The loop w becomes q: it returns when the indices are used up, takes the
\* next item, goes on with its item (recording what happens) or finishes it.
Returns(w, q) ==
    /\ pool[w].pc = "loop" /\ next >= size /\ q.pc = "done"
    /\ next' = next + 1 /\ finished' = finished /\ midpoint' = midpoint /\ NothingRecorded

TakesItem(w, q) ==
    /\ pool[w].pc = "loop" /\ next < size /\ q.pc \in {"midpoint", "send", "end"}
    /\ next' = next + 1 /\ finished' = finished /\ NothingRecorded
    /\ midpoint' = midpoint + IF scenario = "receiver-disabled" /\ midpoint = 0 /\ next >= size \div 2
                                THEN 1 ELSE 0

GoesOn(w, q) ==
    /\ pool[w].pc \in {"midpoint", "send"} /\ q.pc \in {"send", "end", "failed"}
    /\ next' = next /\ finished' = finished /\ midpoint' = midpoint
    /\ unhandled' >= unhandled
    /\ \A op \in Ops, kind \in Bad : metrics'[op][kind] >= metrics[op][kind]
    /\ \/ seen' = seen
       \/ \E op \in Ops, kind \in Bad : metrics'[op][kind] > 0
       \/ unhandled' > 0
       \/ q.pc = "failed"

FinishesItem(w, q) ==
    /\ pool[w].pc = "end" /\ q.pc = "loop"
    /\ next' = next /\ finished' = finished + 1 /\ midpoint' = midpoint /\ NothingRecorded

WorkEffect(w, q) ==
    /\ pool' = [pool EXCEPT ![w] = q] /\ q \in Worker /\ Equipped(q)
    /\ LeavesRunOne /\ Recorded
    /\ Returns(w, q) \/ TakesItem(w, q) \/ GoesOn(w, q) \/ FinishesItem(w, q)

LEMMA RecordUpdate ==
    ASSUME NEW a, NEW b, NEW c, NEW d
    PROVE  [[pc |-> a, ops |-> b, begun |-> c] EXCEPT !.pc = d] = [pc |-> d, ops |-> b, begun |-> c]
    OBVIOUS

\* A loop at the end of its item, and one that an item has failed.
LEMMA EndedAndFailed ==
    /\ [Loop EXCEPT !.pc = "end"] = [pc |-> "end", ops |-> <<>>, begun |-> FALSE]
    /\ [Idle EXCEPT !.pc = "failed"] = [pc |-> "failed", ops |-> <<>>, begun |-> FALSE]
    /\ [pc |-> "end", ops |-> <<>>, begun |-> FALSE] \in Worker
    /\ [pc |-> "failed", ops |-> <<>>, begun |-> FALSE] \in Worker
<1>1. [Loop EXCEPT !.pc = "end"] = [pc |-> "end", ops |-> <<>>, begun |-> FALSE]
    <2>1. PICK e, f : e = <<>> /\ f = FALSE
        OBVIOUS
    <2>2. Loop = [pc |-> "loop", ops |-> e, begun |-> f]
        BY <2>1 DEF Loop
    <2>3. [Loop EXCEPT !.pc = "end"] = [pc |-> "end", ops |-> e, begun |-> f]
        BY <2>2, RecordUpdate
    <2> QED
        BY <2>1, <2>3
<1>2. [Idle EXCEPT !.pc = "failed"] = [pc |-> "failed", ops |-> <<>>, begun |-> FALSE]
    <2>1. PICK e, f : e = <<>> /\ f = FALSE
        OBVIOUS
    <2>2. Idle = [pc |-> "done", ops |-> e, begun |-> f]
        BY <2>1 DEF Idle
    <2>3. [Idle EXCEPT !.pc = "failed"] = [pc |-> "failed", ops |-> e, begun |-> f]
        BY <2>2, RecordUpdate
    <2> QED
        BY <2>1, <2>3
<1>3. <<>> \in Seq(Ops)
    OBVIOUS
<1> HIDE DEF Ops
<1> QED
    BY <1>1, <1>2, <1>3 DEF Worker

LEMMA TakeIndexEffect ==
    ASSUME WorkTypes, StepTypes, StageInv, NEW w \in Pool, TakeIndex(w)
    PROVE  \E q \in Worker : WorkEffect(w, q)
<1>1. /\ pool[w].pc = "loop" /\ next' = next + 1 /\ finished' = finished
      /\ LeavesRunOne /\ NothingRecorded /\ okStarts' = okStarts
    BY DEF TakeIndex, LeavesRunOne, NothingRecorded, unchangedByWorker
<1>2. Recorded
    BY <1>1 DEF Recorded, NothingRecorded, WorkTypes
<1>3. CASE next >= size
    <2>1. pool' = [pool EXCEPT ![w] = Idle] /\ midpoint' = midpoint
        BY <1>3 DEF TakeIndex
    <2>2. Idle \in Worker /\ Equipped(Idle) /\ Idle.pc = "done"
        BY DEF Idle, Worker, Equipped
    <2>3. Returns(w, Idle)
        BY <1>1, <1>3, <2>1, <2>2 DEF Returns
    <2> QED
        BY <1>1, <1>2, <2>1, <2>2, <2>3 DEF WorkEffect
<1>4. CASE ~(next >= size)
    <2> DEFINE halfway == scenario = "receiver-disabled" /\ midpoint = 0 /\ next >= size \div 2
               skips(ops) == scenario = "mixed" /\ ops = <<"status">> /\ okStarts = 0
               item(ops) == IF skips(ops) THEN [Loop EXCEPT !.pc = "end"]
                            ELSE [pc |-> IF halfway THEN "midpoint" ELSE "send",
                                  ops |-> ops, begun |-> FALSE]
    <2>1. PICK ops \in Stages[stage] :
              /\ pool' = [pool EXCEPT ![w] = item(ops)]
              /\ midpoint' = midpoint + (IF halfway THEN 1 ELSE 0)
        BY <1>4 DEF TakeIndex
    <2>2. stage \in 1..Len(Stages)
        BY <1>1 DEF StageInv, AllDone
    <2>3. ops \in Programs
        BY <2>1, <2>2, ScenarioOfStep, StagesRight DEF StepTypes
    <2>4. item(ops) \in Worker /\ Equipped(item(ops)) /\ item(ops).pc \in {"midpoint", "send", "end"}
        <3>1. CASE skips(ops)
            BY <3>1, EndedAndFailed DEF Equipped
        <3>2. CASE ~skips(ops)
            <4>1. item(ops) = [pc |-> IF halfway THEN "midpoint" ELSE "send", ops |-> ops, begun |-> FALSE]
                BY <3>2
            <4> HIDE DEF item, halfway, skips
            <4> QED
                BY <2>3, <4>1 DEF Worker, Equipped, Programs
        <3> QED
            BY <3>1, <3>2
    <2>5. PICK q : q = item(ops)
        OBVIOUS
    <2>6. TakesItem(w, q)
        BY <1>1, <1>4, <2>1, <2>4, <2>5 DEF TakesItem, WorkTypes
    <2>7. pool' = [pool EXCEPT ![w] = q] /\ q \in Worker /\ Equipped(q)
        <3> HIDE DEF item
        <3> QED
            BY <2>1, <2>4, <2>5
    <2> QED
        BY <1>1, <1>2, <2>6, <2>7 DEF WorkEffect
<1> QED
    BY <1>3, <1>4

LEMMA DisableReceiverEffect ==
    ASSUME WorkTypes, NEW w \in Pool, DisableReceiver(w)
    PROVE  \E q \in Worker : WorkEffect(w, q)
<1> DEFINE q == [pool[w] EXCEPT !.pc = "send"]
<1>1. /\ pool[w].pc = "midpoint" /\ pool' = [pool EXCEPT ![w].pc = "send"]
      /\ next' = next /\ finished' = finished /\ midpoint' = midpoint
      /\ LeavesRunOne /\ NothingRecorded /\ okStarts' = okStarts
    BY DEF DisableReceiver, LeavesRunOne, NothingRecorded, unchangedByWorker
<1>2. pool \in [Pool -> Worker] /\ Equipped(pool[w])
    BY DEF WorkTypes
<1>3. q \in Worker /\ q.pc = "send" /\ q.ops = pool[w].ops
    BY <1>2 DEF Worker
<1>4. Equipped(q)
    BY <1>1, <1>2, <1>3 DEF Equipped
<1>5. pool' = [pool EXCEPT ![w] = q]
    BY <1>1, <1>2
<1>6. Recorded /\ GoesOn(w, q)
    <2> HIDE DEF q
    <2>1. \A op \in Ops, kind \in Bad : metrics[op][kind] \in Nat
        BY DEF WorkTypes, Ops, Kinds, Bad
    <2> QED
        BY <1>1, <1>3, <2>1 DEF Recorded, GoesOn, NothingRecorded, WorkTypes
<1> HIDE DEF q
<1> QED
    BY <1>1, <1>3, <1>4, <1>5, <1>6 DEF WorkEffect

\* An answer is counted under its operation and its kind.
LEMMA CountedAnswer ==
    ASSUME metrics \in [Ops -> [Kinds -> Nat]], NEW op \in Ops, NEW kind \in Kinds,
           metrics' = [metrics EXCEPT ![op][kind] = @ + 1]
    PROVE  /\ metrics' \in [Ops -> [Kinds -> Nat]]
           /\ metrics'[op][kind] > 0
           /\ \A o \in Ops, k \in Kinds : metrics'[o][k] >= metrics[o][k]
<1>1. \A o \in Ops, k \in Kinds :
          metrics'[o][k] = IF o = op /\ k = kind THEN metrics[o][k] + 1 ELSE metrics[o][k]
    <2> HIDE DEF Ops, Kinds
    <2> QED
        OBVIOUS
<1>2. metrics' \in [Ops -> [Kinds -> Nat]]
    <2> HIDE DEF Ops, Kinds
    <2> QED
        OBVIOUS
<1>3. \A o \in Ops, k \in Kinds : metrics[o][k] \in Nat
    <2> HIDE DEF Ops, Kinds
    <2> QED
        OBVIOUS
<1> HIDE DEF Ops, Kinds
<1> QED
    BY <1>1, <1>2, <1>3

LEMMA RequestEffect ==
    ASSUME WorkTypes, NEW w \in Pool, Request(w)
    PROVE  \E q \in Worker : WorkEffect(w, q)
<1>1. /\ pool[w].pc = "send"
      /\ next' = next /\ finished' = finished /\ midpoint' = midpoint /\ unhandled' = unhandled
      /\ LeavesRunOne
    BY DEF Request, LeavesRunOne, unchangedByWorker
<1>2. PICK kind \in Answers(pool[w].ops[1]) : Answered(w, kind)
    BY DEF Request
<1>3. kind \in Kinds
    BY <1>2 DEF Answers
<1>4. pool[w] \in Worker /\ pool[w].ops \in Seq(Ops) /\ pool[w].ops # <<>>
    BY <1>1 DEF WorkTypes, Worker, Equipped
<1>5. PICK op : op = pool[w].ops[1]
    OBVIOUS
<1>6. op \in Ops /\ Tail(pool[w].ops) \in Seq(Ops)
    <2> HIDE DEF Ops
    <2> QED
        BY <1>4, <1>5
<1>7. PICK rest : rest = IF op = "start" /\ kind # "ok" THEN <<>> ELSE Tail(pool[w].ops)
    OBVIOUS
<1>8. rest \in Seq(Ops)
    BY <1>6, <1>7
<1> DEFINE q == [pc |-> IF rest = <<>> THEN "end" ELSE "send", ops |-> rest, begun |-> TRUE]
<1>9. /\ metrics' = [metrics EXCEPT ![op][kind] = @ + 1]
      /\ okStarts' = okStarts + (IF stage = 1 /\ op = "start" /\ kind = "ok" THEN 1 ELSE 0)
      /\ seen' = seen \cup ({kind} \cap Bad)
      /\ pool' = [pool EXCEPT ![w] = q]
    BY <1>2, <1>5, <1>7 DEF Answered
<1>10. q \in Worker /\ Equipped(q) /\ q.pc \in {"end", "send"}
    BY <1>8 DEF Worker, Equipped
<1>11. /\ metrics' \in [Ops -> [Kinds -> Nat]]
       /\ metrics'[op][kind] > 0
       /\ \A o \in Ops, k \in Kinds : metrics'[o][k] >= metrics[o][k]
    BY <1>3, <1>6, <1>9, CountedAnswer DEF WorkTypes
<1>12. Recorded
    BY <1>1, <1>9, <1>11 DEF Recorded, WorkTypes
<1>13. seen' = seen \/ \E o \in Ops, k \in Bad : metrics'[o][k] > 0
    <2>1. CASE kind \in Bad
        BY <2>1, <1>6, <1>11
    <2>2. CASE kind \notin Bad
        BY <2>2, <1>9
    <2> QED
        BY <2>1, <2>2
<1>14. \A o \in Ops, k \in Bad : metrics'[o][k] >= metrics[o][k]
    BY <1>11 DEF Bad, Kinds
<1> HIDE DEF q
<1>15. GoesOn(w, q)
    BY <1>1, <1>10, <1>13, <1>14 DEF GoesOn, WorkTypes
<1> QED
    BY <1>1, <1>9, <1>10, <1>12, <1>15 DEF WorkEffect

LEMMA MismatchEffect ==
    ASSUME WorkTypes, NEW w \in Pool, Mismatch(w)
    PROVE  \E q \in Worker : WorkEffect(w, q)
<1> DEFINE counted == scenario \in FullFlowScenarios
<1>1. PICK q : q = IF counted THEN [Loop EXCEPT !.pc = "end"] ELSE [Idle EXCEPT !.pc = "failed"]
    OBVIOUS
<1>2. /\ pool[w].pc = "send" /\ pool' = [pool EXCEPT ![w] = q]
      /\ unhandled' = unhandled + (IF counted THEN 1 ELSE 0)
      /\ next' = next /\ finished' = finished /\ midpoint' = midpoint
      /\ metrics' = metrics /\ okStarts' = okStarts
      /\ LeavesRunOne
    BY <1>1 DEF Mismatch, LeavesRunOne, unchangedByWorker
<1>3. /\ q \in Worker /\ Equipped(q) /\ q.pc \in {"end", "failed"}
      /\ ~counted => q.pc = "failed"
    <2>1. CASE counted
        BY <1>1, <2>1, EndedAndFailed DEF Equipped
    <2>2. CASE ~counted
        BY <1>1, <2>2, EndedAndFailed DEF Equipped
    <2> QED
        BY <2>1, <2>2
<1>4. Recorded
    BY <1>2 DEF Recorded, WorkTypes
<1>5. \A o \in Ops, k \in Bad : metrics'[o][k] >= metrics[o][k]
    BY <1>2 DEF WorkTypes, Ops, Kinds, Bad
<1>6. unhandled' >= unhandled /\ (unhandled' > 0 \/ q.pc = "failed")
    BY <1>2, <1>3 DEF WorkTypes
<1>7. GoesOn(w, q)
    BY <1>2, <1>3, <1>5, <1>6 DEF GoesOn
<1> QED
    BY <1>2, <1>3, <1>4, <1>7 DEF WorkEffect

LEMMA EndItemEffect ==
    ASSUME WorkTypes, NEW w \in Pool, EndItem(w)
    PROVE  \E q \in Worker : WorkEffect(w, q)
<1>1. Loop \in Worker /\ Equipped(Loop) /\ Loop.pc = "loop"
    BY DEF Loop, Worker, Equipped
<1>2. pool' = [pool EXCEPT ![w] = Loop] /\ LeavesRunOne /\ NothingRecorded /\ okStarts' = okStarts
    BY DEF EndItem, LeavesRunOne, NothingRecorded, unchangedByWorker
<1>3. FinishesItem(w, Loop)
    BY <1>1, <1>2 DEF EndItem, FinishesItem
<1>4. Recorded
    BY <1>2 DEF Recorded, NothingRecorded, WorkTypes
<1> QED
    BY <1>1, <1>2, <1>3, <1>4 DEF WorkEffect

\* Every step of a loop is one of the four.
LEMMA WorkIsEffect ==
    ASSUME LoadInv, NEW w \in Pool, Work(w)
    PROVE  exit = None /\ \E q \in Worker : WorkEffect(w, q)
<1>1. WorkTypes /\ StepTypes /\ StageInv
    BY DEF LoadInv
<1> QED
    BY <1>1, TakeIndexEffect, DisableReceiverEffect, RequestEffect, MismatchEffect, EndItemEffect DEF Work

-----------------------------------------------------------------------------
(* A step of a loop keeps the invariant                                    *)

\* The scenario of the same step is the same.
LEMMA SameStep ==
    ASSUME UNCHANGED <<input, step>>
    PROVE  scenario' = scenario /\ Stages' = Stages
<1>1. scenario' = scenario
    BY DEF scenario
<1> QED
    BY <1>1 DEF Stages

\* Where a loop is at work, and what it makes of its record.
LEMMA AtWork ==
    ASSUME LoadInv, NEW w \in Pool, NEW q \in Worker, WorkEffect(w, q)
    PROVE  /\ pool[w].pc \in {"loop", "midpoint", "send", "end"}
           /\ ~AllDone
           /\ phase \in {"join", "evaluate", "cleanup", "collect"}
           /\ phase # "join" => unhandled > 0
           /\ pool' \in [Pool -> Worker] /\ pool'[w] = q
           /\ \A v \in Pool \ {w} : pool'[v] = pool[v]
           /\ unhandled' >= unhandled
           /\ UNCHANGED <<input, step, phase, failing, apps, leaked, results, safety, exit, stage, size, threw>>
<1>1. pool[w].pc \in {"loop", "midpoint", "send", "end"}
    BY DEF WorkEffect, Returns, TakesItem, GoesOn, FinishesItem
<1>2. ~AllDone
    BY <1>1 DEF AllDone
<1>3. DrainInv /\ pool \in [Pool -> Worker] /\ unhandled \in Nat
    BY DEF LoadInv, WorkTypes
<1>4. pool' = [pool EXCEPT ![w] = q] /\ LeavesRunOne
    BY DEF WorkEffect
<1>5. unhandled' >= unhandled
    BY <1>3 DEF WorkEffect, Returns, TakesItem, GoesOn, FinishesItem, NothingRecorded
<1>6. phase \in {"join", "evaluate", "cleanup", "collect"} /\ (phase # "join" => unhandled > 0)
    BY <1>2, <1>3 DEF DrainInv
<1>7. UNCHANGED <<input, step, phase, failing, apps, leaked, results, safety, exit, stage, size, threw>>
    BY <1>4 DEF LeavesRunOne
<1> HIDE DEF Worker
<1>8. /\ pool' \in [Pool -> Worker] /\ pool'[w] = q
      /\ \A v \in Pool \ {w} : pool'[v] = pool[v]
    BY <1>3, <1>4
<1> QED
    BY <1>1, <1>2, <1>5, <1>6, <1>7, <1>8

LEMMA WorkKeepsTypes ==
    ASSUME LoadInv, NEW w \in Pool, NEW q \in Worker, WorkEffect(w, q)
    PROVE  WorkTypes' /\ StepTypes' /\ StageInv' /\ DrainInv' /\ MidpointInv' /\ MeasuredInv'
<1>1. WorkTypes /\ StepTypes /\ StageInv /\ DrainInv /\ MidpointInv /\ MeasuredInv
    BY DEF LoadInv
<1>2. /\ ~AllDone /\ phase \in {"join", "evaluate", "cleanup", "collect"}
      /\ phase # "join" => unhandled > 0
      /\ pool' \in [Pool -> Worker] /\ pool'[w] = q
      /\ \A v \in Pool \ {w} : pool'[v] = pool[v]
      /\ unhandled' >= unhandled
      /\ UNCHANGED <<input, step, phase, failing, apps, leaked, results, safety, exit, stage, size, threw>>
    BY AtWork
<1>3. Equipped(q) /\ Recorded
    BY DEF WorkEffect
<1>4. scenario' = scenario /\ Stages' = Stages
    BY <1>2, SameStep
<1>5. WorkTypes'
    <2>1. stage' \in Nat /\ size' \in Nat /\ unhandled' \in Nat /\ okStarts' \in Nat
          /\ metrics' \in [Ops -> [Kinds -> Nat]]
        BY <1>1, <1>2, <1>3 DEF WorkTypes, Recorded
    <2>2. next' \in Nat /\ finished' \in Nat /\ midpoint' \in Nat
        BY <1>1 DEF WorkTypes, WorkEffect, Returns, TakesItem, GoesOn, FinishesItem
    <2>3. \A v \in Pool : Equipped(pool'[v])
        <3> SUFFICES ASSUME NEW v \in Pool PROVE Equipped(pool'[v])
            OBVIOUS
        <3>1. CASE v = w
            BY <1>2, <1>3, <3>1
        <3>2. CASE v # w
            BY <1>1, <1>2, <3>2 DEF WorkTypes
        <3> QED
            BY <3>1, <3>2
    <2>4. (\A v \in Pool : Equipped(pool[v]))'
        BY <2>3 DEF Equipped
    <2> HIDE DEF Worker
    <2> QED
        BY <1>2, <2>1, <2>2, <2>4 DEF WorkTypes
<1>6. StepTypes'
    BY <1>1, <1>2 DEF StepTypes
<1>7. StageInv' /\ DrainInv'
    BY <1>1, <1>2, <1>4, <1>5 DEF StageInv, DrainInv, WorkTypes
<1>8. MidpointInv'
    BY <1>2 DEF MidpointInv, Early
<1>9. MeasuredInv'
    BY <1>1, <1>2 DEF MeasuredInv, Measured
<1> QED
    BY <1>5, <1>6, <1>7, <1>8, <1>9

LEMMA WorkKeepsJoin ==
    ASSUME LoadInv, NEW w \in Pool, NEW q \in Worker, WorkEffect(w, q)
    PROVE  JoinInv'
<1> DEFINE busy == {"midpoint", "send", "end", "failed"}
<1>1. /\ pool[w].pc \in {"loop", "midpoint", "send", "end"}
      /\ pool' \in [Pool -> Worker] /\ pool'[w] = q
      /\ \A v \in Pool \ {w} : pool'[v] = pool[v]
      /\ UNCHANGED <<input, step, phase, size>>
    BY AtWork
<1>2. scenario' = scenario
    BY <1>1, SameStep
<1>3. /\ next \in Nat /\ size \in Nat /\ finished \in Nat /\ midpoint \in Nat /\ JoinInv
      /\ Total \in Nat \ {0}
    BY LoadTestAssumption DEF LoadInv, WorkTypes
<1>4. IsFiniteSet(Holding) /\ Cardinality(Holding) \in Nat
    <2>1. Holding \in SUBSET Pool
        BY DEF Holding
    <2>2. IsFiniteSet(Holding)
        BY <2>1, LoadTestAssumption, FS_Subset
    <2> QED
        BY <2>2, FS_CardinalityType
<1>5. /\ \A v \in Pool : v \in Holding <=> pool[v].pc \in busy
      /\ \A v \in Pool : v \in Holding' <=> pool'[v].pc \in busy
      /\ Holding \subseteq Pool /\ Holding' \subseteq Pool
    BY DEF Holding
<1> SUFFICES ASSUME phase' = "join"
             PROVE  /\ finished' + Cardinality(Holding') = Handed'
                    /\ AllDone' => next' > size'
                    /\ scenario' = "receiver-disabled" =>
                         /\ size' = Total
                         /\ midpoint' \in {0, 1}
                         /\ midpoint' = 0 => next' <= size' \div 2
    BY DEF JoinInv
<1>6. /\ finished + Cardinality(Holding) = Handed
      /\ scenario = "receiver-disabled" =>
             /\ size = Total
             /\ midpoint \in {0, 1}
             /\ midpoint = 0 => next <= size \div 2
    BY <1>1, <1>3 DEF JoinInv
<1>7. CASE Returns(w, q)
    <2>1. /\ w \notin Holding /\ q.pc = "done" /\ next >= size /\ next' = next + 1
          /\ finished' = finished /\ midpoint' = midpoint
        BY <1>5, <1>7 DEF Returns
    <2>2. Holding' = Holding
        BY <1>1, <1>5, <2>1
    <2>3. Handed' = Handed /\ next' > size'
        BY <1>1, <1>3, <2>1 DEF Handed
    <2>4. scenario = "receiver-disabled" => midpoint # 0
        BY <1>3, <1>6, <2>1
    <2> QED
        BY <1>1, <1>2, <1>6, <2>1, <2>2, <2>3, <2>4
<1>8. CASE TakesItem(w, q)
    <2>1. /\ w \notin Holding /\ q.pc \in {"midpoint", "send", "end"} /\ next < size /\ next' = next + 1
          /\ finished' = finished
          /\ midpoint' = midpoint + IF scenario = "receiver-disabled" /\ midpoint = 0 /\ next >= size \div 2
                                      THEN 1 ELSE 0
        BY <1>5, <1>8 DEF TakesItem
    <2>2. Holding' = Holding \cup {w}
        BY <1>1, <1>5, <2>1
    <2>3. Cardinality(Holding \cup {w}) = Cardinality(Holding) + 1
        BY <1>4, <2>1, FS_AddElement
    <2>4. Handed' = Handed + 1
        BY <1>1, <1>3, <2>1 DEF Handed
    <2>5. ~AllDone'
        BY <1>1, <2>1 DEF AllDone
    <2>6. scenario = "receiver-disabled" =>
             /\ midpoint' \in {0, 1}
             /\ midpoint' = 0 => next' <= size \div 2
        BY <1>3, <1>6, <2>1
    <2>7. finished' + Cardinality(Holding') = Handed'
        BY <1>3, <1>4, <1>6, <2>1, <2>2, <2>3, <2>4
    <2> QED
        BY <1>1, <1>2, <1>6, <2>5, <2>6, <2>7
<1>9. CASE GoesOn(w, q)
    <2>1. /\ w \in Holding /\ q.pc \in {"send", "end", "failed"} /\ next' = next
          /\ finished' = finished /\ midpoint' = midpoint
        BY <1>5, <1>9 DEF GoesOn
    <2>2. Holding' = Holding
        BY <1>1, <1>5, <2>1
    <2>3. ~AllDone'
        BY <1>1, <2>1 DEF AllDone
    <2>4. Handed' = Handed
        BY <1>1, <2>1 DEF Handed
    <2> QED
        BY <1>1, <1>2, <1>6, <2>1, <2>2, <2>3, <2>4
<1>10. CASE FinishesItem(w, q)
    <2>1. /\ w \in Holding /\ q.pc = "loop" /\ next' = next
          /\ finished' = finished + 1 /\ midpoint' = midpoint
        BY <1>5, <1>10 DEF FinishesItem
    <2>2. Holding' = Holding \ {w}
        BY <1>1, <1>5, <2>1
    <2>3. Cardinality(Holding \ {w}) = Cardinality(Holding) - 1
        BY <1>4, <2>1, FS_RemoveElement
    <2>4. ~AllDone'
        BY <1>1, <2>1 DEF AllDone
    <2>5. Handed' = Handed
        BY <1>1, <2>1 DEF Handed
    <2>6. finished' + Cardinality(Holding') = Handed'
        BY <1>3, <1>4, <1>6, <2>1, <2>2, <2>3, <2>5
    <2> QED
        BY <1>1, <1>2, <1>6, <2>1, <2>4, <2>6
<1> QED
    BY <1>7, <1>8, <1>9, <1>10 DEF WorkEffect

LEMMA WorkKeepsRecords ==
    ASSUME LoadInv, exit = None, NEW w \in Pool, NEW q \in Worker, WorkEffect(w, q)
    PROVE  FixtureInv' /\ ExitInv' /\ ResultInv' /\ SeenInv' /\ GreenInv'
<1>1. /\ pool[w].pc \in {"loop", "midpoint", "send", "end"}
      /\ phase \in {"join", "evaluate", "cleanup", "collect"}
      /\ phase # "join" => unhandled > 0
      /\ pool'[w] = q
      /\ \A v \in Pool \ {w} : pool'[v] = pool[v]
      /\ unhandled' >= unhandled
      /\ UNCHANGED <<input, step, phase, failing, apps, leaked, results, safety, exit, stage, size, threw>>
    BY AtWork
<1>2. /\ FixtureInv /\ ExitInv /\ ResultInv /\ SeenInv /\ GreenInv
      /\ unhandled \in Nat /\ metrics \in [Ops -> [Kinds -> Nat]]
    BY DEF LoadInv, WorkTypes
<1>3. FixtureInv' /\ ExitInv'
    BY <1>1, <1>2 DEF FixtureInv, ExitInv
<1>4. AllPass' = AllPass
    BY <1>1 DEF AllPass
<1>5. ResultInv'
    BY <1>1, <1>2, <1>4 DEF ResultInv
<1>6. GreenInv'
    BY <1>1, LoadTestAssumption DEF GreenInv
<1>7. \A op \in Ops, kind \in Bad : metrics[op][kind] \in Nat
    BY <1>2 DEF Ops, Kinds, Bad
<1>8. unhandled' \in Nat /\ \A op \in Ops, kind \in Bad : metrics'[op][kind] \in Nat
    BY DEF WorkEffect, Recorded, Ops, Kinds, Bad
<1>9. \A op \in Ops, kind \in Bad : metrics'[op][kind] >= metrics[op][kind]
    BY <1>7 DEF WorkEffect, Returns, TakesItem, GoesOn, FinishesItem, NothingRecorded
<1>10. Dirty => Dirty'
    <2>1. ASSUME NEW op \in Ops, NEW kind \in Bad, metrics[op][kind] > 0
          PROVE  Dirty'
        <3>1. metrics'[op][kind] > 0
            BY <1>7, <1>8, <1>9, <2>1
        <3> QED
            BY <2>1, <3>1 DEF Dirty
    <2>2. ASSUME unhandled > 0
          PROVE  Dirty'
        BY <1>1, <1>2, <1>8, <2>2 DEF Dirty
    <2>3. ASSUME phase = "join", NEW v \in Pool, pool[v].pc = "failed"
          PROVE  Dirty'
        BY <1>1, <2>3 DEF Dirty
    <2> QED
        BY <2>1, <2>2, <2>3 DEF Dirty
<1>11. seen' = seen \/ Dirty'
    <2>1. CASE GoesOn(w, q)
        <3>1. CASE q.pc = "failed" /\ phase = "join"
            BY <1>1, <3>1 DEF Dirty
        <3>2. CASE q.pc = "failed" /\ phase # "join"
            BY <1>1, <1>2, <1>8, <3>2 DEF Dirty
        <3>3. CASE q.pc # "failed"
            BY <2>1, <3>3 DEF GoesOn, Dirty
        <3> QED
            BY <3>1, <3>2, <3>3
    <2>2. CASE ~GoesOn(w, q)
        BY <2>2 DEF WorkEffect, Returns, TakesItem, FinishesItem, NothingRecorded
    <2> QED
        BY <2>1, <2>2
<1>12. SeenInv'
    <2> HIDE DEF Dirty
    <2> QED
        BY <1>1, <1>2, <1>4, <1>10, <1>11 DEF SeenInv
<1> QED
    BY <1>3, <1>5, <1>6, <1>12

LEMMA WorkKeeps ==
    ASSUME LoadInv, NEW w \in Pool, Work(w)
    PROVE  LoadInv'
<1>1. exit = None /\ \E q \in Worker : WorkEffect(w, q)
    BY WorkIsEffect
<1>2. PICK q \in Worker : WorkEffect(w, q)
    BY <1>1
<1> QED
    BY <1>1, <1>2, WorkKeepsTypes, WorkKeepsJoin, WorkKeepsRecords DEF LoadInv

-----------------------------------------------------------------------------
(* A step of runOne or runSuite keeps the invariant                        *)

\* The pool and the counters of the run.
keptVars == <<input, step, pool, stage, size, next, okStarts, midpoint, threw, metrics, unhandled, finished>>

LEMMA KeptRun ==
    ASSUME LoadInv, UNCHANGED keptVars
    PROVE  /\ WorkTypes' /\ scenario' = scenario /\ Stages' = Stages
           /\ AllDone' = AllDone /\ Measured' = Measured
           /\ stage' = stage /\ midpoint' = midpoint /\ unhandled' = unhandled
           /\ metrics' = metrics /\ threw' = threw /\ pool' = pool /\ input' = input /\ step' = step
<1>1. UNCHANGED <<input, step, pool, stage, size, next, okStarts, midpoint, threw, metrics, unhandled, finished>>
    BY DEF keptVars
<1>2. scenario' = scenario /\ Stages' = Stages
    BY <1>1, SameStep
<1>3. WorkTypes'
    <2>1. WorkTypes
        BY DEF LoadInv
    <2> QED
        BY <1>1, <2>1 DEF WorkTypes
<1>4. AllDone' = AllDone
    BY <1>1 DEF AllDone
<1>5. Measured' = Measured
    BY <1>1, <1>2, <1>4 DEF Measured
<1> QED
    BY <1>1, <1>2, <1>3, <1>4, <1>5

LEMMA PreflightKeeps ==
    ASSUME LoadInv, Preflight
    PROVE  LoadInv'
<1>1. /\ phase = "preflight" /\ phase' \in {"fixtures", "over"}
      /\ phase' = "fixtures" => exit' = exit
      /\ phase' = "over" => exit' \in {3, 5}
      /\ UNCHANGED keptVars
      /\ UNCHANGED <<failing, apps, leaked, results, safety, seen>>
    BY DEF Preflight, keptVars, runVars
<1>2. /\ WorkTypes' /\ AllDone' = AllDone /\ Stages' = Stages /\ midpoint' = midpoint
      /\ unhandled' = unhandled /\ metrics' = metrics /\ threw' = threw /\ pool' = pool
      /\ input' = input /\ step' = step
    BY <1>1, KeptRun
<1>3. /\ StepTypes /\ StageInv /\ DrainInv /\ MidpointInv /\ FixtureInv
      /\ ExitInv /\ ResultInv /\ SeenInv
    BY DEF LoadInv
<1>4. AllPass' = AllPass
    BY <1>1 DEF AllPass
<1>5. AllDone
    BY <1>1, <1>3 DEF DrainInv
<1>6. StepTypes'
    BY <1>1, <1>2, <1>3 DEF StepTypes, Phases
<1>7. StageInv' /\ DrainInv'
    BY <1>1, <1>2, <1>5 DEF StageInv, DrainInv
<1>8. JoinInv' /\ MeasuredInv'
    BY <1>1 DEF JoinInv, MeasuredInv
<1>9. MidpointInv' /\ FixtureInv' /\ ExitInv'
    BY <1>1, <1>2, <1>3 DEF MidpointInv, Early, FixtureInv, ExitInv
<1>10. ResultInv'
    BY <1>1, <1>2, <1>3, <1>4 DEF ResultInv
<1>11. SeenInv' /\ GreenInv'
    BY <1>1, <1>3, LoadTestAssumption DEF SeenInv, GreenInv, ExitInv
<1> QED
    BY <1>2, <1>6, <1>7, <1>8, <1>9, <1>10, <1>11 DEF LoadInv

\* The steps of runOne before and after the pool.
Fixing ==
    /\ UNCHANGED keptVars /\ UNCHANGED <<results, safety, seen, exit>>
    /\ phase \in {"fixtures", "probe", "seed", "evaluate", "cleanup"}
    /\ phase' \in {"probe", "seed", "run", "cleanup", "collect"}
    /\ failing' \in BOOLEAN
    /\ phase \notin {"evaluate", "cleanup"} /\ phase' \in {"cleanup", "collect"} => failing'
    /\ phase \in {"evaluate", "cleanup"} => (failing => failing') /\ phase' \in {"cleanup", "collect"}

LEMMA FixingKeeps ==
    ASSUME LoadInv, Fixing, FixtureInv'
    PROVE  LoadInv'
<1>1. UNCHANGED keptVars /\ UNCHANGED <<results, safety, seen, exit>>
    BY DEF Fixing
<1>2. /\ WorkTypes' /\ AllDone' = AllDone /\ Measured' = Measured /\ Stages' = Stages
      /\ midpoint' = midpoint /\ stage' = stage
      /\ unhandled' = unhandled /\ metrics' = metrics /\ threw' = threw /\ pool' = pool
      /\ input' = input /\ step' = step
    BY <1>1, KeptRun
<1>3. /\ StepTypes /\ StageInv /\ DrainInv /\ MidpointInv /\ MeasuredInv
      /\ ExitInv /\ ResultInv /\ SeenInv /\ GreenInv
    BY DEF LoadInv
<1>4. AllPass' = AllPass
    BY <1>1 DEF AllPass
<1>5. /\ phase \in {"fixtures", "probe", "seed", "evaluate", "cleanup"}
      /\ phase' \in {"probe", "seed", "run", "cleanup", "collect"}
      /\ failing' \in BOOLEAN
      /\ phase \notin {"evaluate", "cleanup"} /\ phase' \in {"cleanup", "collect"} => failing'
      /\ phase \in {"evaluate", "cleanup"} => (failing => failing') /\ phase' \in {"cleanup", "collect"}
    BY DEF Fixing
<1>6. StepTypes'
    BY <1>1, <1>2, <1>3, <1>5 DEF StepTypes, Phases
<1>7. StageInv' /\ DrainInv'
    BY <1>2, <1>3, <1>5 DEF StageInv, DrainInv
<1>8. JoinInv' /\ MidpointInv' /\ MeasuredInv' /\ ExitInv'
    BY <1>1, <1>2, <1>3, <1>5 DEF JoinInv, MidpointInv, Early, MeasuredInv, ExitInv
<1>9. ResultInv'
    BY <1>1, <1>2, <1>3, <1>4, <1>5 DEF ResultInv
<1>10. Dirty => Dirty'
    BY <1>2, <1>5 DEF Dirty
<1>11. SeenInv'
    <2> HIDE DEF Dirty
    <2> QED
        BY <1>1, <1>2, <1>3, <1>4, <1>5, <1>10 DEF SeenInv
<1>12. GreenInv'
    BY <1>1, <1>3, <1>5, LoadTestAssumption DEF GreenInv, ExitInv
<1> QED
    BY <1>2, <1>6, <1>7, <1>8, <1>9, <1>11, <1>12 DEF LoadInv

LEMMA LoadFixturesKeeps ==
    ASSUME LoadInv, LoadFixtures
    PROVE  LoadInv'
<1>1. FixtureInv /\ failing \in BOOLEAN
    BY DEF LoadInv, StepTypes
<1>2. phase = "fixtures" /\ UNCHANGED keptVars /\ UNCHANGED <<results, safety, seen, exit>>
    BY DEF LoadFixtures, keptVars, runVars
<1>3. apps \subseteq leaked
    BY <1>1, <1>2 DEF FixtureInv
<1>4. CASE /\ Goto("probe")
           /\ apps' = IF input.byo THEN apps ELSE apps \cup {step}
           /\ UNCHANGED leaked
    <2>1. Fixing
        BY <1>1, <1>2, <1>4 DEF Fixing, Goto
    <2>2. FixtureInv'
        BY <1>2, <1>3, <1>4 DEF FixtureInv, Goto, keptVars
    <2> QED
        BY <2>1, <2>2, FixingKeeps
<1>5. CASE /\ Throw("collect")
           /\ \E made \in IF input.byo THEN {{}} ELSE {{}, {step}} :
                 apps' = apps \cup made /\ leaked' = leaked \cup made
    <2>1. Fixing
        BY <1>2, <1>5 DEF Fixing, Throw
    <2>2. FixtureInv'
        BY <1>3, <1>5 DEF FixtureInv, Throw
    <2> QED
        BY <2>1, <2>2, FixingKeeps
<1> QED
    BY <1>4, <1>5 DEF LoadFixtures

LEMMA ProbeAndSeedKeep ==
    ASSUME LoadInv, Probe \/ SeedBindings
    PROVE  LoadInv'
<1>1. FixtureInv /\ failing \in BOOLEAN
    BY DEF LoadInv, StepTypes
<1>2. /\ phase \in {"probe", "seed"}
      /\ UNCHANGED keptVars /\ UNCHANGED <<apps, leaked, results, safety, seen, exit>>
    BY DEF Probe, SeedBindings, keptVars, runVars
<1>3. Goto("seed") \/ Goto("run") \/ Throw("cleanup")
    BY DEF Probe, SeedBindings
<1>4. Fixing
    BY <1>1, <1>2, <1>3 DEF Fixing, Goto, Throw
<1>5. FixtureInv'
    BY <1>1, <1>2, <1>3 DEF FixtureInv, Goto, Throw, keptVars
<1> QED
    BY <1>4, <1>5, FixingKeeps

LEMMA CleanupKeeps ==
    ASSUME LoadInv, Cleanup
    PROVE  LoadInv'
<1>1. FixtureInv /\ failing \in BOOLEAN
    BY DEF LoadInv, StepTypes
<1>2. /\ phase = "cleanup" /\ Goto("collect")
      /\ \/ apps' = apps \ {step} /\ leaked' = leaked
         \/ leaked' = leaked \cup {step} /\ apps' = apps
      /\ UNCHANGED keptVars /\ UNCHANGED <<results, safety, seen, exit>>
    BY DEF Cleanup, keptVars, runVars
<1>3. Fixing
    BY <1>1, <1>2 DEF Fixing, Goto
<1>4. FixtureInv'
    BY <1>1, <1>2 DEF FixtureInv, Goto, keptVars
<1> QED
    BY <1>3, <1>4, FixingKeeps

LEMMA JudgeKeeps ==
    ASSUME LoadInv, Judge
    PROVE  LoadInv'
<1>1. FixtureInv /\ failing \in BOOLEAN
    BY DEF LoadInv, StepTypes
<1>2. /\ phase = "evaluate" /\ (Goto("cleanup") \/ Throw("cleanup"))
      /\ UNCHANGED keptVars /\ UNCHANGED <<apps, leaked, results, safety, seen, exit>>
    BY DEF Judge, keptVars
<1>3. Fixing
    BY <1>1, <1>2 DEF Fixing, Goto, Throw
<1>4. FixtureInv'
    BY <1>1, <1>2 DEF FixtureInv, Goto, Throw, keptVars
<1> QED
    BY <1>3, <1>4, FixingKeeps

\* A pool that starts: no index is handed out yet.
LEMMA StartedPool ==
    ASSUME LoadInv, NEW n \in Nat, n \in 1..Len(Stages), RunPoolOf(n),
           phase \in {"run", "join"}, phase' = "join", AllDone,
           scenario = "receiver-disabled" => midpoint = 0,
           UNCHANGED <<input, step, failing, apps, leaked, results, safety, seen, exit,
                       okStarts, midpoint, threw, metrics, unhandled>>
    PROVE  LoadInv'
<1>1. /\ WorkTypes /\ StepTypes /\ FixtureInv /\ ExitInv /\ ResultInv /\ SeenInv
    BY DEF LoadInv
<1>2. PoolStarts(n) /\ (scenario = "receiver-disabled" => PoolSize(n) = Total)
    BY <1>1, RunPoolStarts, PoolSizeRight DEF WorkTypes
<1>3. scenario' = scenario /\ Stages' = Stages
    BY SameStep
<1>4. /\ pool' \in [Pool -> Worker] /\ stage' = n /\ size' \in Nat /\ next' = 0 /\ finished' = 0
      /\ size' = PoolSize(n)
      /\ \A w \in Pool : pool'[w].pc \in {"done", "loop"}
      /\ \E w \in Pool : pool'[w].pc = "loop"
    BY <1>2 DEF PoolStarts
<1>5. WorkTypes'
    <2>1. (\A w \in Pool : Equipped(pool[w]))'
        BY <1>4 DEF Equipped
    <2> HIDE DEF Worker
    <2> QED
        BY <1>1, <1>4, <2>1 DEF WorkTypes
<1>6. StepTypes'
    BY <1>1 DEF StepTypes, Phases
<1>7. ~AllDone' /\ StageInv' /\ DrainInv'
    BY <1>3, <1>4 DEF AllDone, StageInv, DrainInv
<1>8. JoinInv'
    <2>1. Holding' = {}
        BY <1>4 DEF Holding
    <2>2. Cardinality({}) = 0
        BY FS_EmptySet
    <2>3. Handed' = 0
        BY <1>4 DEF Handed
    <2>4. finished' + Cardinality(Holding') = Handed'
        BY <1>4, <2>1, <2>2, <2>3
    <2>5. scenario' = "receiver-disabled" =>
             /\ size' = Total
             /\ midpoint' \in {0, 1}
             /\ midpoint' = 0 => next' <= size' \div 2
        BY <1>2, <1>3, <1>4
    <2> QED
        BY <1>7, <2>4, <2>5 DEF JoinInv
<1>9. MidpointInv' /\ MeasuredInv' /\ FixtureInv' /\ ExitInv'
    BY <1>1 DEF MidpointInv, Early, MeasuredInv, FixtureInv, ExitInv
<1>10. AllPass' = AllPass
    BY DEF AllPass
<1>11. ResultInv'
    BY <1>1, <1>10 DEF ResultInv
<1>12. Dirty => Dirty'
    BY DEF Dirty, AllDone
<1>13. SeenInv'
    <2> HIDE DEF Dirty
    <2> QED
        BY <1>1, <1>10, <1>12 DEF SeenInv
<1>14. GreenInv'
    BY <1>1, LoadTestAssumption DEF GreenInv, ExitInv
<1> QED
    BY <1>5, <1>6, <1>7, <1>8, <1>9, <1>11, <1>13, <1>14 DEF LoadInv

LEMMA RunScenarioKeeps ==
    ASSUME LoadInv, RunScenario
    PROVE  LoadInv'
<1>1. /\ phase = "run" /\ phase' = "join" /\ failing' = failing /\ RunPoolOf(1)
      /\ UNCHANGED <<input, step, apps, leaked, results, safety, seen, exit,
                     okStarts, midpoint, threw, metrics, unhandled>>
    BY DEF RunScenario, Goto
<1>2. StepTypes /\ DrainInv /\ MidpointInv
    BY DEF LoadInv
<1>3. AllDone /\ midpoint = 0
    BY <1>1, <1>2 DEF DrainInv, MidpointInv, Early
<1>4. 1 \in 1..Len(Stages)
    <2>1. Len(Stages) \in {1, 2}
        BY <1>2, ScenarioOfStep, StagesRight DEF StepTypes
    <2>2. PICK k : k = Len(Stages)
        OBVIOUS
    <2>3. 1 \in 1..k
        BY <2>1, <2>2
    <2> QED
        BY <2>2, <2>3
<1> QED
    BY <1>1, <1>3, <1>4, StartedPool

\* The last Promise.all: what runOne goes on with was measured, or failed.
LEMMA PoolLeft ==
    ASSUME LoadInv, phase = "join", phase' = "evaluate",
           \/ AllDone /\ stage = Len(Stages) /\ threw' = threw /\ unhandled' = unhandled
           \/ ~AllDone /\ threw' = TRUE /\ unhandled' = unhandled + 1,
           UNCHANGED <<input, step, failing, apps, leaked, results, safety, seen, exit,
                       okStarts, midpoint, metrics, stage, size, next, finished, pool>>
    PROVE  LoadInv'
<1>1. /\ WorkTypes /\ StepTypes /\ StageInv /\ JoinInv /\ FixtureInv /\ ExitInv /\ ResultInv /\ SeenInv
    BY DEF LoadInv
<1>2. scenario' = scenario /\ Stages' = Stages
    BY SameStep
<1>3. AllDone' = AllDone
    BY DEF AllDone
<1>4. unhandled \in Nat /\ unhandled' \in Nat /\ unhandled' >= unhandled /\ (~AllDone => unhandled' > 0)
    BY <1>1 DEF WorkTypes
<1>5. WorkTypes' /\ StepTypes'
    BY <1>1, <1>4 DEF WorkTypes, StepTypes, Phases
<1>6. StageInv' /\ DrainInv' /\ JoinInv' /\ MidpointInv'
    BY <1>1, <1>2, <1>3, <1>4 DEF StageInv, DrainInv, JoinInv, MidpointInv, Early
<1>7. AllDone => Measured
    <2> SUFFICES ASSUME AllDone PROVE Measured
        OBVIOUS
    <2>1. Holding = {}
        BY DEF Holding, AllDone
    <2>2. Cardinality(Holding) = 0
        BY <2>1, FS_EmptySet
    <2>3. /\ finished + Cardinality(Holding) = Handed /\ next > size
          /\ scenario = "receiver-disabled" =>
               /\ size = Total
               /\ midpoint \in {0, 1}
               /\ midpoint = 0 => next <= size \div 2
        BY <1>1 DEF JoinInv
    <2>4. next \in Nat /\ size \in Nat /\ finished \in Nat /\ Total \in Nat \ {0}
        BY <1>1, LoadTestAssumption DEF WorkTypes
    <2>5. finished = size
        BY <2>2, <2>3, <2>4 DEF Handed
    <2>6. scenario = "receiver-disabled" => midpoint = 1
        BY <2>3, <2>4
    <2> QED
        BY <2>5, <2>6 DEF Measured
<1>8. MeasuredInv'
    <2>1. Measured' = Measured
        BY <1>2, <1>3 DEF Measured
    <2> QED
        BY <1>7, <2>1 DEF MeasuredInv
<1>9. FixtureInv' /\ ExitInv'
    BY <1>1 DEF FixtureInv, ExitInv
<1>10. AllPass' = AllPass
    BY DEF AllPass
<1>11. ResultInv'
    BY <1>1, <1>10 DEF ResultInv
<1>12. Dirty => Dirty'
    BY <1>4 DEF Dirty, AllDone
<1>13. SeenInv'
    <2> HIDE DEF Dirty
    <2> QED
        BY <1>1, <1>10, <1>12 DEF SeenInv
<1>14. GreenInv'
    BY <1>1, LoadTestAssumption DEF GreenInv, ExitInv
<1> QED
    BY <1>5, <1>6, <1>8, <1>9, <1>11, <1>13, <1>14 DEF LoadInv

LEMMA JoinKeeps ==
    ASSUME LoadInv, Join
    PROVE  LoadInv'
<1>1. /\ phase = "join"
      /\ UNCHANGED <<input, step, apps, leaked, results, safety, seen, exit, okStarts, midpoint, metrics>>
    BY DEF Join
<1>2. WorkTypes /\ StepTypes /\ StageInv
    BY DEF LoadInv
<1>3. /\ stage \in 1..Len(Stages) /\ Len(Stages) \in {1, 2}
      /\ scenario \in FullFlowScenarios => Len(Stages) = 1
    BY <1>1, <1>2, ScenarioOfStep, StagesRight DEF StepTypes, StageInv
<1>4. CASE AllDone /\ UNCHANGED <<threw, unhandled>> /\ stage < Len(Stages)
           /\ RunPoolOf(stage + 1) /\ Goto("join")
    <2>1. scenario # "receiver-disabled"
        <3>1. PICK k : k = Len(Stages)
            OBVIOUS
        <3>2. k # 1
            BY <1>3, <1>4, <3>1
        <3>3. "receiver-disabled" \in FullFlowScenarios
            BY DEF FullFlowScenarios
        <3> QED
            BY <1>3, <3>1, <3>2, <3>3
    <2>2. stage + 1 \in Nat /\ stage + 1 \in 1..Len(Stages)
        BY <1>3, <1>4
    <2> QED
        BY <1>1, <1>4, <2>1, <2>2, StartedPool DEF Goto
<1>5. CASE AllDone /\ UNCHANGED <<threw, unhandled>> /\ ~(stage < Len(Stages))
           /\ Goto("evaluate") /\ UNCHANGED <<stage, size, next, finished, pool>>
    <2>1. stage = Len(Stages)
        BY <1>3, <1>5
    <2> QED
        BY <1>1, <1>5, <2>1, PoolLeft DEF Goto
<1>6. CASE /\ \E w \in Pool : pool[w].pc = "failed"
           /\ threw' = TRUE
           /\ unhandled' = unhandled + 1
           /\ Goto("evaluate")
           /\ UNCHANGED <<stage, size, next, finished, pool>>
    <2>1. ~AllDone
        BY <1>6 DEF AllDone
    <2> QED
        BY <1>1, <1>6, <2>1, PoolLeft DEF Goto
<1> QED
    BY <1>4, <1>5, <1>6 DEF Join, AllDone

\* Appending a result, and the skipped ones after it.
LEMMA AppendedResult ==
    ASSUME NEW rs \in Seq(Result), NEW r \in Result
    PROVE  /\ Append(rs, r) \in Seq(Result) /\ Len(Append(rs, r)) = Len(rs) + 1
           /\ \A i \in 1..Len(rs) : Append(rs, r)[i] = rs[i]
           /\ Append(rs, r)[Len(rs) + 1] = r
<1> HIDE DEF Result
<1> QED
    OBVIOUS

LEMMA SkippedResults ==
    ASSUME NEW rs \in Seq(Result), NEW t \in Seq(Result)
    PROVE  /\ rs \o t \in Seq(Result) /\ Len(rs \o t) = Len(rs) + Len(t)
           /\ \A i \in 1..Len(rs) : (rs \o t)[i] = rs[i]
           /\ \A i \in Len(rs) + 1..Len(rs) + Len(t) : (rs \o t)[i] = t[i - Len(rs)]
<1> HIDE DEF Result
<1> QED
    OBVIOUS

LEMMA StepResultRight ==
    ASSUME StepTypes
    PROVE  /\ StepResult \in Result
           /\ StepResult.pass = Passed
           /\ StepResult.pass => StepResult.ranTo = "completed"
           /\ failing => ~StepResult.pass
<1>1. scenario \in Scenarios
    BY ScenarioOfStep DEF StepTypes
<1>2. Passed \in BOOLEAN /\ (Passed => ~failing)
    BY DEF Passed
<1> DEFINE to == IF failing THEN "errored" ELSE "completed"
<1>3. to \in {"completed", "errored", "skipped"} /\ (~failing => to = "completed")
    OBVIOUS
<1>4. StepResult = [scenario |-> scenario, pass |-> Passed, ranTo |-> to]
    BY DEF StepResult
<1> HIDE DEF to, Scenarios, Passed
<1>5. StepResult \in Result /\ StepResult.pass = Passed /\ StepResult.ranTo = to
    BY <1>1, <1>2, <1>3, <1>4 DEF Result
<1> QED
    BY <1>2, <1>3, <1>5

LEMMA SkippedRight ==
    ASSUME StepTypes
    PROVE  /\ Skipped \in Seq(Result) /\ Len(Skipped) = Len(input.plan) - step
           /\ \A i \in 1..Len(Skipped) : ~Skipped[i].pass
<1>1. input.plan \in Seq(Scenarios) /\ step \in 1..Len(input.plan) /\ Len(input.plan) \in Nat
    BY PlansRight DEF StepTypes
<1>2. PICK n : n = Len(input.plan) - step
    OBVIOUS
<1>3. n \in Nat
    BY <1>1, <1>2
<1> DEFINE entry(j) == [scenario |-> input.plan[step + j], pass |-> FALSE, ranTo |-> "skipped"]
<1>4. Skipped = [j \in 1..n |-> entry(j)]
    BY <1>2 DEF Skipped
<1>5. \A j \in 1..n : entry(j) \in Result /\ ~entry(j).pass
    <2> SUFFICES ASSUME NEW j \in 1..n PROVE entry(j) \in Result /\ ~entry(j).pass
        OBVIOUS
    <2>1. step + j \in 1..Len(input.plan)
        BY <1>1, <1>2, <1>3
    <2> HIDE DEF Scenarios
    <2>2. input.plan[step + j] \in Scenarios
        BY <1>1, <2>1
    <2> QED
        BY <2>2 DEF Result
<1> HIDE DEF entry, Result
<1>6. Skipped \in Seq(Result) /\ Len(Skipped) = n
    BY <1>3, <1>4, <1>5
<1> QED
    BY <1>2, <1>4, <1>5, <1>6

\* hardSafety: what it adds up never goes back to nothing.
Totals == [unhandled : Nat, err5xx : Nat, lost : Nat]
Harm(s) == s.unhandled > 0 \/ s.err5xx > 0 \/ s.lost > 0

LEMMA HarmShows ==
    ASSUME NEW s \in Totals
    PROVE  s # NoHarm <=> Harm(s)
<1>1. /\ s.unhandled \in Nat /\ s.err5xx \in Nat /\ s.lost \in Nat
      /\ s = [unhandled |-> s.unhandled, err5xx |-> s.err5xx, lost |-> s.lost]
    BY DEF Totals
<1>2. NoHarm.unhandled = 0 /\ NoHarm.err5xx = 0 /\ NoHarm.lost = 0
    BY DEF NoHarm
<1>3. s = NoHarm => ~Harm(s)
    BY <1>2 DEF Harm
<1>4. ~Harm(s) => s = NoHarm
    <2> SUFFICES ASSUME ~Harm(s) PROVE s = NoHarm
        OBVIOUS
    <2>1. s.unhandled = 0 /\ s.err5xx = 0 /\ s.lost = 0
        BY <1>1 DEF Harm
    <2> QED
        BY <1>1, <2>1 DEF NoHarm
<1> QED
    BY <1>3, <1>4

LEMMA SafetyAdds ==
    ASSUME WorkTypes, safety \in Totals
    PROVE  /\ AddToSafety \in Totals
           /\ Harm(safety) => Harm(AddToSafety)
           /\ unhandled > 0 => Harm(AddToSafety)
           /\ \A op \in Ops, kind \in Bad : metrics[op][kind] > 0 => Harm(AddToSafety)
<1>1. /\ metrics["start"]["5xx"] \in Nat /\ metrics["inbound"]["5xx"] \in Nat
      /\ metrics["status"]["5xx"] \in Nat /\ metrics["start"]["lost"] \in Nat
      /\ metrics["inbound"]["lost"] \in Nat /\ metrics["status"]["lost"] \in Nat
      /\ unhandled \in Nat
    BY DEF WorkTypes, Ops, Kinds
<1>2. PICK e, l : e = OverOps("5xx") /\ l = OverOps("lost")
    OBVIOUS
<1>3. /\ e \in Nat /\ l \in Nat
      /\ \A op \in Ops, kind \in Bad : metrics[op][kind] > 0 => e > 0 \/ l > 0
    <2>1. PICK a1, a2, a3, b1, b2, b3 :
              /\ a1 = metrics["start"]["5xx"] /\ a2 = metrics["inbound"]["5xx"] /\ a3 = metrics["status"]["5xx"]
              /\ b1 = metrics["start"]["lost"] /\ b2 = metrics["inbound"]["lost"] /\ b3 = metrics["status"]["lost"]
        OBVIOUS
    <2>2. e = a1 + a2 + a3 /\ l = b1 + b2 + b3
        BY <1>2, <2>1 DEF OverOps
    <2>3. /\ e \in Nat /\ l \in Nat
          /\ a1 > 0 \/ a2 > 0 \/ a3 > 0 => e > 0
          /\ b1 > 0 \/ b2 > 0 \/ b3 > 0 => l > 0
        <3>1. a1 \in Nat /\ a2 \in Nat /\ a3 \in Nat /\ b1 \in Nat /\ b2 \in Nat /\ b3 \in Nat
            BY <1>1, <2>1
        <3> QED
            BY <2>2, <3>1
    <2>4. ASSUME NEW op \in Ops, NEW kind \in Bad, metrics[op][kind] > 0
          PROVE  e > 0 \/ l > 0
        <3>1. op \in {"start", "inbound", "status"} /\ kind \in {"5xx", "lost"}
            BY DEF Ops, Bad
        <3> QED
            BY <2>1, <2>3, <2>4, <3>1
    <2> QED
        BY <2>3, <2>4
<1>4. AddToSafety = [unhandled |-> safety.unhandled + unhandled, err5xx |-> safety.err5xx + e,
                     lost |-> safety.lost + l]
    BY <1>2 DEF AddToSafety
<1>5. safety.unhandled \in Nat /\ safety.err5xx \in Nat /\ safety.lost \in Nat
    BY DEF Totals
<1>6. PICK s : s = AddToSafety
    OBVIOUS
<1>7. /\ s \in Totals
      /\ s.unhandled = safety.unhandled + unhandled /\ s.err5xx = safety.err5xx + e /\ s.lost = safety.lost + l
    BY <1>1, <1>3, <1>4, <1>5, <1>6 DEF Totals
<1>8. /\ Harm(safety) => Harm(s)
      /\ unhandled > 0 => Harm(s)
      /\ e > 0 \/ l > 0 => Harm(s)
    BY <1>1, <1>3, <1>5, <1>7 DEF Harm
<1> QED
    BY <1>3, <1>6, <1>7, <1>8

\* A step is left: its loops belong to nobody, and the next one starts afresh.
StepLeft ==
    /\ phase = "collect" /\ phase' \in {"fixtures", "verdict", "over"}
    /\ pool' = [w \in Pool |-> Idle] /\ failing' = FALSE
    /\ UNCHANGED <<input, apps, leaked, seen>>
    /\ \/ phase' = "fixtures" /\ FreshRun /\ step' = step + 1 /\ MoreSteps
       \/ phase' # "fixtures" /\ UNCHANGED <<step, runVars>>
    /\ safety' \in Totals /\ results' \in Seq(Result)

LEMMA StepLeftKeeps ==
    ASSUME LoadInv, StepLeft
    PROVE  /\ WorkTypes' /\ StepTypes' /\ StageInv' /\ DrainInv' /\ JoinInv' /\ MidpointInv'
           /\ MeasuredInv' /\ FixtureInv'
<1>1. WorkTypes /\ StepTypes /\ FixtureInv
    BY DEF LoadInv
<1>2. /\ phase = "collect" /\ phase' \in {"fixtures", "verdict", "over"}
      /\ pool' = [w \in Pool |-> Idle] /\ failing' = FALSE
      /\ UNCHANGED <<input, apps, leaked, seen>>
      /\ safety' \in Totals /\ results' \in Seq(Result)
    BY DEF StepLeft
<1>3. Idle \in Worker /\ Idle.pc = "done" /\ Equipped(Idle)
    BY DEF Idle, Worker, Equipped
<1>4. pool' \in [Pool -> Worker] /\ \A w \in Pool : pool'[w] = Idle
    <2> HIDE DEF Worker
    <2> QED
        BY <1>2, <1>3
<1>5. AllDone'
    BY <1>3, <1>4 DEF AllDone
<1>6. (\A w \in Pool : Equipped(pool[w]))'
    BY <1>3, <1>4 DEF Equipped
<1>7. CASE phase' = "fixtures" /\ FreshRun /\ step' = step + 1 /\ MoreSteps
    <2>1. /\ stage' = 0 /\ size' = 0 /\ next' = 0 /\ finished' = 0 /\ okStarts' = 0 /\ midpoint' = 0
          /\ threw' = FALSE /\ metrics' = NoMetrics /\ unhandled' = 0
        BY <1>7 DEF FreshRun
    <2>2. NoMetrics \in [Ops -> [Kinds -> Nat]]
        BY DEF NoMetrics
    <2>3. WorkTypes'
        <3> HIDE DEF Worker, Ops, Kinds
        <3> QED
            BY <1>4, <1>6, <2>1, <2>2 DEF WorkTypes
    <2>4. step' \in 1..Len(input.plan)
        <3>1. step \in 1..Len(input.plan) /\ Len(input.plan) \in Nat /\ step < Len(input.plan)
            BY <1>1, <1>7, PlansRight DEF StepTypes, MoreSteps
        <3> QED
            BY <1>7, <3>1
    <2>5. StepTypes'
        BY <1>1, <1>2, <1>7, <2>1, <2>4 DEF StepTypes, Phases, Totals
    <2> QED
        BY <1>1, <1>2, <1>5, <1>7, <2>1, <2>3, <2>5
           DEF StageInv, DrainInv, JoinInv, MidpointInv, Early, MeasuredInv, FixtureInv
<1>8. CASE phase' # "fixtures" /\ UNCHANGED <<step, runVars>>
    <2>1. /\ step' = step /\ phase' \in {"verdict", "over"}
          /\ UNCHANGED <<stage, size, next, okStarts, midpoint, threw, metrics, unhandled, finished>>
        BY <1>2, <1>8 DEF runVars
    <2>2. WorkTypes'
        <3> HIDE DEF Worker
        <3> QED
            BY <1>1, <1>4, <1>6, <2>1 DEF WorkTypes
    <2>3. StepTypes'
        BY <1>1, <1>2, <2>1 DEF StepTypes, Phases, Totals
    <2> QED
        BY <1>1, <1>2, <1>5, <2>1, <2>2, <2>3
           DEF StageInv, DrainInv, JoinInv, MidpointInv, Early, MeasuredInv, FixtureInv
<1> QED
    BY <1>7, <1>8 DEF StepLeft

\* One more result: the earlier ones stay, and the new one is honest.
LEMMA OneMoreResult ==
    ASSUME LoadInv, phase = "collect", NEW rs, rs = Append(results, StepResult)
    PROVE  /\ rs \in Seq(Result) /\ Len(rs) = step
           /\ \A i \in 1..Len(rs) : rs[i].pass => rs[i].ranTo = "completed"
           /\ (\A i \in 1..Len(rs) : rs[i].pass) <=> AllPass /\ Passed
<1>1. StepTypes /\ ResultInv
    BY DEF LoadInv
<1>2. /\ StepResult \in Result /\ StepResult.pass = Passed
      /\ StepResult.pass => StepResult.ranTo = "completed"
    BY <1>1, StepResultRight
<1>3. results \in Seq(Result) /\ Len(results) = step - 1 /\ step \in Nat /\ Len(results) \in Nat
    BY <1>1 DEF StepTypes, ResultInv
<1>4. PICK r : r = StepResult
    OBVIOUS
<1>5. /\ rs \in Seq(Result) /\ Len(rs) = Len(results) + 1
      /\ \A i \in 1..Len(results) : rs[i] = results[i]
      /\ rs[Len(results) + 1] = r
    BY <1>2, <1>3, <1>4, AppendedResult
<1>6. \A i \in 1..Len(rs) : i \in 1..Len(results) \/ i = Len(results) + 1
    BY <1>3, <1>5
<1>7. \A i \in 1..Len(rs) : rs[i].pass => rs[i].ranTo = "completed"
    BY <1>1, <1>2, <1>4, <1>5, <1>6 DEF ResultInv
<1>8. (\A i \in 1..Len(rs) : rs[i].pass) => AllPass /\ Passed
    <2> SUFFICES ASSUME \A i \in 1..Len(rs) : rs[i].pass PROVE AllPass /\ Passed
        OBVIOUS
    <2>1. \A i \in 1..Len(results) : i \in 1..Len(rs)
        BY <1>3, <1>5
    <2>2. AllPass
        BY <1>5, <2>1 DEF AllPass
    <2>3. Len(results) + 1 \in 1..Len(rs)
        BY <1>3, <1>5
    <2> QED
        BY <1>2, <1>4, <1>5, <2>2, <2>3
<1>9. AllPass /\ Passed => \A i \in 1..Len(rs) : rs[i].pass
    BY <1>2, <1>4, <1>5, <1>6 DEF AllPass
<1> QED
    BY <1>3, <1>5, <1>7, <1>8, <1>9

\* addToSafety and the step's result together remember what was seen.
LEMMA SeenIsKept ==
    ASSUME LoadInv, phase = "collect", input.mode = "suite", seen # {},
           NEW s, s = IF failing THEN safety ELSE AddToSafety
    PROVE  s \in Totals /\ (s # NoHarm \/ ~AllPass \/ ~Passed)
<1>1. WorkTypes /\ StepTypes /\ SeenInv
    BY DEF LoadInv
<1>2. safety \in Totals
    BY <1>1 DEF StepTypes, Totals
<1>3. safety # NoHarm \/ ~AllPass \/ Dirty
    BY <1>1 DEF SeenInv
<1>4. CASE failing
    BY <1>2, <1>4 DEF Passed
<1>5. CASE ~failing
    <2>1. s = AddToSafety
        BY <1>5
    <2>2. s \in Totals /\ (Harm(safety) => Harm(s)) /\ (Dirty => Harm(s))
        BY <1>1, <1>2, <2>1, SafetyAdds DEF Dirty
    <2> QED
        BY <1>2, <1>3, <2>2, HarmShows
<1> QED
    BY <1>4, <1>5

LEMMA CollectStepKeeps ==
    ASSUME LoadInv, CollectStep
    PROVE  LoadInv'
<1>1. WorkTypes /\ StepTypes /\ ExitInv
    BY DEF LoadInv
<1>2. /\ phase = "collect" /\ input.mode = "suite" /\ failing' = FALSE
      /\ safety' = IF failing THEN safety ELSE AddToSafety
      /\ pool' = [w \in Pool |-> Idle]
      /\ UNCHANGED <<input, apps, leaked, seen>>
    BY DEF CollectStep, Abandon
<1>3. PICK rs : rs = Append(results, StepResult)
    OBVIOUS
<1>4. /\ rs \in Seq(Result) /\ Len(rs) = step
      /\ \A i \in 1..Len(rs) : rs[i].pass => rs[i].ranTo = "completed"
      /\ (\A i \in 1..Len(rs) : rs[i].pass) <=> AllPass /\ Passed
    BY <1>2, <1>3, OneMoreResult
<1>5. exit = None /\ exit # 0
    BY <1>1, <1>2, LoadTestAssumption DEF ExitInv
<1>6. safety' \in Totals
    <2>1. safety \in Totals
        BY <1>1 DEF StepTypes, Totals
    <2> QED
        BY <1>1, <1>2, <2>1, SafetyAdds
<1>7. step \in 1..Len(input.plan) /\ Len(input.plan) \in Nat
    BY <1>1, PlansRight DEF StepTypes
<1>8. seen # {} => safety' # NoHarm \/ ~AllPass \/ ~Passed
    BY <1>2, SeenIsKept
<1>9. CASE ~Passed /\ ~input.continueOnFail
    <2>1. /\ results' = rs \o Skipped /\ phase' = "verdict"
          /\ UNCHANGED <<step, exit, runVars>>
        BY <1>3, <1>9 DEF CollectStep
    <2>2. /\ Skipped \in Seq(Result) /\ Len(Skipped) = Len(input.plan) - step
          /\ \A i \in 1..Len(Skipped) : ~Skipped[i].pass
        BY <1>1, SkippedRight
    <2>3. /\ results' \in Seq(Result) /\ Len(results') = Len(rs) + Len(Skipped)
          /\ \A i \in 1..Len(rs) : results'[i] = rs[i]
          /\ \A i \in Len(rs) + 1..Len(rs) + Len(Skipped) : results'[i] = Skipped[i - Len(rs)]
        <3>1. rs \in Seq(Result) /\ Skipped \in Seq(Result)
            BY <1>4, <2>2
        <3>2. /\ rs \o Skipped \in Seq(Result) /\ Len(rs \o Skipped) = Len(rs) + Len(Skipped)
              /\ \A i \in 1..Len(rs) : (rs \o Skipped)[i] = rs[i]
              /\ \A i \in Len(rs) + 1..Len(rs) + Len(Skipped) :
                    (rs \o Skipped)[i] = Skipped[i - Len(rs)]
            BY <3>1, SkippedResults, Zenon
        <3> QED
            BY <2>1, <3>2, Zenon
    <2>4. Len(results') = Len(input.plan)
        BY <1>4, <1>7, <2>2, <2>3
    <2>5. \A i \in 1..Len(results') : i \in 1..Len(rs) \/ (i \in Len(rs) + 1..Len(rs) + Len(Skipped)
                                                          /\ i - Len(rs) \in 1..Len(Skipped))
        BY <1>4, <1>7, <2>2, <2>3
    <2>6. \A i \in 1..Len(results') : results'[i].pass => results'[i].ranTo = "completed"
        BY <1>4, <2>2, <2>3, <2>5
    <2>7. ~AllPass'
        <3>1. PICK i \in 1..Len(rs) : ~rs[i].pass
            BY <1>4, <1>9
        <3>2. i \in 1..Len(results')
            BY <1>4, <1>7, <2>2, <2>3, <3>1
        <3> QED
            BY <2>3, <3>1, <3>2 DEF AllPass
    <2>8. StepLeft
        BY <1>2, <1>6, <2>1, <2>3 DEF StepLeft
    <2>9. ExitInv' /\ GreenInv'
        BY <1>5, <2>1 DEF ExitInv, GreenInv
    <2>10. ResultInv'
        BY <1>2, <2>1, <2>4, <2>6 DEF ResultInv
    <2>11. SeenInv'
        BY <2>1, <2>7 DEF SeenInv
    <2> QED
        BY <2>8, <2>9, <2>10, <2>11, StepLeftKeeps DEF LoadInv
<1>10. CASE ~(~Passed /\ ~input.continueOnFail)
    <2>1. /\ results' = rs /\ exit' = exit
          /\ \/ MoreSteps /\ step' = step + 1 /\ phase' = "fixtures" /\ FreshRun
             \/ ~MoreSteps /\ phase' = "verdict" /\ UNCHANGED <<step, runVars>>
        BY <1>3, <1>10 DEF CollectStep, NextStep
    <2>2. StepLeft
        BY <1>2, <1>4, <1>6, <2>1 DEF StepLeft
    <2>3. AllPass' <=> AllPass /\ Passed
        BY <1>4, <2>1 DEF AllPass
    <2>4. ExitInv' /\ GreenInv'
        BY <1>5, <2>1 DEF ExitInv, GreenInv
    <2>5. phase' = "verdict" => Len(results') = Len(input.plan)
        BY <1>4, <1>7, <2>1 DEF MoreSteps
    <2>6. phase' = "fixtures" => Len(results') = step' - 1
        BY <1>4, <1>7, <2>1
    <2>7. \A i \in 1..Len(results') : results'[i].pass => results'[i].ranTo = "completed"
        BY <1>4, <2>1
    <2>8. ResultInv'
        BY <1>2, <2>1, <2>5, <2>6, <2>7 DEF ResultInv
    <2>9. SeenInv'
        BY <1>2, <1>8, <2>1, <2>3 DEF SeenInv
    <2> QED
        BY <2>2, <2>4, <2>8, <2>9, StepLeftKeeps DEF LoadInv
<1> QED
    BY <1>9, <1>10

LEMMA ExitScenarioKeeps ==
    ASSUME LoadInv, ExitScenario
    PROVE  LoadInv'
<1>1. StepTypes /\ ExitInv /\ ResultInv
    BY DEF LoadInv
<1>2. /\ phase = "collect" /\ input.mode = "chain" /\ failing' = FALSE
      /\ results' = Append(results, StepResult)
      /\ pool' = [w \in Pool |-> Idle]
      /\ UNCHANGED <<input, apps, leaked, safety, seen>>
    BY DEF ExitScenario
<1>3. /\ results' \in Seq(Result) /\ Len(results') = step
      /\ \A i \in 1..Len(results') : results'[i].pass => results'[i].ranTo = "completed"
      /\ (\A i \in 1..Len(results') : results'[i].pass) <=> AllPass /\ Passed
    BY <1>2, OneMoreResult
<1>4. AllPass' <=> AllPass /\ Passed
    BY <1>3 DEF AllPass
<1>5. exit = None /\ exit # 0
    BY <1>1, <1>2, LoadTestAssumption DEF ExitInv
<1>6. step \in 1..Len(input.plan) /\ Len(input.plan) \in Nat
    BY <1>1, PlansRight DEF StepTypes
<1>7. ~input.noAcceptance => AllPass
    BY <1>1, <1>2 DEF ResultInv
<1>8. MapExit(3) # 0 /\ MapExit(1) # 0
    BY DEF MapExit
<1>9. safety' \in Totals
    BY <1>1, <1>2 DEF StepTypes, Totals
<1>10. CASE (failing /\ Exit(3)) \/ (~input.noAcceptance /\ ~Passed /\ Exit(1))
    <2>1. phase' = "over" /\ exit' # 0 /\ UNCHANGED <<step, runVars>>
        BY <1>8, <1>10 DEF Exit
    <2>2. StepLeft
        BY <1>2, <1>3, <1>9, <2>1 DEF StepLeft
    <2>3. ExitInv' /\ GreenInv' /\ ResultInv' /\ SeenInv'
        BY <1>2, <1>3, <2>1 DEF ExitInv, GreenInv, ResultInv, SeenInv
    <2> QED
        BY <2>2, <2>3, StepLeftKeeps DEF LoadInv
<1>11. CASE (input.noAcceptance \/ Passed) /\ MoreSteps /\ NextStep
    <2>1. phase' = "fixtures" /\ exit' = exit /\ step' = step + 1 /\ FreshRun
        BY <1>11 DEF NextStep
    <2>2. StepLeft
        BY <1>2, <1>3, <1>9, <1>11, <2>1 DEF StepLeft
    <2>3. Len(results') = step' - 1
        BY <1>3, <1>6, <2>1
    <2>4. ~input.noAcceptance => AllPass'
        BY <1>4, <1>7, <1>11
    <2>5. ExitInv' /\ GreenInv' /\ ResultInv' /\ SeenInv'
        BY <1>2, <1>3, <1>5, <2>1, <2>3, <2>4 DEF ExitInv, GreenInv, ResultInv, SeenInv
    <2> QED
        BY <2>2, <2>5, StepLeftKeeps DEF LoadInv
<1>12. CASE (input.noAcceptance \/ Passed) /\ ~MoreSteps /\ Exit(0)
    <2>1. phase' = "over" /\ UNCHANGED <<step, runVars>>
        BY <1>12 DEF Exit
    <2>2. StepLeft
        BY <1>2, <1>3, <1>9, <2>1 DEF StepLeft
    <2>3. Len(results') = Len(input.plan)
        BY <1>3, <1>6, <1>12 DEF MoreSteps
    <2>4. ~input.noAcceptance => AllPass'
        BY <1>4, <1>7, <1>12
    <2>5. ExitInv' /\ GreenInv' /\ ResultInv' /\ SeenInv'
        BY <1>2, <1>3, <2>1, <2>3, <2>4 DEF ExitInv, GreenInv, ResultInv, SeenInv
    <2> QED
        BY <2>2, <2>5, StepLeftKeeps DEF LoadInv
<1>13. failing \in BOOLEAN /\ input.noAcceptance \in BOOLEAN /\ Passed \in BOOLEAN /\ (Passed => ~failing)
    BY <1>1, PlansRight DEF StepTypes, Passed
<1>14. \/ failing /\ Exit(3)
       \/ ~input.noAcceptance /\ ~Passed /\ Exit(1)
       \/ (input.noAcceptance \/ Passed) /\ IF MoreSteps THEN NextStep ELSE Exit(0)
    BY <1>13 DEF ExitScenario
<1> QED
    BY <1>10, <1>11, <1>12, <1>14

LEMMA VerdictKeeps ==
    ASSUME LoadInv, Verdict
    PROVE  LoadInv'
<1>1. /\ StepTypes /\ StageInv /\ DrainInv /\ FixtureInv /\ ResultInv /\ SeenInv
    BY DEF LoadInv
<1>2. /\ phase = "verdict" /\ phase' = "over" /\ UNCHANGED keptVars
      /\ UNCHANGED <<failing, apps, leaked, results, safety, seen>>
    BY DEF Verdict, Exit, keptVars, runVars
<1>3. /\ WorkTypes' /\ AllDone' = AllDone /\ Stages' = Stages
      /\ threw' = threw /\ input' = input /\ step' = step
    BY <1>2, KeptRun
<1>4. AllPass' = AllPass
    BY <1>2 DEF AllPass
<1>5. AllDone
    BY <1>1, <1>2 DEF DrainInv
<1>6. StepTypes' /\ StageInv' /\ DrainInv'
    BY <1>1, <1>2, <1>3, <1>5 DEF StepTypes, Phases, StageInv, DrainInv
<1>7. JoinInv' /\ MeasuredInv' /\ MidpointInv' /\ FixtureInv' /\ ExitInv'
    BY <1>1, <1>2, <1>3 DEF JoinInv, MeasuredInv, MidpointInv, Early, FixtureInv, ExitInv
<1>8. ResultInv' /\ SeenInv'
    BY <1>1, <1>2, <1>3, <1>4 DEF ResultInv, SeenInv
<1>9. exit' = 0 /\ ~input.noAcceptance => SuitePass
    BY DEF Verdict, Exit, MapExit
<1>10. GreenInv'
    BY <1>1, <1>2, <1>3, <1>4, <1>9 DEF GreenInv, ResultInv, SuitePass, AllPass, NoHarm
<1> QED
    BY <1>3, <1>6, <1>7, <1>8, <1>10 DEF LoadInv

\* A stray loop, or a stuttering step, changes nothing the invariant reads.
LEMMA OutsideKeeps ==
    ASSUME LoadInv, UNCHANGED <<input, step, phase, failing, pool, apps, leaked, results, safety, seen, exit, runVars>>
    PROVE  LoadInv'
<1>1. UNCHANGED keptVars
    BY DEF keptVars, runVars
<1>2. /\ WorkTypes' /\ scenario' = scenario /\ Stages' = Stages /\ AllDone' = AllDone /\ Measured' = Measured
    BY <1>1, KeptRun
<1>3. /\ StepTypes /\ StageInv /\ DrainInv /\ JoinInv /\ MidpointInv /\ MeasuredInv
      /\ FixtureInv /\ ExitInv /\ ResultInv /\ SeenInv /\ GreenInv
    BY DEF LoadInv
<1>4. UNCHANGED <<stage, size, next, midpoint, threw, metrics, unhandled, finished>>
    BY DEF runVars
<1>5. Holding' = Holding /\ Handed' = Handed /\ AllPass' = AllPass /\ Dirty' = Dirty
    BY <1>4 DEF Holding, Handed, AllPass, Dirty
<1>6. StepTypes' /\ StageInv' /\ DrainInv' /\ MidpointInv' /\ MeasuredInv'
    BY <1>2, <1>3, <1>4 DEF StepTypes, StageInv, DrainInv, MidpointInv, MeasuredInv
<1>7. JoinInv'
    BY <1>2, <1>3, <1>4, <1>5 DEF JoinInv
<1>8. FixtureInv' /\ ExitInv' /\ ResultInv' /\ SeenInv' /\ GreenInv'
    BY <1>3, <1>5 DEF FixtureInv, ExitInv, ResultInv, SeenInv, GreenInv
<1> QED
    BY <1>2, <1>6, <1>7, <1>8 DEF LoadInv

LEMMA InitHolds ==
    ASSUME Init
    PROVE  LoadInv
<1>1. /\ input \in Inputs /\ step = 1 /\ phase \in {"preflight", "fixtures"}
      /\ stage = 0 /\ size = 0 /\ next = 0 /\ finished = 0 /\ okStarts = 0 /\ midpoint = 0
      /\ threw = FALSE /\ failing = FALSE /\ metrics = NoMetrics /\ unhandled = 0
      /\ pool = [w \in Pool |-> Idle] /\ apps = {} /\ leaked = {} /\ results = <<>>
      /\ safety = [unhandled |-> 0, err5xx |-> 0, lost |-> 0] /\ seen = {} /\ exit = None
    BY DEF Init
<1>2. Idle \in Worker /\ Idle.pc = "done" /\ Equipped(Idle)
    BY DEF Idle, Worker, Equipped
<1>3. pool \in [Pool -> Worker] /\ \A w \in Pool : pool[w] = Idle
    <2> HIDE DEF Worker
    <2> QED
        BY <1>1, <1>2
<1>4. WorkTypes
    <2>1. NoMetrics \in [Ops -> [Kinds -> Nat]]
        BY DEF NoMetrics
    <2> HIDE DEF Worker, Ops, Kinds
    <2> QED
        BY <1>1, <1>2, <1>3, <2>1 DEF WorkTypes
<1>5. AllDone
    BY <1>2, <1>3 DEF AllDone
<1>6. StepTypes
    <2>1. 1 \in 1..Len(input.plan)
        <3>1. Len(input.plan) \in Nat \ {0}
            BY <1>1, PlansRight
        <3> QED
            BY <3>1
    <2>2. results \in Seq(Result)
        <3> HIDE DEF Result
        <3> QED
            BY <1>1
    <2> QED
        BY <1>1, <2>1, <2>2 DEF StepTypes, Phases
<1>7. StageInv /\ DrainInv /\ JoinInv /\ MidpointInv /\ MeasuredInv /\ FixtureInv /\ ExitInv
    BY <1>1, <1>5 DEF StageInv, DrainInv, JoinInv, MidpointInv, MeasuredInv, FixtureInv, ExitInv
<1>8. ResultInv
    BY <1>1 DEF ResultInv, AllPass
<1>9. SeenInv /\ GreenInv
    BY <1>1, LoadTestAssumption DEF SeenInv, GreenInv
<1> QED
    BY <1>4, <1>6, <1>7, <1>8, <1>9 DEF LoadInv

LEMMA NextKeeps ==
    ASSUME LoadInv, [Next]_vars
    PROVE  LoadInv'
<1>1. CASE \E w \in Pool : Work(w)
    BY <1>1, WorkKeeps
<1>2. CASE StrayEnds
    BY <1>2, OutsideKeeps DEF StrayEnds
<1>3. CASE UNCHANGED vars
    BY <1>3, OutsideKeeps DEF vars
<1>4. CASE Advance
    BY <1>4, PreflightKeeps, LoadFixturesKeeps, ProbeAndSeedKeep, RunScenarioKeeps, JoinKeeps, JudgeKeeps,
       CleanupKeeps, CollectStepKeeps, ExitScenarioKeeps, VerdictKeeps DEF Advance
<1> QED
    BY <1>1, <1>2, <1>3, <1>4 DEF Next

-----------------------------------------------------------------------------
(* The theorems                                                            *)

\* The invariant of the load test holds in every reachable state.
THEOREM LoadInvariant == Spec => []LoadInv
<1>1. Init => LoadInv
    BY InitHolds
<1>2. LoadInv /\ [Next]_vars => LoadInv'
    BY NextKeeps
<1> QED
    BY <1>1, <1>2, PTL DEF Spec

\* runSuite and main: exit code 0 without --no-acceptance means that every
\* scenario of the plan passed and that a suite saw no 5xx, no lost request
\* and no exception, in any interleaving of any number of loops.
THEOREM GreenIsClean == Spec => []GreenMeansClean
<1>1. LoadInv => GreenMeansClean
    <2> SUFFICES ASSUME LoadInv, exit = 0, ~input.noAcceptance
                 PROVE  /\ Len(results) = Len(input.plan)
                        /\ \A i \in 1..Len(results) : results[i].pass /\ results[i].ranTo = "completed"
                        /\ input.mode = "suite" => seen = {}
        BY DEF GreenMeansClean
    <2>1. ResultInv /\ SeenInv /\ GreenInv
        BY DEF LoadInv
    <2>2. /\ phase = "over" /\ Len(results) = Len(input.plan) /\ AllPass
          /\ input.mode = "suite" => safety = NoHarm
        BY <2>1 DEF GreenInv
    <2>3. \A i \in 1..Len(results) : results[i].pass /\ results[i].ranTo = "completed"
        BY <2>1, <2>2 DEF ResultInv, AllPass
    <2>4. input.mode = "suite" => seen = {}
        BY <2>1, <2>2 DEF SeenInv
    <2> QED
        BY <2>2, <2>3, <2>4
<1> QED
    BY <1>1, LoadInvariant, PTL

\* runPool and runOne: a scenario that passes has no loop left running, has
\* run every item of its last pool and, in receiver-disabled, has called
\* onMidpoint from one of its loops and no other: whether that call disabled a
\* receiver, the tool does not know.
THEOREM PassedIsMeasured == Spec => []MeasuredToTheEnd
<1>1. LoadInv => MeasuredToTheEnd
    <2> SUFFICES ASSUME LoadInv, phase = "collect", Passed
                 PROVE  /\ \A w \in Pool : ~Running(w)
                        /\ stage = Len(Stages) /\ finished = size
                        /\ scenario = "receiver-disabled" => midpoint = 1
        BY DEF MeasuredToTheEnd
    <2>1. MeasuredInv
        BY DEF LoadInv
    <2>2. Measured
        BY <2>1 DEF MeasuredInv, Passed
    <2>3. \A w \in Pool : ~Running(w)
        BY <2>2 DEF Measured, AllDone, Running
    <2> QED
        BY <2>2, <2>3 DEF Measured
<1> QED
    BY <1>1, LoadInvariant, PTL

\* runOne's finally: when the tool is done, an app row is left only if its
\* deletion failed or loadFixtures failed after inserting it.
THEOREM FixturesAreRemoved == Spec => []NoFixtureLeft
<1>1. LoadInv => NoFixtureLeft
    BY DEF LoadInv, FixtureInv, ExitInv, NoFixtureLeft
<1> QED
    BY <1>1, LoadInvariant, PTL

=============================================================================
