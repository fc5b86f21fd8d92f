------------------------------ MODULE LoadTest ------------------------------
(***************************************************************************)
(* tools/loadtest and `syrotp loadtest`: the release gate.  A plan of      *)
(* scenarios is run one after the other; each prepares fixtures, lets a    *)
(* pool of async loops drive the server, judges what was recorded, writes  *)
(* a report and cleans up.  The answers of the server are arbitrary.       *)
(*                                                                         *)
(* A mode is "suite" (runSuite: one process, one verdict over all steps)   *)
(* or "chain" (one process per scenario joined by &&: `loadtest quick`,    *)
(* and a single scenario as a chain of one).  An item of work is the list  *)
(* of requests it still has to make.  Latencies are abstracted to the set  *)
(* of operations whose p95 is over its threshold.  network_err and timeout *)
(* are counted apart and treated alike everywhere: both are "lost" here.   *)
(* Nothing ever increments double_verifications, which is left out.        *)
(***************************************************************************)
EXTENDS Integers, Sequences, FiniteSets, Functions

CONSTANTS
    Plans,              \* sets of scenario sequences, per mode
    Total,              \* items per scenario, a bound (the code: 1000 and more)
    Pool,               \* worker loops
    None

FullFlowScenarios == {"scenario-a", "scenario-b", "scenario-c", "full-flow", "soak", "receiver-disabled"}
Scenarios == FullFlowScenarios \cup {"start-only", "inbound-only", "status-polling", "mixed",
                            "replay-storm", "wrong-code-storm"}

\* A plan is a scenario or the list of a suite or of a chain of commands.
ASSUME LoadTestAssumption ==
    /\ Total \in Nat \ {0}
    /\ IsFiniteSet(Pool) /\ Pool # {}
    /\ \A m \in DOMAIN Plans : \A plan \in Plans[m] : plan \in Seq(Scenarios) /\ plan # <<>>
    /\ None \notin {0, 1, 3, 5}

Ops == {"start", "inbound", "status"}
Kinds == {"ok", "expected", "unexpected", "5xx", "lost"}
Bad == {"5xx", "lost"}

VARIABLES
    input,              \* mode, plan, continueOnFail, noAcceptance, byo, cli
    step,               \* the scenario of the plan that is being run
    phase,              \* what runOne or runSuite does next
    stage, size, next,  \* runPool: which pool of the scenario, its total and next
    okStarts,           \* starts of the scenario's first pool that gave an id: seedIds
    midpoint,           \* times onMidpoint was called, whatever it achieved
    threw, failing,     \* threw of runOne; an exception is leaving runOne
    accepted,           \* acceptance.pass
    metrics, unhandled, \* RunMetrics
    pool,               \* the worker loops of this scenario
    strays,             \* loops of earlier scenarios nobody waits for any more
    finished,           \* history: items of this pool that ran to their end
    apps, leaked,       \* app rows of ephemeral fixtures; those nobody will delete
    results, safety,    \* steps and hardSafety of runSuite
    seen,               \* history: bad outcomes and exceptions of the whole process
    exit                \* exit code of the tool

runVars == <<stage, size, next, okStarts, midpoint, threw, accepted, metrics, unhandled, finished>>
vars == <<input, step, phase, failing, pool, strays, apps, leaked, results, safety, seen, exit, runVars>>

scenario == input.plan[step]

-----------------------------------------------------------------------------
(* scenarios/index.ts                                                      *)

\* The pools a scenario runs one after the other, each as the requests its
\* items may consist of.  A seed loop of the scenario is a pool as well; the
\* ten residues of `mixed` are any of its three programs.
startOnly      == <<{<<"start">>}>>
fullFlow       == <<{<<"start", "inbound", "status">>}>>
inboundOnly    == <<{<<"start">>}, {<<"inbound">>}>>
statusPolling  == <<{<<"start">>}, {<<"status">>}>>
mixed          == <<{<<"start">>}, {<<"start", "inbound">>, <<"status">>, <<"start">>}>>
replayStorm    == <<{<<"start", "inbound">>}, {<<"inbound">>}>>
wrongCodeStorm == <<{<<"inbound">>}>>

Stages ==
    CASE scenario \in FullFlowScenarios -> fullFlow
      [] scenario = "start-only" -> startOnly
      [] scenario = "inbound-only" -> inboundOnly
      [] scenario = "status-polling" -> statusPolling
      [] scenario = "mixed" -> mixed
      [] scenario = "replay-storm" -> replayStorm
      [] scenario = "wrong-code-storm" -> wrongCodeStorm

\* The total of a pool: seeds are few (one here, a bound); inbound-only sends
\* one SMS per start that succeeded; without a seed nothing is polled or
\* replayed.
PoolSize(n) ==
    CASE n = 1 /\ scenario \in {"status-polling", "replay-storm", "mixed"} -> 1
      [] n = 2 /\ scenario = "inbound-only" -> okStarts
      [] n = 2 /\ scenario \in {"status-polling", "replay-storm"} /\ okStarts = 0 -> 0
      [] OTHER -> Total

\* 4xx answers that are wanted: 401 in the replay pool, 429 when polling.
Expects4xx(op) ==
    \/ scenario = "replay-storm" /\ stage = 2
    \/ scenario = "status-polling" /\ op = "status"

Answers(op) == IF Expects4xx(op) THEN Kinds ELSE Kinds \ {"expected"}

\* pickReceiver looks up the fixture of the number the server named: before
\* the inbound that follows a start, and before those of inbound-only.
PicksReceiver(w) ==
    /\ pool[w].ops[1] = "inbound"
    /\ pool[w].begun \/ scenario = "inbound-only"

-----------------------------------------------------------------------------
(* workers.ts                                                              *)

Idle == [pc |-> "done", ops |-> <<>>, begun |-> FALSE]
Loop == [pc |-> "loop", ops |-> <<>>, begun |-> FALSE]
Running(w) == pool[w].pc \notin {"done", "failed"}

\* As many loops as there are workers or items, whichever is less; at least one.
RunPoolOf(n) ==
    LET concurrency == IF PoolSize(n) < Cardinality(Pool) THEN PoolSize(n) ELSE Cardinality(Pool)
        loops == CHOOSE s \in SUBSET Pool : Cardinality(s) = IF concurrency = 0 THEN 1 ELSE concurrency
    IN  /\ stage' = n
        /\ size' = PoolSize(n)
        /\ next' = 0
        /\ finished' = 0
        /\ pool' = [w \in Pool |-> IF w \in loops THEN Loop ELSE Idle]

unchangedByWorker == <<input, step, phase, failing, strays, apps, leaked, results, safety, exit,
                       stage, size, threw, accepted>>

\* The loop takes the next index, or returns; the first item past the middle
\* of receiver-disabled calls onMidpoint first.
TakeIndex(w) ==
    LET halfway == scenario = "receiver-disabled" /\ midpoint = 0 /\ next >= size \div 2
    IN  /\ pool[w].pc = "loop"
        /\ next' = next + 1
        /\ IF next >= size
             THEN pool' = [pool EXCEPT ![w] = Idle] /\ UNCHANGED midpoint
             ELSE \E ops \in Stages[stage] :
                    \* mixed skips its status poll when there is no seed
                    /\ pool' = [pool EXCEPT ![w] =
                          IF scenario = "mixed" /\ ops = <<"status">> /\ okStarts = 0
                            THEN [Loop EXCEPT !.pc = "end"]
                            ELSE [pc |-> IF halfway THEN "midpoint" ELSE "send",
                                  ops |-> ops, begun |-> FALSE]]
                    /\ midpoint' = midpoint + (IF halfway THEN 1 ELSE 0)
        /\ UNCHANGED <<unchangedByWorker, okStarts, metrics, unhandled, finished, seen>>

\* disableReceiverMidpoint.  It disables the receiver, finds no DATABASE_URL and
\* only warns, or fails and is only logged: the loop goes on in every case, and
\* nothing the tool judges tells them apart.
DisableReceiver(w) ==
    /\ pool[w].pc = "midpoint"
    /\ pool' = [pool EXCEPT ![w].pc = "send"]
    /\ UNCHANGED <<unchangedByWorker, next, okStarts, midpoint, metrics, unhandled, finished, seen>>

\* client.request: it always answers, with a timeout if need be; record then
\* counts the answer.  An item ends early when its start failed.
Answered(w, kind) ==
    LET op == pool[w].ops[1]
        rest == IF op = "start" /\ kind # "ok" THEN <<>> ELSE Tail(pool[w].ops)
    IN  /\ metrics' = [metrics EXCEPT ![op][kind] = @ + 1]
        /\ okStarts' = okStarts + (IF stage = 1 /\ op = "start" /\ kind = "ok" THEN 1 ELSE 0)
        /\ seen' = seen \cup ({kind} \cap Bad)
        /\ pool' = [pool EXCEPT ![w] = [pc |-> IF rest = <<>> THEN "end" ELSE "send",
                                        ops |-> rest, begun |-> TRUE]]

\* Fault: no AbortController, so that a request may never be answered.
RequestWithoutTimeout(w) ==
    /\ pool[w].pc = "send"
    /\ \/ \E kind \in Answers(pool[w].ops[1]) \ {"lost"} : Answered(w, kind)
       \/ /\ pool' = [pool EXCEPT ![w].pc = "hung"]
          /\ UNCHANGED <<okStarts, metrics, seen>>
    /\ UNCHANGED <<unchangedByWorker, next, midpoint, unhandled, finished>>

Request(w) ==
    /\ pool[w].pc = "send"
    /\ \E kind \in Answers(pool[w].ops[1]) : Answered(w, kind)
    /\ UNCHANGED <<unchangedByWorker, next, midpoint, unhandled, finished>>

\* Fault: runPool swallows what an item throws.
SwallowMismatch(w) ==
    /\ pool[w].pc = "send"
    /\ PicksReceiver(w)
    /\ pool' = [pool EXCEPT ![w] = IF scenario \in FullFlowScenarios THEN [Loop EXCEPT !.pc = "end"] ELSE Loop]
    /\ unhandled' = unhandled + (IF scenario \in FullFlowScenarios THEN 1 ELSE 0)
    /\ seen' = seen \cup {"exception"}
    /\ UNCHANGED <<unchangedByWorker, next, okStarts, midpoint, metrics, finished>>

\* The server named a number no fixture has: fullFlow counts it and ends the
\* item, the other scenarios throw, which rejects this worker's promise.
Mismatch(w) ==
    /\ pool[w].pc = "send"
    /\ PicksReceiver(w)
    /\ pool' = [pool EXCEPT ![w] = IF scenario \in FullFlowScenarios THEN [Loop EXCEPT !.pc = "end"]
                                   ELSE [Idle EXCEPT !.pc = "failed"]]
    /\ unhandled' = unhandled + (IF scenario \in FullFlowScenarios THEN 1 ELSE 0)
    /\ seen' = seen \cup {"exception"}
    /\ UNCHANGED <<unchangedByWorker, next, okStarts, midpoint, metrics, finished>>

EndItem(w) ==
    /\ pool[w].pc = "end"
    /\ pool' = [pool EXCEPT ![w] = Loop]
    /\ finished' = finished + 1
    /\ UNCHANGED <<unchangedByWorker, next, okStarts, midpoint, metrics, unhandled, seen>>

Work(w) ==
    /\ exit = None
    /\ TakeIndex(w) \/ DisableReceiver(w) \/ Request(w) \/ Mismatch(w) \/ EndItem(w)

\* A loop whose Promise.all was rejected runs on beside the next scenario,
\* with counters nobody reads any more, until it ends by itself.
StrayEnds ==
    /\ strays > 0 /\ exit = None
    /\ strays' = strays - 1
    /\ UNCHANGED <<input, step, phase, failing, pool, apps, leaked, results, safety, seen, exit, runVars>>

-----------------------------------------------------------------------------
(* acceptance.ts                                                           *)

\* defaultPolicy: the operations whose p95 is limited, those whose success
\* rate (in thousandths) counts, and whether a 5xx fails the scenario.
Policy(s) ==
    LET strict(ops, rateOps) == [p95 |-> ops, successFor |-> rateOps, min |-> 999, no5xx |-> TRUE]
        lax == [p95 |-> {}, successFor |-> {}, min |-> 0, no5xx |-> TRUE]
    IN  CASE s \in {"scenario-a", "scenario-b", "full-flow", "soak"} -> strict(Ops, Ops)
          [] s = "scenario-c" -> strict({"start", "inbound"}, {"start", "inbound"})
          [] s = "start-only" -> strict({"start"}, {"start"})
          [] s = "inbound-only" -> strict({"inbound"}, {"start", "inbound"})
          [] s = "mixed" -> [strict({"start", "inbound"}, {"start", "inbound"}) EXCEPT !.min = 990]
          [] s \in {"status-polling", "replay-storm", "wrong-code-storm"} -> lax
          [] s = "receiver-disabled" -> [lax EXCEPT !.no5xx = FALSE]

Count(ops, kinds) == SumFunction([x \in ops \X kinds |-> metrics[x[1]][x[2]]])

\* The answers of one kind over all operations.
OverOps(kind) == metrics["start"][kind] + metrics["inbound"][kind] + metrics["status"][kind]

\* overrides: the operations that got a limit by --p95-start, --p95-inbound or
\* --p95-status, whether or not the policy has one.  slow: those whose p95 came
\* out over their limit.
Evaluate(slow, overrides) ==
    LET policy == Policy(scenario)
        ok == Count(policy.successFor, {"ok"})
        denom == Count(policy.successFor, Kinds \ {"expected"})
    IN  /\ \A op \in policy.p95 \cup overrides : Count({op}, Kinds) = 0 \/ op \notin slow
        /\ denom = 0 \/ 1000 * ok >= policy.min * denom
        /\ policy.no5xx => OverOps("5xx") = 0
        /\ unhandled = 0

-----------------------------------------------------------------------------
(* runner.ts, runOne                                                       *)

NoMetrics == [op \in Ops |-> [k \in Kinds |-> 0]]

\* A new runOne: what it declares.
FreshRun ==
    /\ stage' = 0 /\ size' = 0 /\ next' = 0 /\ finished' = 0
    /\ okStarts' = 0 /\ midpoint' = 0
    /\ threw' = FALSE /\ accepted' = FALSE
    /\ metrics' = NoMetrics /\ unhandled' = 0

Throw(p) == failing' = TRUE /\ phase' = p
Goto(p) == failing' = failing /\ phase' = p

\* loadFixtures is called before the try: when it fails half way, the app it
\* has inserted stays.
LoadFixtures ==
    /\ phase = "fixtures"
    /\ \/ /\ Goto("probe")
          /\ apps' = IF input.byo THEN apps ELSE apps \cup {step}
          /\ UNCHANGED leaked
       \/ /\ Throw("collect")
          /\ \E made \in IF input.byo THEN {{}} ELSE {{}, {step}} :
                apps' = apps \cup made /\ leaked' = leaked \cup made
    /\ UNCHANGED <<input, step, pool, strays, results, safety, seen, exit, runVars>>

Probe ==
    /\ phase = "probe"
    /\ Goto(IF input.byo THEN "run" ELSE "seed") \/ Throw("cleanup")
    /\ UNCHANGED <<input, step, pool, strays, apps, leaked, results, safety, seen, exit, runVars>>

SeedBindings ==
    /\ phase = "seed"
    /\ Goto("run") \/ Throw("cleanup")
    /\ UNCHANGED <<input, step, pool, strays, apps, leaked, results, safety, seen, exit, runVars>>

RunScenario ==
    /\ phase = "run"
    /\ Goto("join")
    /\ RunPoolOf(1)
    /\ UNCHANGED <<input, step, strays, apps, leaked, results, safety, seen, exit,
                   okStarts, midpoint, threw, accepted, metrics, unhandled>>

\* Promise.all: the next pool once every loop has returned, or the catch of
\* runOne as soon as one has failed, the others still running.
Join ==
    /\ phase = "join"
    /\ \/ /\ \A w \in Pool : pool[w].pc = "done"
          /\ UNCHANGED <<threw, unhandled>>
          /\ IF stage < Len(Stages)
               THEN RunPoolOf(stage + 1) /\ Goto("join")
               ELSE Goto("evaluate") /\ UNCHANGED <<stage, size, next, finished, pool>>
       \/ /\ \E w \in Pool : pool[w].pc = "failed"
          /\ threw' = TRUE
          /\ unhandled' = unhandled + 1
          /\ Goto("evaluate")
          /\ UNCHANGED <<stage, size, next, finished, pool>>
    /\ UNCHANGED <<input, step, strays, apps, leaked, results, safety, seen, exit,
                   okStarts, midpoint, accepted, metrics>>

\* policyOverrides: `syrotp loadtest` passes no --p95 flag.  The flags are the
\* same for every step; as slow is arbitrary, choosing them anew changes nothing.
PolicyOverrides == IF input.cli THEN {{}} ELSE SUBSET Ops

\* evaluate and writeReport, which may throw.
Judge ==
    /\ phase = "evaluate"
    /\ \E slow \in SUBSET Ops, overrides \in PolicyOverrides : accepted' = Evaluate(slow, overrides)
    /\ Goto("cleanup") \/ Throw("cleanup")
    /\ UNCHANGED <<input, step, pool, strays, apps, leaked, results, safety, seen, exit,
                   stage, size, next, okStarts, midpoint, threw, metrics, unhandled, finished>>

\* Fault: the fixtures are removed only after a run that did not throw.
CleanupAfterSuccess ==
    /\ phase = "cleanup"
    /\ Goto("collect")
    /\ apps' = IF failing THEN apps ELSE apps \ {step}
    /\ UNCHANGED <<input, step, leaked, pool, strays, results, safety, seen, exit, runVars>>

\* The finally: a clean-up that fails is only logged.
Cleanup ==
    /\ phase = "cleanup"
    /\ Goto("collect")
    /\ \/ apps' = apps \ {step} /\ UNCHANGED leaked
       \/ step \in apps /\ leaked' = leaked \cup {step} /\ UNCHANGED apps
    /\ UNCHANGED <<input, step, pool, strays, results, safety, seen, exit, runVars>>

-----------------------------------------------------------------------------
(* suites.ts, index.ts and commands/loadtest.ts                            *)

\* addToSafety reads the metrics of the step once runOne has returned.
AddToSafety ==
    [unhandled |-> safety.unhandled + unhandled,
     err5xx |-> safety.err5xx + OverOps("5xx"),
     lost |-> safety.lost + OverOps("lost")]

Passed == accepted /\ ~threw /\ ~failing

StepResult == [scenario |-> scenario,
               pass |-> Passed,
               ranTo |-> IF failing THEN "errored" ELSE "completed"]

\* The steps after one that stopped the suite.
Skipped == [j \in 1..(Len(input.plan) - step) |->
              [scenario |-> input.plan[step + j], pass |-> FALSE, ranTo |-> "skipped"]]

\* Loops that still run when their step is left belong to nobody.
Abandon ==
    /\ pool' = [w \in Pool |-> Idle]
    /\ strays' = strays + Cardinality({w \in Pool : Running(w)})

MoreSteps == step < Len(input.plan)

NextStep ==
    /\ step' = step + 1
    /\ phase' = "fixtures"
    /\ FreshRun
    /\ UNCHANGED exit

\* mapLoadtestExit, when the command line tool started the run.
MapExit(code) ==
    IF ~input.cli THEN code ELSE CASE code = 0 -> 0 [] code = 3 -> 5 [] OTHER -> 1

Exit(code) ==
    /\ exit' = MapExit(code)
    /\ phase' = "over"
    /\ UNCHANGED <<step, runVars>>

\* One round of the loop of runSuite ends.
CollectStep ==
    /\ phase = "collect" /\ input.mode = "suite"
    /\ failing' = FALSE
    /\ safety' = IF failing THEN safety ELSE AddToSafety
    /\ Abandon
    /\ IF ~Passed /\ ~input.continueOnFail
         THEN /\ results' = Append(results, StepResult) \o Skipped
              /\ phase' = "verdict"
              /\ UNCHANGED <<step, exit, runVars>>
         ELSE /\ results' = Append(results, StepResult)
              /\ IF MoreSteps THEN NextStep
                 ELSE phase' = "verdict" /\ UNCHANGED <<step, exit, runVars>>
    /\ UNCHANGED <<input, apps, leaked, seen>>

\* main for one scenario: its process ends, and with it every loop; the shell
\* starts the next one after an exit code 0.
ExitScenario ==
    /\ phase = "collect" /\ input.mode = "chain"
    /\ failing' = FALSE
    /\ results' = Append(results, StepResult)
    /\ pool' = [w \in Pool |-> Idle]
    /\ CASE failing -> Exit(3)
         [] ~failing /\ ~input.noAcceptance /\ ~Passed -> Exit(1)
         [] OTHER -> IF MoreSteps THEN NextStep ELSE Exit(0)
    /\ UNCHANGED <<input, strays, apps, leaked, safety, seen>>

\* Fault: the verdict is that of the steps alone.
StepsPass == \A i \in 1..Len(results) : results[i].pass

SuitePass ==
    /\ \A i \in 1..Len(results) : results[i].pass
    /\ safety = [unhandled |-> 0, err5xx |-> 0, lost |-> 0]

\* writeAggregate may throw, which main's catch turns into exit code 1.
Verdict ==
    /\ phase = "verdict"
    /\ Exit(1) \/ Exit(IF ~input.noAcceptance /\ ~SuitePass THEN 1 ELSE 0)
    /\ UNCHANGED <<input, failing, pool, strays, apps, leaked, results, safety, seen>>

\* preflightOrThrow: SYROTP_BASE_URL is missing, /v1/health does not answer,
\* or the tool is started.
Preflight ==
    /\ phase = "preflight"
    /\ \/ phase' = "fixtures" /\ UNCHANGED exit
       \/ \E code \in {3, 5} : phase' = "over" /\ exit' = code
    /\ UNCHANGED <<input, step, failing, pool, strays, apps, leaked, results, safety, seen, runVars>>

-----------------------------------------------------------------------------
\* `syrotp loadtest` passes neither --no-acceptance nor, to quick, any flag.
Inputs ==
    {i \in [mode : {"suite", "chain"}, plan : UNION {Plans[m] : m \in DOMAIN Plans},
            continueOnFail : BOOLEAN, noAcceptance : BOOLEAN, byo : BOOLEAN, cli : BOOLEAN] :
        /\ i.plan \in Plans[i.mode]
        /\ i.continueOnFail => i.mode = "suite"
        /\ i.cli => ~i.noAcceptance}

Init ==
    /\ input \in Inputs
    /\ step = 1
    /\ phase = IF input.cli THEN "preflight" ELSE "fixtures"
    /\ stage = 0 /\ size = 0 /\ next = 0 /\ finished = 0
    /\ okStarts = 0 /\ midpoint = 0
    /\ threw = FALSE /\ failing = FALSE /\ accepted = FALSE
    /\ metrics = NoMetrics /\ unhandled = 0
    /\ pool = [w \in Pool |-> Idle]
    /\ strays = 0
    /\ apps = {} /\ leaked = {}
    /\ results = <<>>
    /\ safety = [unhandled |-> 0, err5xx |-> 0, lost |-> 0]
    /\ seen = {}
    /\ exit = None

Advance ==
    \/ Preflight \/ LoadFixtures \/ Probe \/ SeedBindings \/ RunScenario \/ Join
    \/ Judge \/ Cleanup \/ CollectStep \/ ExitScenario \/ Verdict

Next == Advance \/ StrayEnds \/ \E w \in Pool : Work(w)

Spec == Init /\ [][Next]_vars

\* The event loop goes on, and every request ends within its timeout.
FairSpec == Spec /\ WF_vars(Advance) /\ WF_vars(StrayEnds) /\ \A w \in Pool : WF_vars(Work(w))

-----------------------------------------------------------------------------
\* runSuite and main: when the tool reports success without --no-acceptance,
\* every scenario of the plan ran and passed, and no request of a suite got a
\* 5xx, was lost or ended in an exception, in whatever scenario and whatever
\* its policy tolerates.
GreenMeansClean ==
    exit = 0 /\ ~input.noAcceptance =>
        /\ Len(results) = Len(input.plan)
        /\ \A i \in 1..Len(results) : results[i].pass /\ results[i].ranTo = "completed"
        /\ input.mode = "suite" => seen = {}

\* runPool: a scenario that passes was measured to its end. No loop of it runs
\* on, every item of its last pool is done, and in receiver-disabled onMidpoint
\* was called, and by one loop only, whichever came to the middle first.  It says
\* nothing of a receiver: the call may have disabled none, and the scenario passes.
MeasuredToTheEnd ==
    phase = "collect" /\ Passed =>
        /\ \A w \in Pool : ~Running(w)
        /\ stage = Len(Stages) /\ finished = size
        /\ scenario = "receiver-disabled" => midpoint = 1

\* runOne's finally: when the tool is done, an app row it made is left only if
\* its deletion failed or loadFixtures failed after inserting it.
NoFixtureLeft == exit # None => apps \subseteq leaked

\* Whatever the server answers or fails to answer, the tool ends.
Terminates == <>(exit # None)

=============================================================================
