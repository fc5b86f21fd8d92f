---------------------------- MODULE WebhookWorker ----------------------------
(***************************************************************************)
(* services/webhookWorker.ts: the workers that POST the pending deliveries *)
(* to their endpoints.  Several workers, in one process each, share the    *)
(* table webhook_deliveries; a crash loses what a worker had in hand.      *)
(*                                                                         *)
(* Time is relative: dueIn is next_attempt_at minus now(), so that no      *)
(* absolute clock is needed.  Against the seconds that leases, timeouts    *)
(* and retry delays are made of, a database statement takes no time; only  *)
(* sleeping and waiting for an endpoint do.                                *)
(***************************************************************************)
EXTENDS WebhookUrls, FiniteSets

CONSTANTS
    Workers,
    Deliveries,                 \* ids of webhook_deliveries
    EndpointOf,                 \* endpoint_id of each delivery
    Watched,                    \* the deliveries that the history variables follow
    BATCH_SIZE,
    IN_FLIGHT_LEASE_SECONDS,
    HTTP_TIMEOUT_SECONDS,
    RETRY_DELAY_SECONDS,        \* the delays after the first, second, ... failed attempt
    MAX_DELIVERY_ATTEMPTS,
    Hosts,                      \* the hosts that URLs of endpoints name
    Answers,                    \* what the resolver may answer, at any time
    Samples,                    \* addresses that the guard is tried on
    MaxOverdue,                 \* bound: how overdue a row can be told to be
    MaxInterruptions            \* bound: crashes, failed statements, orderly shutdowns

ASSUME WorkerNumbers ==
    /\ IsFiniteSet(Workers) /\ IsFiniteSet(Deliveries)
    /\ Watched \subseteq Deliveries
    /\ BATCH_SIZE \in Nat \ {0}
    /\ IN_FLIGHT_LEASE_SECONDS \in Nat \ {0}
    /\ HTTP_TIMEOUT_SECONDS \in Nat \ {0}
    /\ RETRY_DELAY_SECONDS \in Seq(Nat)
    /\ MAX_DELIVERY_ATTEMPTS \in Nat \ {0}
    /\ MaxOverdue \in Nat /\ MaxInterruptions \in Nat

ASSUME HostsAssumption ==
    /\ \A host \in Hosts : \/ host \in {Name, ConventionName}
                           \/ host.kind = "literal" /\ host.ip \in Addresses
    /\ \A answer \in Answers : answer \in Seq(Addresses)
    /\ \A ip \in Samples : ip \in Addresses

VARIABLES
    rows,           \* webhook_deliveries: status, attempt_count, next_attempt_at
    workers,        \* each worker: what it does next, and its local variables
    failures, stops,
    posts,          \* history: requests sent, per delivery and attempt
    accepted,       \* history: answers 2xx that workers saw, per delivery
    lapses          \* history: claims of a delivery that somebody still had in hand

vars == <<rows, workers, failures, stops, posts, accepted, lapses>>

Settled == {"delivered", "failed", "abandoned"}
NoRow == [status |-> "none", attemptCount |-> 0, dueIn |-> 0]
Off == [pc |-> "off", batch |-> <<>>, deadline |-> 0, outcome |-> "none",
        peer |-> NoPeer, stopped |-> FALSE]

\* emitVerificationEventInTx inserted the row, due at once.
Emit(d) ==
    /\ rows[d].status = "none"
    /\ rows' = [rows EXCEPT ![d].status = "pending"]
    /\ UNCHANGED <<workers, failures, stops, posts, accepted, lapses>>

\* deleteWebhookEndpoint took the rows of the endpoint with it; no other row can
\* be inserted for it.
Remove(e) ==
    /\ \E d \in Deliveries : EndpointOf[d] = e /\ rows[d].status # "deleted"
    /\ rows' = [d \in Deliveries |->
          IF EndpointOf[d] = e THEN [rows[d] EXCEPT !.status = "deleted"] ELSE rows[d]]
    /\ UNCHANGED <<workers, failures, stops, posts, accepted, lapses>>

-----------------------------------------------------------------------------
(* start, stop, runOnce                                                    *)

Start(w) ==
    /\ workers[w].pc = "off"
    /\ workers' = [workers EXCEPT ![w].pc = "sleeping", ![w].stopped = FALSE]
    /\ UNCHANGED <<rows, failures, stops, posts, accepted, lapses>>

\* A tick in flight is waited for; a sleeping worker is off at once.
Stop(w) ==
    /\ failures + stops < MaxInterruptions
    /\ workers[w].pc # "off"
    /\ ~workers[w].stopped
    /\ workers' = [workers EXCEPT ![w].stopped = TRUE,
                                  ![w].pc = IF @ = "sleeping" THEN "off" ELSE @]
    /\ stops' = stops + 1
    /\ UNCHANGED <<rows, failures, posts, accepted, lapses>>

\* The end of runOnce: the timer is set again unless stop was called.
EndTick(w) ==
    workers' = [workers EXCEPT ![w] =
        [Off EXCEPT !.pc = IF workers[w].stopped THEN "off" ELSE "sleeping"]]

-----------------------------------------------------------------------------
(* claimBatch                                                              *)

\* Fault: a leased row counts as due.
DueDespiteLease(d) == rows[d].status = "pending"

\* Fault: a row that was tried before is not found again.
DueOnlyOnce(d) ==
    rows[d].status = "pending" /\ rows[d].dueIn <= 0 /\ rows[d].attemptCount = 0

\* Fault: only the rows that were delivered are left out.
DueUnlessDelivered(d) ==
    rows[d].status \notin {"none", "deleted", "delivered"} /\ rows[d].dueIn <= 0

Due(d) == rows[d].status = "pending" /\ rows[d].dueIn <= 0

\* ORDER BY next_attempt_at LIMIT BATCH_SIZE, as the set of its results.
Batches ==
    LET due == {d \in Deliveries : Due(d)}
        size == IF Cardinality(due) < BATCH_SIZE THEN Cardinality(due) ELSE BATCH_SIZE
    IN  {b \in [1 .. size -> due] :
            /\ \A i, j \in 1 .. size : i < j => b[i] # b[j] /\ rows[b[i]].dueIn <= rows[b[j]].dueIn
            /\ \A d \in due : (\A i \in 1 .. size : b[i] # d) =>
                                 \A i \in 1 .. size : rows[b[i]].dueIn <= rows[d].dueIn}

\* Who has a delivery in hand.
Holds(w, d) == \E i \in DOMAIN workers[w].batch : workers[w].batch[i].id = d
Holders(d) == {w \in Workers : Holds(w, d)}

\* The timer fires.  SELECT ... FOR UPDATE SKIP LOCKED, the lease and the
\* COMMIT are one step: whoever else selects meanwhile skips the locked rows.
\* A row whose lease ran out is due, whether its worker is gone or only late.
ClaimBatch(w) ==
    /\ workers[w].pc = "sleeping"
    /\ \E b \in Batches :
          /\ b # <<>>
          /\ workers' = [workers EXCEPT ![w].pc = "loop",
                ![w].batch = [i \in DOMAIN b |->
                    [id |-> b[i], attempt |-> rows[b[i]].attemptCount + 1, place |-> i]]]
          /\ rows' = [d \in Deliveries |->
                IF \E i \in DOMAIN b : b[i] = d
                  THEN [rows[d] EXCEPT !.dueIn = IN_FLIGHT_LEASE_SECONDS] ELSE rows[d]]
          /\ lapses' = [d \in Watched |->
                IF Holders(d) # {} /\ \E i \in DOMAIN b : b[i] = d THEN lapses[d] + 1 ELSE lapses[d]]
    /\ UNCHANGED <<failures, stops, posts, accepted>>

EndOfBatch(w) ==
    /\ workers[w].pc = "loop"
    /\ workers[w].batch = <<>>
    /\ EndTick(w)
    /\ UNCHANGED <<rows, failures, stops, posts, accepted, lapses>>

-----------------------------------------------------------------------------
(* deliver                                                                 *)

\* Nothing is sent: the endpoint is disabled, its URL names an internal address,
\* or its secret cannot be unwrapped.
Refuse(w) ==
    /\ workers[w].pc = "loop"
    /\ workers[w].batch # <<>>
    /\ \E o \in {"endpoint_disabled", "permanent"} :
          workers' = [workers EXCEPT ![w].pc = "apply", ![w].outcome = o]
    /\ UNCHANGED <<rows, failures, stops, posts, accepted, lapses>>

\* Where a request may go: the lookup of its host begins it, whatever the
\* resolver said when the endpoint was created.
Peers == {lookup(host, answer) : host \in {h \in Hosts : isUrlAllowedForDelivery(h)}, answer \in Answers}

\* A request that the lookup gives no address to has failed: a network error.
Post(w) ==
    /\ workers[w].pc = "loop"
    /\ workers[w].batch # <<>>
    /\ \/ /\ NoPeer \in Peers
          /\ workers' = [workers EXCEPT ![w].pc = "apply", ![w].outcome = "retry"]
       \/ \E peer \in Peers \ {NoPeer} :
             workers' = [workers EXCEPT ![w].pc = "fetch", ![w].deadline = HTTP_TIMEOUT_SECONDS,
                                        ![w].peer = peer]
    /\ LET item == Head(workers[w].batch)
       IN  posts' = [d \in Watched |->
              IF d = item.id THEN [posts[d] EXCEPT ![item.attempt] = @ + 1] ELSE posts[d]]
    /\ UNCHANGED <<rows, failures, stops, accepted, lapses>>

\* The answer, a network error, or the timeout: 2xx is delivered; errors,
\* timeouts, 429 and 5xx are retried; every other status is permanent.  Only
\* the answers that the worker sees are counted: what an endpoint takes and
\* answers too late is a retry here.
Answer(w) ==
    /\ workers[w].pc = "fetch"
    /\ \E o \in {"delivered", "retry", "permanent"} :
          /\ workers' = [workers EXCEPT ![w].pc = "apply", ![w].outcome = o, ![w].deadline = 0,
                                        ![w].peer = NoPeer]
          /\ accepted' = [d \in Watched |->
                IF d = Head(workers[w].batch).id /\ o = "delivered" THEN accepted[d] + 1 ELSE accepted[d]]
    /\ UNCHANGED <<rows, failures, stops, posts, lapses>>

-----------------------------------------------------------------------------
(* applyOutcome                                                            *)

\* nextRetryDelaySeconds(attempt) is not null, and attempts remain.
BudgetLeft(attempt) ==
    attempt < MAX_DELIVERY_ATTEMPTS /\ attempt <= Len(RETRY_DELAY_SECONDS)

\* Fault: the attempt is counted, but a 2xx does not settle the row.
AppliedStillPending(row, attempt, outcome) ==
    [row EXCEPT !.attemptCount = attempt,
                !.status = IF outcome = "permanent" \/ ~BudgetLeft(attempt) THEN "failed" ELSE "pending"]

Applied(row, attempt, outcome) ==
    LET done(status) == [row EXCEPT !.status = status, !.attemptCount = attempt]
    IN  CASE outcome = "delivered" -> done("delivered")
          [] outcome = "endpoint_disabled" -> done("abandoned")
          [] outcome = "permanent" -> done("failed")
          [] outcome = "retry" /\ ~BudgetLeft(attempt) -> done("abandoned")
          [] OTHER -> [done("pending") EXCEPT !.dueIn = RETRY_DELAY_SECONDS[attempt]]

\* An UPDATE by id alone: it meets no row once the endpoint is deleted, and
\* asks neither for the status nor for the attempt count of the row it meets.
ApplyOutcome(w) ==
    LET item == Head(workers[w].batch)
    IN  /\ workers[w].pc = "apply"
        /\ rows' = [rows EXCEPT ![item.id] =
                       IF @.status = "deleted" THEN @ ELSE Applied(@, item.attempt, workers[w].outcome)]
        /\ workers' = [workers EXCEPT ![w].pc = "loop", ![w].batch = Tail(@), ![w].outcome = "none"]
        /\ UNCHANGED <<failures, stops, posts, accepted, lapses>>

\* The UPDATE throws: runOnce gives up the rest of the batch.
FailApply(w) ==
    /\ failures + stops < MaxInterruptions
    /\ workers[w].pc = "apply"
    /\ EndTick(w)
    /\ failures' = failures + 1
    /\ UNCHANGED <<rows, stops, posts, accepted, lapses>>

Crash(w) ==
    /\ failures + stops < MaxInterruptions
    /\ workers[w].pc # "off"
    /\ workers' = [workers EXCEPT ![w] = Off]
    /\ failures' = failures + 1
    /\ UNCHANGED <<rows, stops, posts, accepted, lapses>>

-----------------------------------------------------------------------------

\* A second passes: nobody is between two statements, and no request in
\* flight has reached its timeout.
Tick ==
    /\ \A w \in Workers : \/ workers[w].pc \in {"off", "sleeping"}
                          \/ workers[w].pc = "fetch" /\ workers[w].deadline > 0
    /\ rows' = [d \in Deliveries |->
          [rows[d] EXCEPT !.dueIn = IF rows[d].status = "pending" /\ @ > -MaxOverdue THEN @ - 1 ELSE @]]
    /\ workers' = [w \in Workers |->
          [workers[w] EXCEPT !.deadline = IF @ > 0 THEN @ - 1 ELSE 0]]
    /\ UNCHANGED <<failures, stops, posts, accepted, lapses>>

Init ==
    /\ rows = [d \in Deliveries |-> NoRow]
    /\ workers = [w \in Workers |-> Off]
    /\ failures = 0
    /\ stops = 0
    /\ posts = [d \in Watched |-> [k \in 1 .. MAX_DELIVERY_ATTEMPTS |-> 0]]
    /\ accepted = [d \in Watched |-> 0]
    /\ lapses = [d \in Watched |-> 0]

Step(w) ==
    \/ ClaimBatch(w) \/ EndOfBatch(w) \/ Refuse(w) \/ Post(w)
    \/ Answer(w) \/ ApplyOutcome(w)

Next ==
    \/ \E d \in Deliveries : Emit(d) \/ Remove(EndpointOf[d])
    \/ \E w \in Workers : Start(w) \/ Stop(w) \/ Step(w) \/ FailApply(w) \/ Crash(w)
    \/ Tick

Spec == Init /\ [][Next]_vars

\* Timers fire, awaits resume, time passes, and the supervisor restarts a
\* worker that is off.
Fairness ==
    /\ \A w \in Workers : WF_vars(Step(w)) /\ WF_vars(Start(w))
    /\ WF_vars(Tick)

FairSpec == Spec /\ Fairness

-----------------------------------------------------------------------------

\* What docs and comments say of several workers: without crashes and failed
\* statements no delivery is accepted twice, and each of those adds at most one.
NoDoubleDelivery == \A d \in Watched : accepted[d] <= 1 + failures

\* What several workers that share the table do guarantee: every second 2xx of a
\* delivery, and every second request of one of its attempts, goes with a failure or
\* with a claim that overtook a late worker.  The attempts are not more than the
\* retry budget: a row that is pending has some left, whoever wrote it last.
DoublesAreLapses ==
    \A d \in Watched :
        /\ accepted[d] <= 1 + failures + lapses[d]
        /\ \A k \in 1 .. MAX_DELIVERY_ATTEMPTS : posts[d][k] <= 1 + failures + lapses[d]
        /\ rows[d].status = "pending" => rows[d].attemptCount < MAX_DELIVERY_ATTEMPTS

\* A delivery is overtaken for the first time only in the hands of a worker that
\* claimed so many before it that their timeouts use up the lease.
LapsesAreLate ==
    [][\A d \in Watched : lapses[d] = 0 /\ lapses'[d] > 0 =>
          \A w \in Workers : \A i \in DOMAIN workers[w].batch :
              workers[w].batch[i].id = d =>
                  workers[w].batch[i].place * HTTP_TIMEOUT_SECONDS >= IN_FLIGHT_LEASE_SECONDS]_vars

\* No more workers can still overwrite what became of a delivery than claims have
\* overtaken: applyOutcome asks for nothing but the id of the row.
LateWritersCounted ==
    \A d \in Watched : rows[d].status \in Settled => Cardinality(Holders(d)) <= lapses[d]

\* What became of a delivery is overwritten, and its attempts are uncounted, only
\* after a claim has overtaken a late worker: crashes, failed statements and
\* restarts never make applyOutcome meet a row that somebody else moved on.
OutcomeIsFinal ==
    [][\A d \in Watched : lapses[d] = 0 =>
          /\ rows[d].status \in Settled =>
                rows'[d].status \in {rows[d].status, "deleted"}
          /\ rows'[d].attemptCount >= rows[d].attemptCount]_vars

\* Every delivery is settled or goes with its endpoint: no crash strands it,
\* because the lease of a claimed row runs out.
EveryDeliverySettles ==
    \A d \in Deliveries : (rows[d].status = "pending") ~> (rows[d].status # "pending")

\* No delivery connects to an address inside the ranges that the guard is for,
\* even if the name of the endpoint resolved elsewhere when it was accepted.
ConnectsOutside ==
    \A w \in Workers : workers[w].pc = "fetch" => ~Internal(workers[w].peer)

\* isBlockedIp blocks the sampled addresses of those ranges and no other; and a
\* URL accepted at creation can be delivered to while the resolver says the same.
ChecksAgree ==
    /\ \A ip \in Samples : isBlockedIp(ip) <=> Internal(ip)
    /\ \A host \in Hosts, answer \in Answers :
          assertWebhookUrlSafe(host, answer) =>
              isUrlAllowedForDelivery(host) /\ lookup(host, answer) # NoPeer

\* When a worker connects, the checks of creation and of delivery agree with each
\* other and, to the first and last address, with the ranges ssrfGuard.ts lists.
GuardIsExact == (\E w \in Workers : workers[w].pc = "fetch") => ChecksAgree

=============================================================================
