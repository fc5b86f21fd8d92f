# A TLA+ verification of SYROTP

SYROTP verifies phone numbers by *reverse* SMS: an application asks the server
to verify a phone, the user sends a code from that phone to a receiver (a modem
or an Android phone), a gateway uploads the SMS, the server matches it and tells
the application by webhook. This directory holds TLA+ models of the parts of
that flow in which processes, threads and transactions interleave, the TLC
configurations that check them and TLAPS proofs of what matters most.

## The system

| Component | State | Operations | What is hard |
| --- | --- | --- | --- |
| Verification service (`services/verifications.ts`) | `verifications` | start (binding check, advisory lock, count, receiver choice, insert, collision retry), read with lazy expiry, cancel | several server processes; state read before an await and used after it; expiry by whoever reads first |
| Inbound matching (`services/matching.ts`, `routes/inbound.ts`) | `inbound_sms` | store, recognise a duplicate, BIND branch, claim, no match | the store commits before the claim; `SKIP LOCKED`; a clock read before the transaction |
| Phone bindings (`services/phoneBindings.ts`) | `phone_bindings` | start, consume a nonce by SMS, revoke | two ceremonies for one phone; a unique index as the only guard |
| Webhooks (`services/webhooks.ts`) | `webhook_endpoints`, `webhook_events`, `webhook_deliveries` | create, delete, emit inside the settling transaction | an endpoint deleted under way; a cap without a lock |
| Delivery worker (`services/webhookWorker.ts`, `workers/webhook.ts`) | `webhook_deliveries` | claim a batch under a lease, POST, apply the outcome, start, stop | crashes between POST and UPDATE; leases that run out |
| Receivers (`admin/receivers.ts`, `routes/inbound.ts`) | `receivers` | register, enable, disable, heartbeat | health judged by a `now()` that is old when used |
| GSM gateway (`apps/gsm-gateway`) | modem memory, SQLite queue, auth latch | read, queue, delete, upload, back off | two threads; crashes; reused modem indices; answers lost on the way |
| Android gateway (`apps/android-gateway`) | a JSON file, preferences | receive, enqueue, upload | two objects over one file |
| Gateway authentication, rate limits (`services/hmac.ts`, `services/rateLimit.ts`, `routes/inbound.ts`) | Redis keys, `receivers` | check skew, receiver and nonce, count three windows, heartbeat | windows that do not end together; Redis failing; rows read before an await |
| URL guard (`lib/ssrfGuard.ts`) | none | judge a URL at creation, an address at connect | names that resolve differently later; prefix edges |
| WebAuthn fallback (`services/webauthn.ts`, `routes/webauthn.ts`) | challenges, credentials | options, register, log in | overlapping requests; read, check, write of a counter |
| UI controllers (`packages/{web-component,react,android-ui,swift-ui,flutter}`), `waitForVerification` of `packages/sdk-js` | the displayed verification | poll, count down, stop, restart | late answers against a local countdown |
| Load test tool (`tools/loadtest`) and `syrotp loadtest` | metrics, fixtures, verdicts | run a scenario with a pool of loops, judge it, clean up, add up a suite | one loop failing while others run; partial failure of set-up and clean-up; servers that never answer |
| `syrotp receiver` (`packages/cli`, `admin/receivers.ts`) | `receivers` | add, disable, enable | commands that overlap with requests in hand |
| Admin and hosted pages, API keys, audit, metrics, abuse signals | none that the flow reads back | calls of the above | |

The server's handlers share nothing but PostgreSQL; the worker shares
`webhook_deliveries` with them; the gateways reach them by signed HTTP.

## The modules

`Database` declares the tables, the request slots and the locks. `Webhooks`,
`PhoneBindings`, `Verifications` and `Matching` model the services, one action
per statement that another request can come between; `Server` composes them,
adds receivers, failures and time, and states the properties. `Lifecycle` is the
abstract specification of a verification that `Server` implements.
`WebhookWorker` (with the pure functions of `WebhookUrls`) and `GsmGateway` are
specifications of their own: what they share with the server is one table and one
HTTP call, which their actions `Emit`, `Remove` and `PostInbound` stand for.
`GatewayAuth` is what comes before `Server`'s `ReceiveInbound` and `Heartbeat`:
those two begin where it lets a request pass. `WebAuthn` shares nothing with the
others but the limiter, `RateLimit`, which `GatewayAuth` uses as well.
`UiWidgets` has the server as rows that settle at any moment, `LoadTest` has it as
any sequence of answers. `MC*` modules and `MC*_*.cfg` files instantiate them.

### Server

A *slot* is a request in flight on any of the server processes. `pc[s]` is the
statement its handler executes next and `req[s]` holds the local variables that
survive an await. The correspondence:

| Actions | Code |
| --- | --- |
| `StartVerification`, `AcquireLock`, `CountPending`, `ChooseReceiver`, `InsertVerification`, `CodeCollision` | `startVerification`, `pickReceiver`, `runWithCodeCollisionRetry` |
| `ReadVerification`, `AnswerRead`, `LazyExpire` | `getVerification`, the two hosted reads, `lazyExpireAndEmit` |
| `CancelVerification` | `cancelVerification` |
| `ReceiveInbound`, `StoreInbound`, `RefuseDuplicate`, `ClaimVerification`, `NoMatch`, `LinkBinding` | the inbound route and `processInbound` |
| `StartBinding`, `CheckUnbound`, `InsertBinding`, `ConsumeBindNonce`, `RefuseBindNonce`, `RevokeBinding` | `services/phoneBindings.ts` |
| `CheckEndpointCap`, `InsertEndpoint`, `DeleteEndpoint` | `createWebhookEndpoint`, `deleteWebhookEndpoint` |
| `SelectEndpoints`, `CommitTransition`, `AbortTransition` | `emitVerificationEventInTx` and the end of the transaction around it |
| `Heartbeat`, `SetReceiverEnabled` | the heartbeat route, `enableReceiver`, `disableReceiver` |
| `Fail` | a process that dies, a statement that fails: the transaction rolls back |

A transaction's writes become visible when it commits (READ COMMITTED); the
advisory lock and the row locks it holds are read off `pc` (`LockHeld`,
`RowLocked`). `now()` is fixed at the start of the transaction (`txNow`),
`serverNow` and the nonce's `now` are any instant between the store and the
statement that uses them. A nonce, 120 random bits, is identified with its
binding; codes are few, so that they collide. An id is never given twice: a
deleted endpoint leaves `DeletedRow` behind. `told` and `answers` are history
variables: what readers and gateways have been told.

### WebhookWorker

`dueIn` is `next_attempt_at - now()`. `ClaimBatch` is the claiming transaction,
`Refuse`, `Post`, `Answer` and `ApplyOutcome` are `processOne`, one row after the
other, as the code does it. Time passes only while workers sleep or wait for an
endpoint. `Crash` loses a worker's batch, `FailApply` is an UPDATE that throws,
`Remove` a deleted endpoint that takes its deliveries along. `lapses[d]` counts the
claims of a delivery that another worker still had in hand (`Holders`): its lease ran
out although its worker is only late. `posts` and `accepted` count requests and the
2xx that a worker saw; what an endpoint took and answered after the timeout is a
retry, for the code and here.
The branch for a disabled endpoint is in `Refuse`, although no statement of the
server disables one today.

### GsmGateway

The reader thread (`ListSms`, `AddToQueue`, `DeleteSms`), the worker thread
(`Snapshot`, `PostInbound`, `HandleResult`), the modem, the SQLite queue and the
set of SMS the server has stored. `Stamp[m]` is the SMS's time stamp (a second)
and sender, so `KeyOf` is the idempotency key without its constant parts.
`DeleteSms` may fail, `PostInbound` may reach the server and still be a network
error, an exception may end an iteration of either loop (`IterationFails`) and
the process may be restarted at any point (`Restart`).

### GatewayAuth and RateLimit

A handler is a request in hand, `pc` the await it is at: `IpCheck`,
`SelectReceiver`, `TakeNonce`, `ReceiverCheck`, `AppCheck`, `ProcessInbound` for an
SMS, `HeartbeatAge` and `HeartbeatUpdate` for a heartbeat; every check can end in
an answer, a rate check may get no reply from Redis (the request passes), and a
statement may fail (`Fail`). `ReadReceiver` and `WriteReceiver` are the two
statements of `disableReceiver` and `enableReceiver` as `syrotp receiver` runs
them; `AddReceiver` is the registration. Time is relative, as in
`WebhookWorker`. `receiver list` and `receiver test` change nothing: the verdict of
the former is `Healthy`, the requests of the latter are among those that arrive.
`Choosable` is what a start asks of a receiver; it differs from `Healthy` at the
timeout itself (`<` in `services/verifications.ts:153`, `<=` in
`admin/receivers.ts:156`).
A signature that does not verify is one of the outcomes of `SelectReceiver`.
`rateCheck` is one step: its round trip is short against its window.

### WebAuthn

A slot is a request on one of the four routes. `SelectChallenge` and `MarkUsed`
are the transaction of `consumeChallenge`; `SelectExisting` and `InsertCredential`
are `verifyRegister`; `SelectCredential` and `UpdateCounter` are `verifyLogin`.
`Sign` is an authenticator; a response may be posted any number of times, for any
`client_ref`. The library is external: it accepts a response that signs the
expected challenge with a counter above the stored one, or both zero. `ceremonies`
holds every success with the counter it has shown, that of a registration too that
found the credential stored and wrote nothing (`wrote`). `raced` holds the
credentials whose counter two overlapping logins have put in doubt; a login that no
other one overlaps and that brings the authenticator's newest count takes its
credential out again.

### UiWidgets

One module for three ports of one loop; `kind` says which. `Poll`, `Answer` and
`PollAnswered` (the controller), `SetVerificationState` (the hook) or
`CallAnswered` (`waitForVerification`) are a request and what is done with its
answer, `CountdownTick`, `SetSecondsLeft` and `Commit` the countdown, which for
React takes a render to become visible. `Connect`, `Disconnect`, `SetVerification`,
`Restart` and `Unmount` are the ways an instance is begun and ended. The clock is
the client's; the server settles whenever it likes. `computeSecondsLeft` rounds
down, so the last second is over when it begins (`Second`). The clients also know a
status `failed`, which they display and do not announce; the server declares it
(`db/schema.ts:28`) and never stores it, so no row has it here.

### LoadTest

`Advance` is `runSuite` and `runOne`, one action per await that can fail;
`Work(w)` is a loop of `runPool` with the requests its item still has to make.
A `suite` is one process with one verdict, a `chain` is a process per scenario
joined by `&&`, as `loadtest quick` does it. When an item throws, `Promise.all`
rejects and the other loops run on as `strays`. `midpoint` counts the calls of
`onMidpoint`; what such a call achieves is not in the model, because the tool does
not look at it. A limit on a p95 is in force if the scenario's policy or a flag
(`PolicyOverrides`) sets it. The fixtures' app rows are
`apps`; those whose deletion failed, or whose set-up failed after the insert,
`leaked`.

## The runs

| Run | Shows |
| --- | --- |
| `settle` | `PendingCap`, `StartedOnlyIfBound`: concurrent starts, when one phone has been bound and the other has not; `TypeOK`, `LocksProtect`, `EventMatchesStatus`, `VerifiedBySms`, `ExpiredAfterTtl`, `RowsAreStable`, `ImplementsLifecycle`: claims, cancels and expiries race; `ToldIsKept`, `OneOutcome`: what a reader or a gateway was told is not taken back |
| `live` | `DeliveriesHaveEvents`, `EndpointCapOverrun`: endpoints come and go meanwhile; `RequestsEnd`: no wait is for ever, the retry gives up |
| `bindings` | `OneVerifiedBinding`, `BindingProvedBySms`: two ceremonies for one phone, revocations |
| `worker` | `DoublesAreLapses`, `LapsesAreLate`, `OutcomeIsFinal`, `EveryDeliverySettles`: two workers, a crash, failed UPDATE or shutdown, a deleted endpoint, and a lease that a batch can use up, so that late workers happen; `ConnectsOutside`: names that change their addresses; `GuardIsExact`: the guard against the ranges written as first and last address |
| `gsm` | `NoSmsLost`, `StoredOnce`, `EverySmsHandled`: failing deletes and uploads, restarts |
| `auth` | `AcceptedApart`, `AppWithinLimit`, `HeardMeansHealthy`, `DisabledIsObeyed`: overlapping, repeated and late requests, commands meanwhile, Redis and Postgres failing |
| `webauthn` | `ChallengeUsedOnce`, `LoginAfterRegister`, `CounterIsHighest`: overlapping and repeated ceremonies, failures |
| `ui` | `AnnouncedIsTrue`, `SilentAfterStop`, `SettledStays`, `ClientSettles`: late and failing polls, countdowns, restarts |
| `loadtest` | `GreenMeansClean`, `MeasuredToTheEnd`, `NoFixtureLeft`, `Terminates`: every kind of answer, failing set-up and clean-up |

Three runs end in a violation:

* `same_second`: two SMS of one sender in one second at one modem index share a
  key; the second is deleted and never uploaded.
* `late_answer`: the countdown expires a verification while a poll is under way;
  the poll's *pending* moves the web component back to pending, with its timers
  gone (`controller.ts:144`). The React hook, whose contract the comment calls
  identical, discards such an answer (`SettledStays`).
* `slow_batch`: a batch of 25 deliveries with timeouts of 5 s does not fit into the
  lease of 60 s (`webhookWorker.ts:134`); a row late in a slow batch is claimed by a
  second worker, and both deliver it. `workers/webhook.ts:16-19` says that workers
  race "without double-delivering", `docs/webhooks.md:171` says of a 2xx "We stop."
  The instance is scaled down (two deliveries, 2 s each, a lease of 3 s) and has
  neither crash nor failure. The worker that is late may also overwrite what the
  other one wrote, a `delivered` by a `failed` or a higher attempt count by a lower
  one, since `applyOutcome` updates by id alone (`webhookWorker.ts:435`).

What does hold of the workers is what `worker` checks and `WorkerProofs` proves, for
any lease: each double goes with a failure or with an overtaken claim
(`DoublesAreLapses`); each overtaken claim lets one late worker
overwrite a settled row at most (`LateWritersCounted`, which is proved only); a
delivery that was never overtaken keeps its outcome and its attempts
(`OutcomeIsFinal`); and the first to be
overtaken is one whose place in its batch times the timeout reaches the lease
(`LapsesAreLate`). With the 60 s and 5 s of the code that is the 12th row of a batch
or a later one: the first eleven are safe, the other fourteen are not.

### Where code and text differ

The models show further deviations from a comment or a document, which no run is
spent on:

* An upload that failed after the store is answered *duplicate* when it is
  repeated, though the SMS never had an outcome (`matching.ts:103`);
  `docs/security-checklist.md:62` says the duplicate "returns the original
  outcome". What holds is `OneOutcome`: an SMS never gets two.
* A reader is told *expired* before the expiring transaction has run
  (`verifications.ts:387`), and the row may still be cancelled, or be verified by
  an upload that read `serverNow` before the expiry; `docs/sdk-contract.md:104`
  says of `expired` that no matching inbound had arrived. What holds is
  `ToldIsKept`, for the other answers.
* The key of a nonce lives from the acceptance on, while the time stamp may be
  ahead of the server's clock: one nonce can be accepted again a skew later
  (`hmac.ts:89`; the comment at line 86 says once within the skew window).
  `AcceptedApart` states the bound that holds; the idempotency key still stores
  the SMS once.
* `services/webauthn.ts:14-15` means to keep the sign count "up to date after each
  ceremony", and `db/schema.ts:275` says it "must strictly increase across logins".
  Two overlapping logins can leave the smaller counter in the row
  (`webauthn.ts:342`), and a registration that finds the credential stored does not
  write the counter it has shown (`webauthn.ts:254-256`). `CounterIsHighest` states
  what holds: the stored counter is the highest that a login, or the registration
  that stored the credential, has shown, except after an overlap and until the next
  login with the newest count.
* `docs/multi-instance-deployment.md:301-308` says that a delivery whose secret
  cannot be unwrapped "stays pending forever" and that "no row is abandoned".
  `webhookWorker.ts:316-329` makes it a permanent error, so it is settled as failed
  at its first attempt (`Refuse`); `EveryDeliverySettles` includes it.
* `docs/performance.md:35` says that in `receiver-disabled` a receiver "flips disabled
  mid-run", `tools/loadtest/README.md:54` says the same. Without `DATABASE_URL` the
  hook only warns (`scenarios/index.ts:262-266`), an UPDATE that fails is only logged
  (line 44), and the scenario passes either way with both receivers enabled.
  `MeasuredToTheEnd` speaks of the call of the hook alone.
* A suite counts every 5xx against its hard safety, those too that
  `acceptance.ts:104-106` calls expected in `receiver-disabled`; with own
  fixtures that scenario leaves a real receiver disabled; and a storm whose seed
  start was refused with a 4xx passes having replayed nothing.
* `cli/src/commands/loadtest.ts:174-177` says a missing environment maps to exit 3;
  `mapLoadtestExit` gives 5 or 1.
* Revoking a revoked binding moves its `revoked_at`
  (`services/phoneBindings.ts:190`); network errors use up the attempts that the
  GSM gateway means for 4xx answers (`service.py:186`); and after a 401 the rest
  of the batch is still sent (`service.py:151`).
* Pending rows past their TTL that nobody reads count against
  `MAX_PENDING_PER_PHONE` (`verifications.ts:253`).

### Bounds

*Server.* Two slots give every pair of handlers, and the races here are between
pairs: a lock holder and a waiter, a reader and a writer. `settle` has two codes
for a cap of 1: codes are unique per receiver and phone, and with one code the cap
could not be exceeded, whatever the lock does; its receiver carries one of two
operators, so that a start prefers it, or falls back to it. Two phones show that
locks and claims tell phones apart; clocks up to 1 with TTLs of 1 give one instant
before and one after every deadline. `live` has one code, so that starts collide
and retry, and three endpoints under a cap of 1, one of them there from the start,
so that the cap can be overrun as far as two slots allow and further if the count
were wrong; its clock stands still and it has one phone. Deliveries are made in
`live` only: `settle` has no endpoint. `bindings` has two bindings for the race of
two ceremonies; only it goes through the ceremony from an empty database, the other
server runs begin where one phone's ceremony is over (`BoundInit`). Larger caps,
more slots and more phones are what the theorems below are for. `MaxClock`
bounds the clock.

*WebhookWorker.* Two deliveries of one endpoint make a batch of two; a timeout of 1
and a lease of 2 let the second of them, and only it, be overtaken, by the other
worker, with and without a fault besides. Two attempts give one retry and its end.
`MaxInterruptions` bounds crashes, failed UPDATEs and shutdowns, `MaxOverdue` how far
a due row is told apart; the history of one delivery is followed (`Watched`), since
the specification tells them apart by nothing. Hosts are a public and an internal literal, a name and a
name refused by convention; the resolver answers nothing, one address or two, in
either order. `Samples` are the addresses on and beside both ends of every range,
as IPv4 and embedded in IPv6.

*GsmGateway.* `MaxCrashes` bounds restarts, `Inc` stops counters at the largest
value that is compared.

*GatewayAuth.* A skew of 1, with time stamps that are 1 ahead (`Offsets`), is the
case in which a nonce can come again; a request is in hand for at most
`MaxStall` seconds; a timeout of 4 makes the quarter in which heartbeats are not
written one second; the windows last 2 and their limits are 1 to 3, the smallest
for the app, so that each one is met. `MaxArrivals`, `MaxRuns` and `MaxFaults`
bound requests, commands and faults: two of each of the first suffice for a
disable and an enable, and for a request in hand while another arrives.

*WebAuthn.* The run begins after one registration, which succeeded or not, so
that two more challenges give a second registration and a login, or two logins
that overlap; two clients share one authenticator; counters go to 2.

*UiWidgets.* Two verifications, two requests in flight and two controllers of an
element: an answer for the first arrives while the second is shown. A second is
two units of the clock, so that rounding shows. One poll may fail (`MaxErrors`).

*LoadTest.* Two items (`Total`) and two loops; a plan for each shape of scenario
(`MCPlans`), single and after another one.

Slots, ids, codes, keys, handlers and messages are symmetric in the safety runs;
runs with a liveness property use no symmetry.

Deadlock is checked for the server, the worker, the authentication and
WebAuthn. The gateway may rest when everything is uploaded and no SMS is left to
arrive, or after a 401; a client rests when its verification is settled; the load
test ends.

### Fairness

`Server`: strong fairness of each slot's next step. The event loop resumes every
await, and PostgreSQL grants locks to waiters in the order they queue, so a
waiter that is able to go on again and again does go on. Requests need not
arrive, and `Fail` and time need not happen. `WebhookWorker`: weak fairness of
each worker's step, of its restart (the supervisor) and of time. `GsmGateway`:
weak fairness of both threads and of backoffs, strong fairness of the server
accepting an SMS that is offered again and again; without the last one an outage
that never ends keeps an SMS in the queue for ever, which is what the code wants.
`UiWidgets`: weak fairness of intervals, of React's renders, of requests ending,
of time, and of the server settling a row, which its TTL and lazy expiry bring
about as long as somebody asks. `LoadTest`: weak fairness of the event loop and of
each loop's step; a request ends because the client's timer aborts it, which is a
part of `Request`, not an assumption.

## What is proved

The theorems hold for every value of the constants that meets the assumptions:
for `Server` those of `Database` (receivers are numbers, `None` is no value of any
column, ids are finitely many, the limits are positive); for `WebAuthn` that its
limits are numbers and `None` is no id; for `GsmGateway` that its limits are
numbers; for `WebhookWorker` that its numbers are numbers, the deliveries are
finitely many (`WorkerNumbers`) and hosts and answers are made of IPv4 and IPv6
addresses (`HostsAssumption`); for `GatewayAuth` that skew, timeout and windows are
positive (`AuthNumbers`); for `UiWidgets` that the deadlines lie within the clock's
bound (`UiAssumption`); for `LoadTest` that plans are nonempty lists of its
scenarios and that there are items and finitely many loops (`LoadTestAssumption`).
One theorem, `NothingLost`, has a hypothesis of its own,
`DistinctStamps`.

### Server

`ServerProofs` (types, the pending cap, settling) and `OutcomeProofs` (bindings and
what is told, on top of it). Most of the invariants speak of one row and one
request; so most of the proofs go backwards: lemmas say which steps can write a
table at all and which steps lead to a `pc` (`StaysOrCame`, `CameTo`), and a conjunct
is proved from those few steps, not from all thirty.

* `TypeCorrect`: `Spec => []TypeOK`. Types are not inductive alone: a
  commit writes to `verifications[req[s].verification]` as a record, so the row
  must exist. `TypeInv` adds `RowsExist`, kept because rows are never deleted
  (`RowsStay`).
* `PendingCapHolds`: `Spec => []PendingCap`. The strengthening is
  `LockIsExclusive` (one transaction between the lock and its end per app and
  phone) and `RoomIsKept` (what the count found is still so before the insert).
  The insert adds one row to its own phone and none to the phone of any other
  transaction in the critical section; every other step can only shrink the sets
  of pending rows.
* `EventsMatch`: `Spec => []EventMatchesStatus`, and `RowsStable`:
  `Spec => RowsAreStable`. The strengthening is
  `RowLockIsExclusive` (a row updated by an open transaction is still pending, and
  is updated by no other one) and `IdsAreFresh` (the id of a start in flight has no
  row and belongs to no other start). Hence a commit finds a pending row without
  an event, and an insert a free id.
* `OneBinding`, `BindingProved`: `OneVerifiedBinding`, `BindingProvedBySms`. `CeremonyInv`
  adds to them that the id of a ceremony in flight has no row and belongs to no
  other one, that an SMS which consumes a nonce begins with BIND, and that a
  verified row has its time.
  `BoundFirst`: `StartedOnlyIfBound`. The binding that the check of a start found
  may be revoked meanwhile, but it does not go away (`BoundInv`).
* `ToldForGood`, `NeverEarly`: `ToldIsKept`, `ExpiredAfterTtl`. `ReadInv`: the row that
  a request has read and not answered yet says what the table says, or was pending
  when it was read; who is about to expire a row has compared the clock.
* `ProvedBySms`, `OneOutcomeHolds`: `VerifiedBySms`, `OneOutcome`. `ClaimInv`: one
  request at most is at work on an SMS (the unique key of `inbound_sms` makes every
  other upload a duplicate), and until it ends the SMS has no answer and no link.
* `Implements`: `Spec => ImplementsLifecycle`, the refinement. Each step of `Server`
  is a step of `Lifecycle` or a stutter; that settling by an SMS is the abstract
  claim needs that a verification which is not verified has no matched SMS
  (`UnmatchedUntilVerified`).
* `DeliveriesJustified`: `DeliveriesHaveEvents`. `DeliveryInv`: an endpoint that a
  transaction has selected is of the right app and subscribed as long as it exists,
  and ids of deleted ones do not come again. `CapOverrunBounded`:
  `EndpointCapOverrun`. `RoomIsSpent`: endpoints and creations past their count
  together stay below the cap plus the slots.
* `LocksHold`: `LocksProtect`, the conjunction of the lock invariants of
  `ServerProofs`.

### The worker and the guard

`WorkerProofs!DeliveredOnce`, `LateWriters`, `OvertakenAreLate` and `OutcomesStay`
state `DoublesAreLapses`, `LateWritersCounted`, `LapsesAreLate` and `OutcomeIsFinal`,
for every lease, timeout, batch size and number of workers: nothing is assumed of how
long a batch takes. The inductive invariant
`WorkerInv` is a balance (`CreditRight`). For each delivery, and for each attempt, what
was counted (the 2xx, or the requests), the workers that hold the delivery and may
still count one more, and one if the row is free and may be claimed for it, are
together at most one more than failures and lapses. A claim of a free row moves its
one from the row to the worker; a claim of a row in hand adds a worker and a lapse;
a crash loses a worker, and gives the row back, for a failure. Likewise the holders of
a delivery are at most the lapses, and one more while it is pending (`HoldersRight`).

As long as a delivery was never overtaken it is in one hand at most (`Alone`), the
attempt in hand is one above the row's (`ItemsRight`), and what its lease has used up
is no more than the timeouts of the rows up to its place in the batch, less what is
left of the request under way (`Span`): hence `OvertakenAreLate`, and hence
`OutcomesStay`, because an `applyOutcome` by the only holder meets the row as it was
claimed.

`BlockedIsInternal` shows for every IPv4 and IPv6 address, not only for `Samples`,
that the masks of `isBlockedIp` and the ranges written as first and last address
agree: a range whose ends begin alike and part once is a condition on the groups up
to the place where they part (`RangeIsBox`), and so is a prefix. `GuardExact`
(`GuardIsExact`) follows, and with the invariant that a request under way goes to
what a lookup gave (`PeersRight`) `ConnectsPublic` (`ConnectsOutside`).

### The gateway

`GsmProofs!NeverStoredTwice`: `Spec => []StoredOnce`, for any time stamps. `PlaceInv`:
there is a function from SMS to modem indices such that every reading, row, upload
and stored SMS has its SMS under that index, so two of one SMS have one key.
`NothingLost`: `NoSmsLost` if no two SMS share time stamp and sender
(`DistinctStamps`; the run `same_second` shows that it is needed). `LossInv`: what the
reader is about to delete is in the queue, at the server or given up, and what the
worker is about to remove has reached the server or is given up.

### WebAuthn

`WebAuthnProofs!SingleUse`: `ChallengeUsedOnce`, `RegisteredFirst`:
`LoginAfterRegister`, `CounterHolds`: `CounterIsHighest`. The first needs
that a challenge in the hands of a request (selected under `FOR UPDATE`, or marked
used for it) is in the hands of no other one (`HeldByOne`), is used exactly from
the mark on (`HeldRight`), is counted only when used (`UsesCounted`), and is held
by nobody once a ceremony has succeeded with it (`CeremoniesRight`); the second
that the row a login was checked against is a registered row of its own
`client_ref` (`RowRight`) and that every row comes from a registration
(`RowsRegistered`); the third that, unless logins overlapped, the counter that a
login compares with is still the stored one (`FloorRight`), that whatever was
shown in a ceremony has a row (`KeysStored`), so a new row has no past, and that
nothing shown is above the authenticator's own count (`SignedRight`), so that a login
which brings that count puts a row that was in doubt right again.

### Authentication, limits and heartbeats

`AuthProofs` has a base invariant (`BaseInv`: a handler past the signature holds a
signed message of a receiver that has a row, a running command has its receiver)
and one strengthening per property:

* `LimitOfTheApp` (`AppWithinLimit`): what was admitted is at most the bucket's count
  plus the missing replies, and a bucket that lets through is within its limit
  (`LimitInv`); a window that ends resets both.
* `DisableHolds` (`DisabledIsObeyed`): while a receiver is silenced its row is disabled
  and nobody is enabling it (`Silent`), and a request that arrived since has not got
  past the select (`Muted`).
* `AnsweredIsHealthy` (`HeardMeansHealthy`): the time in the row is at most the slack
  older than the last answer (`HeardRow`). The slack is a quarter of the timeout,
  because of the skipped write, or the stall between the read of the clock and the
  update, because an older time may overwrite a younger one. A start may choose it
  as long as the timeout is not reached: `Choosable`, the same with a strict bound.
* `ReplaysApart` (`AcceptedApart`): the life that is left to the nonce's key and the age
  of the last acceptance add up to the skew at least, and the time stamp shrinks with
  every acceptance (`NonceOf`); a request past the time check is no older than its
  stall allows (`FreshHand`).

### The widgets

`UiProofs!AnnouncesTheTruth`, `StopIsFinal` and `SettledIsFinal` state `AnnouncedIsTrue`,
`SilentAfterStop` and `SettledStays` for any number of verifications, requests in
flight and instances. `UiInv` says of an instance (`InstInv`) that its timers run only
while it is pending and not stopped, and that what a hook has queued for its next
render is true of its own row; of a request (`PollInv`) that its answer, if final, is
what the row still is, that a hook which has shown a settled status has torn down the
effect that asked, and that a call asks one question at a time (`OneAtATime`). The
element is left out of `SettledStays`: that is `late_answer`.

### The load test

`LoadProofs!GreenIsClean`, `PassedIsMeasured` and `FixturesAreRemoved` state
`GreenMeansClean`, `MeasuredToTheEnd` and `NoFixtureLeft`. Every step of a loop returns,
takes an item, goes on with it or finishes it (`WorkEffect`); the invariant follows
from these four and the steps of `runOne`. Its parts: the items finished and those in
a loop's hands add up to the indices handed out, and loops only return when these are
used up (`JoinInv`), so that an orderly end of `Promise.all` means that all is done
(`MeasuredInv`); loops that run on afterwards do so only where an exception was counted
(`DrainInv`); whatever bad was seen is still in the counters of the step, or in
`hardSafety`, or has failed a step (`SeenInv`): this is where a counter that is reset
too early, or a step whose counters were not added, would show; an app row that is
not given up belongs to the current step, until its `finally` (`FixtureInv`).

### Only model-checked

Liveness (`RequestsEnd`, `EveryDeliverySettles`, `EverySmsHandled`, `ClientSettles`,
`Terminates`) is out of the proof system's reach and stays with TLC. Every invariant
and action property of the passing runs is stated by a theorem. The rates of
`Evaluate` are sums over a set of operations, about which nothing is proved: the
theorems hold whatever they give.

## What is not modelled

Formatting, masking, translations, QR codes, page and report contents;
cryptography and phone parsing (pure functions over strings); metrics, audit and
abuse signals, which nothing in the flow reads back; rotation of keys; API keys,
a lookup that changes one last-used column; configuration and migrations; the
calls of the SDKs that are one request each. A power loss that undoes a committed
SQLite transaction is outside the model. The Android gateway and the Kotlin,
Swift and Dart controllers are not modelled yet.

## Plan

1. The Android gateway: the file queue under two objects and crashes.
2. The Kotlin, Swift and Dart ports as further kinds of `UiWidgets`.
3. Unreadable time stamps in `GsmGateway`; a composition of gateway,
   authentication and server in which the whole path of an SMS is followed.
4. The migration runner; the admin session.
