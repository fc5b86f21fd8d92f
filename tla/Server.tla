------------------------------- MODULE Server -------------------------------
(***************************************************************************)
(* The whole server: every handler of the verification flow running        *)
(* concurrently over one database, with receivers that come and go and     *)
(* requests that fail at any await.                                        *)
(***************************************************************************)
EXTENDS Verifications, Matching

\* POST /v1/receivers/:id/heartbeat: the write is skipped while the stored
\* heartbeat is younger than a quarter of the timeout.
Heartbeat(r) ==
    LET last == receivers[r].lastHeartbeatAt
    IN  /\ receivers[r].enabled
        /\ last # None => clock - last > RECEIVER_HEARTBEAT_TIMEOUT_SECONDS \div 4
        /\ receivers' = [receivers EXCEPT ![r].lastHeartbeatAt = clock]
        /\ UNCHANGED <<clock, verifications, inbound, bindings, endpoints, events, deliveries,
                       pc, req, history>>

\* disableReceiver and enableReceiver.
SetReceiverEnabled(r, flag) ==
    /\ receivers[r].enabled # flag
    /\ receivers' = [receivers EXCEPT ![r].enabled = flag]
    /\ UNCHANGED <<clock, verifications, inbound, bindings, endpoints, events, deliveries,
                   pc, req, history>>

\* The process dies, or a statement fails: the open transaction, if any,
\* rolls back and its locks are released; statements already committed stay.
Fail(s) ==
    /\ pc[s] # "idle"
    /\ Done(s)
    /\ UNCHANGED <<clock, tables, history>>

Tick ==
    /\ clock < MaxClock
    /\ clock' = clock + 1
    /\ UNCHANGED <<tables, pc, req, history>>

-----------------------------------------------------------------------------

\* Receivers as addReceiver inserts them, with or without simulateHeartbeat.
InitRest ==
    /\ clock = 0
    /\ receivers \in [Receivers -> [enabled : {TRUE}, lastHeartbeatAt : {None, 0}]]
    /\ verifications = [v \in VerificationIds |-> NoRow]
    /\ inbound = [m \in SmsIds |-> NoRow]
    /\ events = [v \in VerificationIds |-> <<>>]
    /\ deliveries = {}
    /\ pc = [s \in Slots |-> "idle"]
    /\ req = [s \in Slots |-> NoReq]
    /\ told = [v \in VerificationIds |-> {}]
    /\ answers = [m \in SmsIds |-> {}]

Init ==
    /\ InitRest
    /\ bindings = [b \in BindingIds |-> NoRow]
    /\ endpoints = [e \in EndpointIds |-> NoRow]

\* A new request reaches a slot.
Request(s) ==
    \/ \E a \in Apps, p \in Phones, o \in Operators \cup {None} : StartVerification(s, a, p, o)
    \/ \E v \in VerificationIds : ReadVerification(s, v) \/ CancelVerification(s, v)
    \/ \E r \in Receivers : ReceiveInbound(s, r)
    \/ \E a \in Apps, r \in Receivers, p \in Phones : StartBinding(s, a, r, p)
    \/ \E a \in Apps : CheckEndpointCap(s, a)

\* A request in flight takes its next step.
Continue(s) ==
    \/ AcquireLock(s) \/ CountPending(s) \/ ChooseReceiver(s)
    \/ InsertVerification(s) \/ CodeCollision(s)
    \/ AnswerRead(s) \/ LazyExpire(s)
    \/ \E key \in Keys : \/ \E from \in Phones, body \in Bodies : StoreInbound(s, key, from, body)
                         \/ RefuseDuplicate(s, key)
    \/ ClaimVerification(s) \/ NoMatch(s)
    \/ ConsumeBindNonce(s) \/ RefuseBindNonce(s) \/ LinkBinding(s)
    \/ CheckUnbound(s) \/ InsertBinding(s) \/ InsertEndpoint(s)
    \/ SelectEndpoints(s) \/ CommitTransition(s) \/ AbortTransition(s)

Next ==
    \/ \E s \in Slots : Request(s) \/ Continue(s) \/ Fail(s)
    \/ \E r \in Receivers : \/ Heartbeat(r)
                            \/ \E flag \in BOOLEAN : SetReceiverEnabled(r, flag)
    \/ \E b \in BindingIds : RevokeBinding(b)
    \/ \E e \in EndpointIds : DeleteEndpoint(e)
    \/ Tick

Spec == Init /\ [][Next]_vars

\* A handler that can go on goes on: the event loop resumes every request, and
\* PostgreSQL grants a lock to its waiters in the order they queued.
Fairness == \A s \in Slots : SF_vars(Continue(s))

FairSpec == Spec /\ Fairness

-----------------------------------------------------------------------------
(* Types                                                                   *)

StartReq ==
    [id : VerificationIds, app : Apps, phone : Phones, operator : Operators \cup {None},
     expiresAt : Nat, txNow : Nat, tries : Nat, receiver : Receivers \cup {None}]
ReadReq == [verification : VerificationIds, status : Statuses, expiresAt : Nat]
TransitionReq ==
    [verification : VerificationIds, outcome : Terminal, sms : SmsIds \cup {None},
     now : Nat \cup {None}, targets : SUBSET EndpointIds]
BindingReq == [id : BindingIds, app : Apps, receiver : Receivers, phone : Phones]

Pcs == StartPcs \cup {"idle", "answer", "expire", "emit", "commit", "store", "claim", "bind",
                      "link", "unbound", "binding", "endpoint"}

Locals ==
    {NoReq} \cup StartReq \cup ReadReq \cup TransitionReq \cup BindingReq
    \cup [receiver : Receivers] \cup [sms : SmsIds, since : Nat]
    \cup [sms : SmsIds, binding : BindingIds] \cup [id : EndpointIds, app : Apps]

\* What the local variables of a request are is decided by its statement.
ReqTypeOK(label, r) ==
    /\ label \in StartPcs => r \in StartReq
    /\ label = "insert" => r.receiver \in Receivers
    /\ label \in {"answer", "expire"} => r \in ReadReq
    /\ label \in {"emit", "commit"} =>
          /\ r \in TransitionReq
          /\ r.outcome = "verified" => r.sms \in SmsIds /\ r.now \in Nat
    /\ label = "store" => r \in [receiver : Receivers]
    /\ label \in {"claim", "bind"} => r \in [sms : SmsIds, since : Nat]
    /\ label = "link" => r \in [sms : SmsIds, binding : BindingIds]
    /\ label \in {"unbound", "binding"} => r \in BindingReq
    /\ label = "endpoint" => r \in [id : EndpointIds, app : Apps]

TypeOK ==
    /\ clock \in Nat
    /\ receivers \in [Receivers -> ReceiverRow]
    /\ verifications \in [VerificationIds -> VerificationRow \cup {NoRow}]
    /\ inbound \in [SmsIds -> InboundRow \cup {NoRow}]
    /\ bindings \in [BindingIds -> BindingRow \cup {NoRow}]
    /\ endpoints \in [EndpointIds -> EndpointRow \cup {NoRow, DeletedRow}]
    /\ events \in [VerificationIds -> Seq(Terminal)]
    /\ deliveries \subseteq EndpointIds \X VerificationIds \X Terminal
    /\ pc \in [Slots -> Pcs]
    /\ req \in [Slots -> Locals]
    /\ \A s \in Slots : ReqTypeOK(pc[s], req[s])
    /\ told \in [VerificationIds -> SUBSET Terminal]
    /\ answers \in [SmsIds -> SUBSET {"matched", "no_match", "duplicate", "binding",
                                      "binding_no_match"}]

-----------------------------------------------------------------------------
(* The inductive invariant: what the locks and the fresh ids guarantee     *)
(* about the requests in flight.                                           *)

\* The rows a request in flight works on exist; a BIND request's SMS carries
\* a nonce.
RowsExistFor(label, r) ==
    /\ label \in {"emit", "commit"} =>
          /\ Exists(verifications[r.verification])
          /\ r.outcome = "verified" => Exists(inbound[r.sms])
    /\ label \in {"claim", "bind", "link"} => Exists(inbound[r.sms])
    /\ label = "bind" => inbound[r.sms].body.tail \in BindingIds
    /\ label = "link" => Exists(bindings[r.binding])

RowsExist == \A s \in Slots : RowsExistFor(pc[s], req[s])

LockPcs == {"count", "pick", "insert"}

\* One transaction at a time holds the advisory lock of an (app, phone).
LockIsExclusive ==
    \A s, t \in Slots :
        s # t /\ pc[s] \in LockPcs /\ pc[t] \in LockPcs =>
            <<req[s].app, req[s].phone>> # <<req[t].app, req[t].phone>>

\* What the count found is still so when the row is inserted.
RoomIsKept ==
    \A s \in Slots :
        pc[s] \in {"pick", "insert"} =>
            Cardinality(PendingFor(req[s].app, req[s].phone)) < MAX_PENDING_PER_PHONE

\* The id of a start in flight is nobody else's, and no row has it yet.
IdsAreFresh ==
    \A s \in Slots : pc[s] \in StartPcs =>
        /\ ~Exists(verifications[req[s].id])
        /\ \A t \in Slots : s # t /\ pc[t] \in StartPcs => req[t].id # req[s].id

\* The row that a settling transaction has updated is pending to everybody
\* else, and no two transactions have updated the same row.
RowLockIsExclusive ==
    \A s \in Slots : pc[s] \in {"emit", "commit"} =>
        /\ IsPending(req[s].verification)
        /\ \A t \in Slots : s # t /\ pc[t] \in {"emit", "commit"} =>
              req[t].verification # req[s].verification

-----------------------------------------------------------------------------
(* Safety                                                                  *)

\* startVerification never lets an (app, phone) have more pending rows than
\* MAX_PENDING_PER_PHONE, however its count and insert interleave with others.
PendingCap ==
    \A a \in Apps, p \in Phones : Cardinality(PendingFor(a, p)) <= MAX_PENDING_PER_PHONE

\* A settled verification has exactly one webhook event, of its own status,
\* and an unsettled one has none: the UPDATE and the event are one transaction
\* in all three settling paths, and only one of them can win a row.
EventMatchesStatus ==
    \A v \in VerificationIds :
        events[v] = IF verifications[v].status \in Terminal
                      THEN <<verifications[v].status>> ELSE <<>>

\* The advisory lock, the row locks and the fresh ids protect what they are
\* there for: between the count and the insert no other start of the phone
\* adds a row, and a row being settled is settled by one transaction only.
LocksProtect ==
    LockIsExclusive /\ RoomIsKept /\ IdsAreFresh /\ RowLockIsExclusive /\ RowsExist

\* A verified row and the SMS that verified it point at each other, and that
\* SMS came to the row's receiver, from the row's phone, with the row's code,
\* and was claimed at a time before the row's expiry.
SmsJustifies(v, m) ==
    /\ m \in SmsIds
    /\ inbound[m].status = "stored"
    /\ inbound[m].matchedVerificationId = v
    /\ inbound[m].from = verifications[v].phone
    /\ inbound[m].body = [prefix |-> "VERIFY", tail |-> verifications[v].code]
    /\ m[1] = verifications[v].receiver
    /\ verifications[v].verifiedAt < verifications[v].expiresAt

VerifiedBySms ==
    /\ \A v \in VerificationIds :
          verifications[v].status = "verified" =>
              SmsJustifies(v, verifications[v].matchedInboundId)
    /\ \A m \in SmsIds :
          inbound[m].status = "stored" /\ inbound[m].matchedVerificationId \in VerificationIds =>
              LET v == inbound[m].matchedVerificationId
              IN  /\ verifications[v].status = "verified"
                  /\ verifications[v].matchedInboundId = m

\* A row is expired, or a reader was told so, only once its TTL is over,
\* although the expiring UPDATE itself does not look at the clock.
ExpiredAfterTtl ==
    \A v \in VerificationIds :
        \/ verifications[v].status # "none" /\ verifications[v].expiresAt <= clock
        \/ verifications[v].status # "expired" /\ "expired" \notin told[v]

\* No verification exists for an (app, phone) that never completed a binding
\* ceremony: an SMS that carried the nonce of a binding of that (app, phone)
\* reached the binding's receiver from that phone.
StartedOnlyIfBound ==
    \A v \in VerificationIds : verifications[v].status # "none" =>
        \E b \in BindingIds :
            /\ bindings[b].status \in {"verified", "revoked"}
            /\ bindings[b].boundAt # None
            /\ bindings[b].app = verifications[v].app
            /\ bindings[b].phone = verifications[v].phone

\* Two ceremonies for one phone that finish concurrently leave one verified
\* binding per (app, phone), and every verified binding was proved by an SMS
\* from that phone.
OneVerifiedBinding ==
    \A b, c \in BindingIds :
        bindings[b].status = "verified" /\ bindings[c].status = "verified"
        /\ bindings[b].app = bindings[c].app /\ bindings[b].phone = bindings[c].phone => b = c

BindingProvedBySms ==
    \A b \in BindingIds :
        bindings[b].status = "verified" =>
            \E m \in SmsIds : /\ inbound[m].status = "stored"
                              /\ inbound[m].body = [prefix |-> "BIND", tail |-> b]
                              /\ inbound[m].from = bindings[b].phone
                              /\ m[1] = bindings[b].receiver
                              /\ bindings[b].boundAt < bindings[b].expiresAt

\* Every delivery belongs to an endpoint that exists, of the verification's
\* app, subscribed to the type of an event that was emitted.
DeliveriesHaveEvents ==
    \A d \in deliveries :
        /\ endpoints[d[1]].status = "enabled"
        /\ endpoints[d[1]].app = verifications[d[2]].app
        /\ d[3] \in endpoints[d[1]].eventTypes
        /\ events[d[2]] = <<d[3]>>

\* The endpoint cap is read before the insert, so concurrent creations may
\* overrun it, but by no more than the other requests in flight.
EndpointCapOverrun ==
    \A a \in Apps :
        Cardinality(EndpointsOf(a)) <= MAX_ENDPOINTS_PER_APP + Cardinality(Slots) - 1

\* A status other than pending is never left, and what was sent to the user
\* (receiver, code, expiry) never changes.
RowsKept ==
    \A v \in VerificationIds :
        /\ verifications[v].status \in Terminal => verifications'[v] = verifications[v]
        /\ verifications[v].status = "pending" =>
              /\ verifications'[v].status # "none"
              /\ verifications'[v].code = verifications[v].code
              /\ verifications'[v].receiver = verifications[v].receiver
              /\ verifications'[v].expiresAt = verifications[v].expiresAt

\* No step of any handler, in any interleaving, breaks RowsKept: a settled row
\* stays as it is and a pending one keeps what the user was sent.
RowsAreStable == [][RowsKept]_vars

\* Whoever reads a verified or a cancelled status is never contradicted by a
\* later read, although reads, claims and cancels take no common lock.  (An
\* expired one can be: the read answers before the expiry is written.)
ToldIsKept ==
    \A v \in VerificationIds : told[v] \ {"expired"} \subseteq {verifications[v].status}

\* However often a gateway uploads an SMS, and wherever an upload fails, the
\* SMS is processed once: no two uploads get different outcomes, and the SMS
\* is linked to a verification if and only if an upload was answered matched.
OneOutcome ==
    \A m \in SmsIds :
        /\ Cardinality(answers[m] \ {"duplicate"}) <= 1
        /\ "matched" \in answers[m] <=>
              Exists(inbound[m]) /\ inbound[m].matchedVerificationId \in VerificationIds

\* The server implements Lifecycle: created once, settled once, the event and
\* the claim of the SMS in the same step as the settling.
L == INSTANCE Lifecycle WITH
        Verifications <- VerificationIds,
        Sms <- SmsIds,
        status <- [v \in VerificationIds |-> verifications[v].status],
        log <- events,
        proof <- [v \in VerificationIds |->
                     IF Exists(verifications[v]) THEN verifications[v].matchedInboundId ELSE None]
ImplementsLifecycle == L!Spec

-----------------------------------------------------------------------------
(* Liveness                                                                *)

\* Every request ends: the waits for the advisory lock, for row locks and for
\* a conflicting insert never form a cycle, and the code retry gives up.
RequestsEnd == \A s \in Slots : (pc[s] # "idle") ~> (pc[s] = "idle")

=============================================================================
