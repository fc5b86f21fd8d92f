---------------------------- MODULE Verifications ----------------------------
(***************************************************************************)
(* services/verifications.ts: start, read (with lazy expiry) and cancel.   *)
(***************************************************************************)
EXTENDS Webhooks

\* runHealthyReceiverQuery without its ORDER BY: last_heartbeat_at is
\* compared with now(), which PostgreSQL fixes when the transaction begins.
HealthyReceivers(a, txNow) ==
    {r \in Receivers : /\ AppOf[r] = a
                       /\ receivers[r].enabled
                       /\ receivers[r].lastHeartbeatAt # None
                       /\ receivers[r].lastHeartbeatAt > txNow - RECEIVER_HEARTBEAT_TIMEOUT_SECONDS}

PendingOn(r) ==
    Cardinality({v \in VerificationIds : IsPending(v) /\ verifications[v].receiver = r})

\* ORDER BY pending_count, created_at LIMIT 1, as the set of its rows.
LeastLoaded(S) ==
    {r \in S : \A q \in S : \/ PendingOn(r) < PendingOn(q)
                            \/ PendingOn(r) = PendingOn(q) /\ r <= q}

\* Fault: nobody looks whether the query returned a row.
PickReceiverOrNull(a, operator, txNow) ==
    LET rows == LeastLoaded(HealthyReceivers(a, txNow))
    IN  IF rows = {} THEN {None} ELSE rows

\* pickReceiver: the preferred operator first, any healthy receiver otherwise.
PickReceiver(a, operator, txNow) ==
    LET healthy == HealthyReceivers(a, txNow)
        preferred == {r \in healthy : operator # None /\ OperatorOf[r] = operator}
    IN  LeastLoaded(IF preferred # {} THEN preferred ELSE healthy)

\* Fault: the phone-binding check is skipped.
AlwaysBound(a, p) == TRUE

\* The phone-binding check of startVerification.
Bound(a, p) ==
    \E b \in BindingIds : /\ bindings[b].status = "verified"
                          /\ bindings[b].app = a
                          /\ bindings[b].phone = p

-----------------------------------------------------------------------------
(* startVerification                                                       *)

StartPcs == {"lock", "count", "pick", "insert"}

\* newId: a fresh id, which no other start in flight was given either.
FreshIds ==
    {v \in VerificationIds : /\ ~Exists(verifications[v])
                             /\ \A s \in Slots : pc[s] \in StartPcs => req[s].id # v}

\* The phone-binding check, the id and the expiry: all outside the transaction.
StartVerification(s, a, p, operator) ==
    /\ pc[s] = "idle"
    /\ Bound(a, p)
    /\ \E v \in FreshIds :
          GoTo(s, "lock", [id |-> v, app |-> a, phone |-> p, operator |-> operator,
                           expiresAt |-> clock + VERIFICATION_TTL_SECONDS,
                           txNow |-> clock, tries |-> 0, receiver |-> None])
    /\ UNCHANGED <<clock, tables, history>>

AcquireLock(s) ==
    /\ pc[s] = "lock"
    /\ ~LockHeld(req[s].app, req[s].phone)
    /\ GoTo(s, "count", req[s])
    /\ UNCHANGED <<clock, tables, history>>

\* too_many_pending ends the request and its transaction.
CountPending(s) ==
    /\ pc[s] = "count"
    /\ IF Cardinality(PendingFor(req[s].app, req[s].phone)) >= MAX_PENDING_PER_PHONE
         THEN Done(s)
         ELSE GoTo(s, "pick", req[s])
    /\ UNCHANGED <<clock, tables, history>>

\* no_receiver ends the request and its transaction.
ChooseReceiver(s) ==
    LET rows == PickReceiver(req[s].app, req[s].operator, req[s].txNow)
    IN  /\ pc[s] = "pick"
        /\ \/ rows = {} /\ Done(s)
           \/ \E r \in rows : GoTo(s, "insert", [req[s] EXCEPT !.receiver = r])
        /\ UNCHANGED <<clock, tables, history>>

\* Rows the partial index verifications_pending_uniq compares an insert with.
SameCode(r, code) ==
    {v \in VerificationIds : /\ IsPending(v)
                             /\ verifications[v].receiver = r.receiver
                             /\ verifications[v].phone = r.phone
                             /\ verifications[v].code = code}

\* The INSERT and the COMMIT.  The code was generated before the transaction
\* and nothing reads it earlier than here.  The insert waits for a conflicting
\* row that another transaction is settling.
InsertVerification(s) ==
    /\ pc[s] = "insert"
    /\ \E code \in Codes :
          /\ SameCode(req[s], code) = {}
          /\ verifications' = [verifications EXCEPT ![req[s].id] =
                [app |-> req[s].app, phone |-> req[s].phone, receiver |-> req[s].receiver,
                 code |-> code, status |-> "pending", expiresAt |-> req[s].expiresAt,
                 verifiedAt |-> None, matchedInboundId |-> None]]
    /\ Done(s)
    /\ UNCHANGED <<clock, receivers, inbound, bindings, endpoints, events, deliveries, history>>

\* Fault: the retry loop forgets to count.
RetryForever(r) == [r EXCEPT !.txNow = clock, !.receiver = None]

\* The next attempt: a new transaction, hence a new now() and a new pick.
Retry(r) == [r EXCEPT !.tries = @ + 1, !.txNow = clock, !.receiver = None]

\* runWithCodeCollisionRetry: roll back and begin again with a new code, or
\* give up with code_generation_collision.
CodeCollision(s) ==
    /\ pc[s] = "insert"
    /\ \E code \in Codes :
          /\ SameCode(req[s], code) # {}
          /\ \A v \in SameCode(req[s], code) : ~RowLocked(v)
    /\ IF req[s].tries + 1 < MAX_CODE_COLLISION_RETRIES
         THEN GoTo(s, "lock", Retry(req[s]))
         ELSE Done(s)
    /\ UNCHANGED <<clock, tables, history>>

-----------------------------------------------------------------------------
(* getVerification, getHostedVerification, getHostedVerificationStatus     *)

\* The SELECT.
ReadVerification(s, v) ==
    /\ pc[s] = "idle"
    /\ Exists(verifications[v])
    /\ GoTo(s, "answer", [verification |-> v, status |-> verifications[v].status,
                          expiresAt |-> verifications[v].expiresAt])
    /\ UNCHANGED <<clock, tables, history>>

\* Fault: the TTL comparison is off by one.
PastTtlTooEarly(r) == r.status = "pending" /\ r.expiresAt <= clock + 1

PastTtl(r) == r.status = "pending" /\ r.expiresAt <= clock

\* The answer: a pending row past its TTL is called expired, and the expiry
\* is left to a background transaction nobody waits for.
AnswerRead(s) ==
    LET r == req[s]
    IN  /\ pc[s] = "answer"
        /\ told' = [told EXCEPT ![r.verification] =
                       @ \cup ({IF PastTtl(r) THEN "expired" ELSE r.status} \ {"pending"})]
        /\ IF PastTtl(r) THEN GoTo(s, "expire", r) ELSE Done(s)
        /\ UNCHANGED <<clock, tables, answers>>

\* lazyExpireAndEmit: no row is returned when somebody else settled it first.
LazyExpire(s) ==
    LET v == req[s].verification
    IN  /\ pc[s] = "expire"
        /\ ~RowLocked(v)
        /\ IF IsPending(v) THEN BeginTransition(s, v, "expired", None, None) ELSE Done(s)
        /\ UNCHANGED <<clock, tables, history>>

\* cancelVerification up to RETURNING; 404 and 409 change nothing.
CancelVerification(s, v) ==
    /\ pc[s] = "idle"
    /\ IsPending(v)
    /\ ~RowLocked(v)
    /\ BeginTransition(s, v, "cancelled", None, None)
    /\ UNCHANGED <<clock, tables, history>>

=============================================================================
