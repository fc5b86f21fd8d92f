------------------------------ MODULE Database ------------------------------
(***************************************************************************)
(* The PostgreSQL tables that every server process shares, and the request *)
(* slots that run against them.                                            *)
(*                                                                         *)
(* A slot is one request in flight on one of the server processes: `pc`    *)
(* says which statement of its handler comes next and `req` holds the      *)
(* local variables that survive an await.  Every await is a step of its    *)
(* own, so any two handlers interleave the way Node's event loop and       *)
(* several processes let them.  A transaction's writes become visible in   *)
(* the step that commits it; the locks it holds until then are read off    *)
(* pc (LockHeld, RowLocked).                                               *)
(***************************************************************************)
EXTENDS Integers, FiniteSets, Sequences

CONSTANTS
    Apps,               \* tenants
    Phones,             \* normalised E.164 senders
    Receivers,          \* receiver ids, numbered in the order of created_at
    Operators,          \* carriers a receiver may be tagged with
    Codes,              \* verification codes; few, so that they collide
    Keys,               \* idempotency keys a gateway may use
    VerificationIds,
    BindingIds,         \* a binding's 120-bit nonce is identified with its id
    EndpointIds,
    Slots,              \* requests in flight at once, over all processes
    AppOf,              \* the app_id column of receivers
    OperatorOf,         \* the operator column of receivers, None when NULL
    Subscriptions,      \* the event_types arrays an endpoint may be given
    MAX_PENDING_PER_PHONE,
    MAX_CODE_COLLISION_RETRIES,
    MAX_ENDPOINTS_PER_APP,
    VERIFICATION_TTL_SECONDS,
    PHONE_BINDING_TTL_SECONDS,
    RECEIVER_HEARTBEAT_TIMEOUT_SECONDS,
    MaxClock,           \* the clock stops here: a bound for model checking
    None                \* SQL NULL, and "no value"

Terminal == {"verified", "expired", "cancelled"}
Statuses == Terminal \cup {"pending"}
BindingStatuses == {"pending", "verified", "revoked"}

ASSUME SetsAssumption ==
    /\ Receivers \subseteq Nat
    /\ None \notin Apps \cup Phones \cup Receivers \cup Operators \cup Codes \cup Nat
    /\ None \notin VerificationIds \cup BindingIds \cup EndpointIds \cup (Receivers \X Keys)
    /\ VerificationIds \cap BindingIds = {}

ASSUME FiniteAssumption ==
    /\ IsFiniteSet(VerificationIds)
    /\ IsFiniteSet(EndpointIds)
    /\ IsFiniteSet(Slots)

ASSUME ColumnsAssumption ==
    /\ AppOf \in [Receivers -> Apps]
    /\ OperatorOf \in [Receivers -> Operators \cup {None}]
    /\ Subscriptions \subseteq SUBSET Terminal

ASSUME NumbersAssumption ==
    /\ MAX_PENDING_PER_PHONE \in Nat \ {0}
    /\ MAX_CODE_COLLISION_RETRIES \in Nat \ {0}
    /\ MAX_ENDPOINTS_PER_APP \in Nat \ {0}
    /\ VERIFICATION_TTL_SECONDS \in Nat \ {0}
    /\ PHONE_BINDING_TTL_SECONDS \in Nat \ {0}
    /\ RECEIVER_HEARTBEAT_TIMEOUT_SECONDS \in Nat \ {0}
    /\ MaxClock \in Nat

VARIABLES
    clock,              \* wall clock of the servers and of the database
    receivers,          \* receivers: enabled, last_heartbeat_at
    verifications,      \* verifications, NoRow where the id is unused
    inbound,            \* inbound_sms, keyed by (receiver_id, idempotency_key)
    bindings,           \* phone_bindings
    endpoints,          \* webhook_endpoints
    events,             \* webhook_events of each verification, in order
    deliveries,         \* webhook_deliveries: <<endpoint, verification, type>>
    pc, req,            \* the slots
    told,               \* history: settled statuses a reader was given, per verification
    answers             \* history: answers a gateway was given, per SMS

tables == <<receivers, verifications, inbound, bindings, endpoints, events, deliveries>>
history == <<told, answers>>
vars == <<clock, tables, pc, req, history>>

-----------------------------------------------------------------------------
(* Row types.  Columns no statement reads back are left out.               *)

NoRow == [status |-> "none"]

\* An endpoint that was deleted: newId never gives its id again.
DeletedRow == [status |-> "deleted"]

SmsIds == Receivers \X Keys

\* extractBindNonce and extractCode see a prefix and a tail; the tail is a
\* well-formed code or nonce, or something their patterns refuse.
Bodies == [prefix : {"VERIFY"}, tail : Codes] \cup [prefix : {"BIND"}, tail : BindingIds]
          \cup {[prefix |-> "VERIFY", tail |-> None], [prefix |-> "BIND", tail |-> None]}

VerificationRow ==
    [app : Apps, phone : Phones, receiver : Receivers, code : Codes,
     status : Statuses, expiresAt : Nat, verifiedAt : Nat \cup {None},
     matchedInboundId : SmsIds \cup {None}]

InboundRow ==
    [status : {"stored"}, from : Phones, body : Bodies,
     matchedVerificationId : VerificationIds \cup BindingIds \cup {None}]

BindingRow ==
    [app : Apps, receiver : Receivers, phone : Phones, status : BindingStatuses,
     expiresAt : Nat, boundAt : Nat \cup {None}, revokedAt : Nat \cup {None}]

EndpointRow == [status : {"enabled"}, app : Apps, eventTypes : Subscriptions]

ReceiverRow == [enabled : BOOLEAN, lastHeartbeatAt : Nat \cup {None}]

Exists(row) == row.status # "none"

-----------------------------------------------------------------------------
(* Slots                                                                   *)

NoReq == [step |-> "none"]

\* The handler goes on to its statement `label` with local variables `locals`.
GoTo(s, label, locals) ==
    /\ pc' = [pc EXCEPT ![s] = label]
    /\ req' = [req EXCEPT ![s] = locals]

\* The handler returns or throws; an open transaction has ended with it.
Done(s) == GoTo(s, "idle", NoReq)

\* Faults that mutation runs put in place of the definition that follows.
NeverHeld(a, p) == FALSE
NeverLocked(v) == FALSE

\* pg_advisory_xact_lock on (app, phone): held from AcquireLock until the
\* transaction ends.
LockHeld(a, p) ==
    \E s \in Slots : /\ pc[s] \in {"count", "pick", "insert"}
                     /\ req[s].app = a
                     /\ req[s].phone = p

\* The row lock of an UPDATE whose transaction has not ended.
RowLocked(v) ==
    \E s \in Slots : /\ pc[s] \in {"emit", "commit"}
                     /\ req[s].verification = v

IsPending(v) == verifications[v].status = "pending"

PendingFor(a, p) ==
    {v \in VerificationIds : /\ IsPending(v)
                             /\ verifications[v].app = a
                             /\ verifications[v].phone = p}

=============================================================================
