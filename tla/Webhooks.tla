------------------------------ MODULE Webhooks ------------------------------
(***************************************************************************)
(* services/webhooks.ts: webhook endpoints, and the emission of an event   *)
(* inside the transaction that settles a verification.                     *)
(*                                                                         *)
(* The three settling transactions (claim, cancel, lazy expire) share one  *)
(* shape: an UPDATE that takes the row lock (BeginTransition), the SELECT  *)
(* of the subscribed endpoints, then the INSERT of the deliveries and the  *)
(* COMMIT.  webhook_endpoints.enabled is set to true at creation and no    *)
(* statement of the server clears it, so a row that exists is enabled.     *)
(***************************************************************************)
EXTENDS Database

Enabled(e) == endpoints[e].status = "enabled"

EndpointsOf(a) == {e \in EndpointIds : Enabled(e) /\ endpoints[e].app = a}

\* Fault: the cap is off by one.
AtMostEndpointCap(a) == Cardinality(EndpointsOf(a)) <= MAX_ENDPOINTS_PER_APP

BelowEndpointCap(a) == Cardinality(EndpointsOf(a)) < MAX_ENDPOINTS_PER_APP

\* createWebhookEndpoint, up to the count of the app's endpoints; newId gives
\* an id that no row has or had, and no other request in flight.
CheckEndpointCap(s, a) ==
    /\ pc[s] = "idle"
    /\ BelowEndpointCap(a)
    /\ \E e \in EndpointIds :
          /\ endpoints[e] = NoRow
          /\ \A t \in Slots : pc[t] = "endpoint" => req[t].id # e
          /\ GoTo(s, "endpoint", [id |-> e, app |-> a])
    /\ UNCHANGED <<clock, tables, history>>

\* createWebhookEndpoint, the INSERT.
InsertEndpoint(s) ==
    /\ pc[s] = "endpoint"
    /\ \E types \in Subscriptions :
          endpoints' = [endpoints EXCEPT ![req[s].id] =
              [status |-> "enabled", app |-> req[s].app, eventTypes |-> types]]
    /\ Done(s)
    /\ UNCHANGED <<clock, receivers, verifications, inbound, bindings, events, deliveries, history>>

\* Fault: the foreign key does not cascade.
KeepDeliveries(e) == deliveries

\* ON DELETE CASCADE
CascadeDeliveries(e) == {d \in deliveries : d[1] # e}

\* deleteWebhookEndpoint; the foreign key cascades to the deliveries.
DeleteEndpoint(e) ==
    /\ Enabled(e)
    /\ endpoints' = [endpoints EXCEPT ![e] = DeletedRow]
    /\ deliveries' = CascadeDeliveries(e)
    /\ UNCHANGED <<clock, receivers, verifications, inbound, bindings, events, pc, req, history>>

-----------------------------------------------------------------------------

\* The UPDATE ... WHERE status = 'pending' RETURNING of a settling
\* transaction: it takes the row lock, and nobody else sees it yet.
BeginTransition(s, v, outcome, sms, now) ==
    GoTo(s, "emit", [verification |-> v, outcome |-> outcome, sms |-> sms,
                     now |-> now, targets |-> {}])

\* emitVerificationEventInTx: the event row is written (invisible until the
\* commit) and the subscribed endpoints of the verification's app are read.
Subscribed(v, type) ==
    {e \in EndpointIds : /\ Enabled(e)
                         /\ endpoints[e].app = verifications[v].app
                         /\ type \in endpoints[e].eventTypes}

SelectEndpoints(s) ==
    /\ pc[s] = "emit"
    /\ GoTo(s, "commit",
            [req[s] EXCEPT !.targets = Subscribed(req[s].verification, req[s].outcome)])
    /\ UNCHANGED <<clock, tables, history>>

\* The columns the settling UPDATE sets.
Settled(row, r) ==
    IF r.outcome = "verified"
      THEN [row EXCEPT !.status = "verified", !.verifiedAt = r.now, !.matchedInboundId = r.sms]
      ELSE [row EXCEPT !.status = r.outcome]

\* The INSERT of the deliveries, for a claim the back-link of the SMS, and
\* the COMMIT.  A cancel then answers with the row it reads back.
CommitTransition(s) ==
    LET r == req[s]
        v == r.verification
    IN  /\ pc[s] = "commit"
        /\ \A e \in r.targets : Enabled(e)
        /\ verifications' = [verifications EXCEPT ![v] = Settled(@, r)]
        /\ events' = [events EXCEPT ![v] = Append(@, r.outcome)]
        /\ deliveries' = deliveries \cup (r.targets \X {v} \X {r.outcome})
        /\ IF r.outcome = "verified"
             THEN /\ inbound' = [inbound EXCEPT ![r.sms].matchedVerificationId = v]
                  /\ answers' = [answers EXCEPT ![r.sms] = @ \cup {"matched"}]
             ELSE UNCHANGED <<inbound, answers>>
        /\ told' = IF r.outcome = "cancelled"
                     THEN [told EXCEPT ![v] = @ \cup {"cancelled"}] ELSE told
        /\ Done(s)
        /\ UNCHANGED <<clock, receivers, bindings, endpoints>>

\* Fault: the refused INSERT leaves the transaction open.
StayInTransaction(s) == FALSE

\* An endpoint read by SelectEndpoints has been deleted since: the foreign
\* key refuses the delivery, and the whole transaction rolls back.
AbortTransition(s) ==
    /\ pc[s] = "commit"
    /\ \E e \in req[s].targets : ~Enabled(e)
    /\ Done(s)
    /\ UNCHANGED <<clock, tables, history>>

=============================================================================
