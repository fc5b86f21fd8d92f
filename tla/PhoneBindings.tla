---------------------------- MODULE PhoneBindings ----------------------------
(***************************************************************************)
(* services/phoneBindings.ts: the ceremony that must succeed once for an   *)
(* (app, phone) before verifications of that phone may start.              *)
(***************************************************************************)
EXTENDS Database

\* startBinding: the receiver belongs to the app and is enabled.  newId and
\* generateNonce give an id that no row and no other request in flight has.
StartBinding(s, a, r, p) ==
    /\ pc[s] = "idle"
    /\ AppOf[r] = a
    /\ receivers[r].enabled
    /\ \E b \in BindingIds :
          /\ ~Exists(bindings[b])
          /\ \A t \in Slots : pc[t] \in {"unbound", "binding"} => req[t].id # b
          /\ GoTo(s, "unbound", [id |-> b, app |-> a, receiver |-> r, phone |-> p])
    /\ UNCHANGED <<clock, tables, history>>

\* Fault: the index phone_bindings_active_uq is missing.
NoVerifiedBindings(a, p) == {}

VerifiedBindings(a, p) ==
    {b \in BindingIds : /\ bindings[b].status = "verified"
                        /\ bindings[b].app = a
                        /\ bindings[b].phone = p}

\* startBinding: already_bound when a verified row exists.
CheckUnbound(s) ==
    /\ pc[s] = "unbound"
    /\ IF VerifiedBindings(req[s].app, req[s].phone) # {}
         THEN Done(s)
         ELSE GoTo(s, "binding", req[s])
    /\ UNCHANGED <<clock, tables, history>>

\* startBinding: the INSERT of the pending row with its fresh nonce.
InsertBinding(s) ==
    /\ pc[s] = "binding"
    /\ bindings' = [bindings EXCEPT ![req[s].id] =
          [app |-> req[s].app, receiver |-> req[s].receiver, phone |-> req[s].phone,
           status |-> "pending", expiresAt |-> clock + PHONE_BINDING_TTL_SECONDS,
           boundAt |-> None, revokedAt |-> None]]
    /\ Done(s)
    /\ UNCHANGED <<clock, receivers, verifications, inbound, endpoints, events, deliveries, history>>

\* revokeBinding: one UPDATE by id and app, whatever the status is.
RevokeBinding(b) ==
    /\ Exists(bindings[b])
    /\ bindings' = [bindings EXCEPT ![b].status = "revoked", ![b].revokedAt = clock]
    /\ UNCHANGED <<clock, receivers, verifications, inbound, endpoints, events, deliveries,
                   pc, req, history>>

-----------------------------------------------------------------------------
(* consumeBindNonce, as processInbound calls it for the SMS `sms`          *)

\* Fault: the sender is not compared.
NonceMatchesAnySender(b, sms, now) ==
    /\ bindings[b].status = "pending"
    /\ bindings[b].receiver = sms[1]
    /\ bindings[b].expiresAt > now

\* The WHERE clause of the conditional UPDATE.
NonceMatches(b, sms, now) ==
    /\ bindings[b].status = "pending"
    /\ bindings[b].receiver = sms[1]
    /\ bindings[b].phone = inbound[sms].from
    /\ bindings[b].expiresAt > now

\* No row matches: the gateway hears binding_no_match.
RefuseBindNonce(s) ==
    LET sms == req[s].sms
    IN  /\ pc[s] = "bind"
        /\ \E now \in req[s].since .. clock : ~NonceMatches(inbound[sms].body.tail, sms, now)
        /\ answers' = [answers EXCEPT ![sms] = @ \cup {"binding_no_match"}]
        /\ Done(s)
        /\ UNCHANGED <<clock, tables, told>>

\* The UPDATE.  `now` was read between the store and this statement.  The
\* partial index phone_bindings_active_uq refuses a second verified row: the
\* statement throws, nothing catches it, and the request ends with a 500.
ConsumeBindNonce(s) ==
    LET sms == req[s].sms
        b == inbound[sms].body.tail
    IN  /\ pc[s] = "bind"
        /\ \E now \in req[s].since .. clock :
              /\ NonceMatches(b, sms, now)
              /\ IF VerifiedBindings(bindings[b].app, bindings[b].phone) = {}
                   THEN /\ bindings' = [bindings EXCEPT ![b].status = "verified", ![b].boundAt = now]
                        /\ GoTo(s, "link", [sms |-> sms, binding |-> b])
                   ELSE /\ Done(s)
                        /\ UNCHANGED bindings
        /\ UNCHANGED <<clock, receivers, verifications, inbound, endpoints, events, deliveries, history>>

=============================================================================
