------------------------------ MODULE Matching ------------------------------
(***************************************************************************)
(* services/matching.ts: processInbound, from the authenticated request of *)
(* a gateway to the answer it gets.  Authentication itself (routes/        *)
(* inbound.ts, services/hmac.ts) is the guard of ReceiveInbound.           *)
(***************************************************************************)
EXTENDS PhoneBindings, Webhooks

\* extractBindNonce and extractCode; a malformed BIND is never read as a code.
ExtractBindNonce(body) == IF body.prefix = "BIND" THEN body.tail ELSE None
ExtractCode(body) == IF body.prefix = "VERIFY" THEN body.tail ELSE None

\* The HMAC lookup finds the receiver enabled.
ReceiveInbound(s, r) ==
    /\ pc[s] = "idle"
    /\ receivers[r].enabled
    /\ GoTo(s, "store", [receiver |-> r])
    /\ UNCHANGED <<clock, tables, history>>

\* The INSERT, which commits on its own, and the branch on the body.
StoreInbound(s, key, from, body) ==
    LET sms == <<req[s].receiver, key>>
        next == IF ExtractBindNonce(body) # None THEN "bind"
                ELSE IF ExtractCode(body) # None THEN "claim" ELSE "idle"
    IN  /\ pc[s] = "store"
        /\ ~Exists(inbound[sms])
        /\ inbound' = [inbound EXCEPT ![sms] =
              [status |-> "stored", from |-> from, body |-> body, matchedVerificationId |-> None]]
        /\ IF next = "idle"
             THEN Done(s) /\ answers' = [answers EXCEPT ![sms] = @ \cup {"no_match"}]
             ELSE GoTo(s, next, [sms |-> sms, since |-> clock]) /\ UNCHANGED answers
        /\ UNCHANGED <<clock, receivers, verifications, bindings, endpoints, events, deliveries, told>>

\* Fault: a key that is already stored is processed again.
ReprocessDuplicate(s, key) ==
    LET sms == <<req[s].receiver, key>>
    IN  /\ pc[s] = "store"
        /\ Exists(inbound[sms]) /\ ExtractCode(inbound[sms].body) # None
        /\ GoTo(s, "claim", [sms |-> sms, since |-> clock])
        /\ UNCHANGED <<clock, tables, history>>

\* The unique index inbound_sms_idem_uq refuses a key that is already stored.
RefuseDuplicate(s, key) ==
    LET sms == <<req[s].receiver, key>>
    IN  /\ pc[s] = "store"
        /\ Exists(inbound[sms])
        /\ answers' = [answers EXCEPT ![sms] = @ \cup {"duplicate"}]
        /\ Done(s)
        /\ UNCHANGED <<clock, tables, told>>

\* Fault: the sender is not compared.
SameReceiverAndCode(v, sms) ==
    /\ verifications[v].receiver = sms[1]
    /\ verifications[v].code = ExtractCode(inbound[sms].body)

SmsMatches(v, sms) ==
    /\ verifications[v].receiver = sms[1]
    /\ verifications[v].phone = inbound[sms].from
    /\ verifications[v].code = ExtractCode(inbound[sms].body)

\* The SELECT ... FOR UPDATE SKIP LOCKED inside the claim.
Claimable(sms, now) ==
    {v \in VerificationIds : /\ IsPending(v)
                             /\ ~RowLocked(v)
                             /\ SmsMatches(v, sms)
                             /\ verifications[v].expiresAt > now}

\* The claiming UPDATE.  serverNow was read between the store and the claim.
ClaimVerification(s) ==
    /\ pc[s] = "claim"
    /\ \E now \in req[s].since .. clock : \E v \in Claimable(req[s].sms, now) :
          BeginTransition(s, v, "verified", req[s].sms, now)
    /\ UNCHANGED <<clock, tables, history>>

\* No row: matchedVerificationId is written NULL, which it already is.
NoMatch(s) ==
    LET sms == req[s].sms
    IN  /\ pc[s] = "claim"
        /\ \E now \in req[s].since .. clock : Claimable(sms, now) = {}
        /\ inbound' = [inbound EXCEPT ![sms].matchedVerificationId = None]
        /\ answers' = [answers EXCEPT ![sms] = @ \cup {"no_match"}]
        /\ Done(s)
        /\ UNCHANGED <<clock, receivers, verifications, bindings, endpoints, events, deliveries, told>>

\* The UPDATE that points the stored SMS at the binding it verified.
LinkBinding(s) ==
    /\ pc[s] = "link"
    /\ inbound' = [inbound EXCEPT ![req[s].sms].matchedVerificationId = req[s].binding]
    /\ answers' = [answers EXCEPT ![req[s].sms] = @ \cup {"binding"}]
    /\ Done(s)
    /\ UNCHANGED <<clock, receivers, verifications, bindings, endpoints, events, deliveries, told>>

=============================================================================
