---------------------------- MODULE OutcomeProofs ----------------------------
(***************************************************************************)
(* What the server lets happen and tells is right: the binding ceremony,   *)
(* and what it says to the clients that read a verification, to the        *)
(* gateways that upload an SMS, and to the endpoints that receive an event.*)
(***************************************************************************)
EXTENDS ServerProofs

(* The binding ceremony.  A phone is bound by one SMS from that phone, an  *)
(* (app, phone) has one verified binding, and no verification is started   *)
(* for an (app, phone) that was never bound.  The check of startBinding    *)
(* and the check of startVerification are both made long before the row    *)
(* they protect is written: what carries the proof is that a binding once  *)
(* verified stays bound, if only as a revoked one.                         *)

CeremonyPcs == {"unbound", "binding"}

\* The id of a ceremony in flight is nobody else's, and no row has it yet.
CeremonyIdsAreFresh ==
    \A s \in Slots : pc[s] \in CeremonyPcs =>
        /\ ~Exists(bindings[req[s].id])
        /\ \A t \in Slots : s # t /\ pc[t] \in CeremonyPcs => req[t].id # req[s].id

\* A nonce is consumed for an SMS that begins with BIND.
BindHasPrefix == \A s \in Slots : pc[s] = "bind" => inbound[req[s].sms].body.prefix = "BIND"

VerifiedHasTime == \A b \in BindingIds : bindings[b].status = "verified" => bindings[b].boundAt # None

\* A binding of the (app, phone) was verified once.
EverBound(a, p) ==
    \E b \in BindingIds : /\ bindings[b].status \in {"verified", "revoked"}
                          /\ bindings[b].boundAt # None
                          /\ bindings[b].app = a
                          /\ bindings[b].phone = p

StartsAreBound == \A s \in Slots : pc[s] \in StartPcs => EverBound(req[s].app, req[s].phone)

\* The ceremony's own invariant, and what it means for verifications.
CeremonyInv ==
    /\ CeremonyIdsAreFresh /\ BindHasPrefix /\ VerifiedHasTime
    /\ OneVerifiedBinding /\ BindingProvedBySms

BoundInv == StartsAreBound /\ StartedOnlyIfBound

-----------------------------------------------------------------------------
(* What a step does to a binding                                           *)

\* An SMS that proves a binding when its nonce is consumed at `now`.
ProvedBy(b, m, now) ==
    /\ m \in SmsIds
    /\ Exists(inbound[m])
    /\ inbound[m].body = [prefix |-> "BIND", tail |-> b]
    /\ inbound[m].from = bindings[b].phone
    /\ m[1] = bindings[b].receiver
    /\ now \in Nat /\ now < bindings[b].expiresAt

SameCeremony(b) ==
    /\ bindings'[b].app = bindings[b].app
    /\ bindings'[b].phone = bindings[b].phone
    /\ bindings'[b].receiver = bindings[b].receiver
    /\ bindings'[b].expiresAt = bindings[b].expiresAt

Inserted(b) == ~Exists(bindings[b]) /\ bindings'[b].status = "pending"

Consumed(b) ==
    /\ bindings[b].status = "pending" /\ bindings'[b].status = "verified"
    /\ SameCeremony(b)
    /\ VerifiedBindings(bindings[b].app, bindings[b].phone) = {}
    /\ \E m : ProvedBy(b, m, bindings'[b].boundAt)

Revoked(b) ==
    /\ Exists(bindings[b]) /\ bindings'[b].status = "revoked"
    /\ SameCeremony(b)
    /\ bindings'[b].boundAt = bindings[b].boundAt

\* The insert of startBinding writes a row that did not exist.
LEMMA InsertBindingInserts ==
    ASSUME TypeInv, CeremonyInv, NEW s \in Slots, InsertBinding(s) PROVE Inserted(req[s].id)
<1>1. pc[s] = "binding" /\ req[s].id \in BindingIds
  BY DEF InsertBinding, TypeInv, SlotsOK, ReqTypeOK, BindingReq
<1>2. ~Exists(bindings[req[s].id])  BY <1>1 DEF CeremonyInv, CeremonyIdsAreFresh, CeremonyPcs
<1>3. bindings'[req[s].id].status = "pending"  BY <1>1 DEF InsertBinding, TypeInv, DataOK
<1> QED BY <1>2, <1>3 DEF Inserted

\* The consumption of a nonce: the conditional UPDATE and the index
\* phone_bindings_active_uq.
LEMMA ConsumeConsumes ==
    ASSUME TypeInv, CeremonyInv, NEW s \in Slots, ConsumeBindNonce(s), bindings' # bindings
    PROVE  Consumed(inbound[req[s].sms].body.tail)
<1> DEFINE m == req[s].sms
           b == inbound[m].body.tail
<1>1. pc[s] = "bind" /\ m \in SmsIds /\ req[s].since \in Nat /\ clock \in Nat
  BY DEF ConsumeBindNonce, TypeInv, SlotsOK, ReqTypeOK, DataOK
<1>2. Exists(inbound[m]) /\ b \in BindingIds
  BY <1>1 DEF TypeInv, RowsExist, RowsExistFor
<1>3. inbound[m].body.prefix = "BIND"  BY <1>1 DEF CeremonyInv, BindHasPrefix
<1>4. inbound[m].body = [prefix |-> "BIND", tail |-> b]
  <2>1. inbound[m].body \in Bodies  BY <1>1, <1>2 DEF TypeInv, DataOK, Exists, NoRow, InboundRow
  <2>2. ASSUME NEW body \in Bodies, body.prefix = "BIND"
        PROVE  body = [prefix |-> "BIND", tail |-> body.tail]
    BY <2>2 DEF Bodies
  <2> QED BY <1>3, <2>1, <2>2
<1>5. PICK now \in req[s].since .. clock :
          /\ NonceMatches(b, m, now)
          /\ VerifiedBindings(bindings[b].app, bindings[b].phone) = {}
          /\ bindings' = [bindings EXCEPT ![b].status = "verified", ![b].boundAt = now]
  BY DEF ConsumeBindNonce
<1>6. now \in Nat  BY <1>1
<1>7. bindings[b] \in BindingRow  BY <1>2, <1>5, PendingBindingType DEF NonceMatches, TypeInv
<1>8. bindings'[b] = [bindings[b] EXCEPT !.status = "verified", !.boundAt = now]
  BY <1>2, <1>5 DEF TypeInv, DataOK
<1>9. ASSUME NEW row \in BindingRow
      PROVE  LET new == [row EXCEPT !.status = "verified", !.boundAt = now]
             IN  /\ new.status = "verified" /\ new.boundAt = now
                 /\ new.app = row.app /\ new.phone = row.phone
                 /\ new.receiver = row.receiver /\ new.expiresAt = row.expiresAt
  BY DEF BindingRow
<1>10. /\ bindings'[b].status = "verified" /\ bindings'[b].boundAt = now
       /\ SameCeremony(b)
  BY <1>7, <1>8, <1>9 DEF SameCeremony
<1>11. bindings[b].expiresAt \in Nat  BY <1>7 DEF BindingRow
<1>12. ProvedBy(b, m, now)
  BY <1>1, <1>2, <1>4, <1>5, <1>6, <1>11 DEF ProvedBy, NonceMatches
<1>13. bindings[b].status = "pending"  BY <1>5 DEF NonceMatches
<1> HIDE DEF m, b
<1>14. Consumed(b)  BY <1>5, <1>10, <1>12, <1>13 DEF Consumed
<1> QED BY <1>14 DEF m, b

\* A revocation, of whatever status, keeps the time the binding was bound.
LEMMA RevokeRevokes ==
    ASSUME TypeInv, NEW b \in BindingIds, RevokeBinding(b) PROVE Revoked(b)
<1>1. bindings[b] \in BindingRow /\ Exists(bindings[b])
  BY DEF RevokeBinding, TypeInv, DataOK, Exists, NoRow
<1>2. bindings'[b] = [bindings[b] EXCEPT !.status = "revoked", !.revokedAt = clock]
  BY DEF RevokeBinding, TypeInv, DataOK
<1>3. ASSUME NEW row \in BindingRow
      PROVE  LET new == [row EXCEPT !.status = "revoked", !.revokedAt = clock]
             IN  /\ new.status = "revoked" /\ new.boundAt = row.boundAt
                 /\ new.app = row.app /\ new.phone = row.phone
                 /\ new.receiver = row.receiver /\ new.expiresAt = row.expiresAt
  BY DEF BindingRow
<1> QED BY <1>1, <1>2, <1>3 DEF Revoked, SameCeremony

\* A step changes one binding at most, and in one of three ways.
LEMMA BindingChange ==
    ASSUME TypeInv, CeremonyInv, [Next]_vars, NEW b \in BindingIds, bindings'[b] # bindings[b]
    PROVE  /\ \A c \in BindingIds : c # b => bindings'[c] = bindings[c]
           /\ Inserted(b) \/ Consumed(b) \/ Revoked(b)
<1>1. bindings' # bindings  OBVIOUS
<1> QED BY <1>1, WhoWritesBinding, InsertBindingInserts, ConsumeConsumes, RevokeRevokes

-----------------------------------------------------------------------------
(* The ceremony                                                            *)

\* A slot comes to a ceremony with a fresh id, and keeps it.
LEMMA CeremonyCame ==
    ASSUME TypeInv, NEW t \in Slots, CameTo(t, pc'[t]), pc'[t] \in CeremonyPcs
    PROVE  /\ bindings' = bindings
           /\ \/ pc[t] \in CeremonyPcs /\ req'[t] = req[t]
              \/ /\ ~Exists(bindings[req'[t].id])
                 /\ \A u \in Slots : pc[u] \in CeremonyPcs => req[u].id # req'[t].id
<1>1. CASE pc'[t] = "unbound"
  <2>1. PICK a \in Apps, r \in Receivers, p \in Phones : StartBinding(t, a, r, p)
    BY <1>1 DEF CameTo
  <2>2. PICK b \in BindingIds :
            /\ ~Exists(bindings[b])
            /\ \A u \in Slots : pc[u] \in CeremonyPcs => req[u].id # b
            /\ GoTo(t, "unbound", [id |-> b, app |-> a, receiver |-> r, phone |-> p])
    BY <2>1 DEF StartBinding, CeremonyPcs
  <2>3. req'[t].id = b  BY <2>2 DEF GoTo, TypeInv, SlotsOK
  <2>4. bindings' = bindings  BY <2>1 DEF StartBinding, tables
  <2> QED BY <2>2, <2>3, <2>4
<1>2. CASE pc'[t] = "binding"
  <2>1. CheckUnbound(t)  BY <1>2 DEF CameTo
  <2>2. pc[t] = "unbound" /\ bindings' = bindings  BY <2>1 DEF CheckUnbound, tables
  <2>3. pc'[t] = "idle" \/ req'[t] = req[t]
    BY <2>1 DEF CheckUnbound, Done, GoTo, TypeInv, SlotsOK
  <2> QED BY <1>2, <2>2, <2>3 DEF CeremonyPcs
<1> QED BY <1>1, <1>2 DEF CeremonyPcs

\* Fresh ids stay fresh: only the request that has an id inserts it.
LEMMA CeremonyIdsStep ==
    ASSUME TypeInv, CeremonyInv, [Next]_vars PROVE CeremonyIdsAreFresh'
<1>1. ASSUME NEW t \in Slots, pc[t] \in CeremonyPcs, pc'[t] \in CeremonyPcs, req'[t] = req[t]
      PROVE  ~Exists(bindings'[req'[t].id])
  <2>1. ~Exists(bindings[req[t].id])  BY <1>1 DEF CeremonyInv, CeremonyIdsAreFresh
  <2>2. req[t].id \in BindingIds
    BY <1>1 DEF TypeInv, SlotsOK, ReqTypeOK, CeremonyPcs, BindingReq
  <2>3. SUFFICES ASSUME bindings'[req[t].id] # bindings[req[t].id] PROVE FALSE
    BY <1>1, <2>1
  <2>4. PICK s \in Slots : InsertBinding(s) /\ req[t].id = req[s].id
    BY <2>1, <2>2, <2>3, WhoWritesBinding, ConsumeConsumes DEF Consumed, RevokeBinding, Exists
  <2>5. pc[s] \in CeremonyPcs /\ pc'[s] = "idle"
    BY <2>4 DEF InsertBinding, Done, GoTo, CeremonyPcs, TypeInv, SlotsOK
  <2>6. s # t  BY <1>1, <2>5 DEF CeremonyPcs
  <2> QED BY <1>1, <2>4, <2>5, <2>6 DEF CeremonyInv, CeremonyIdsAreFresh
<1>2. ASSUME NEW t \in Slots, pc'[t] \in CeremonyPcs PROVE ~Exists(bindings'[req'[t].id])
  BY <1>1, <1>2, StaysOrCame, CeremonyCame
<1>3. ASSUME NEW t \in Slots, NEW u \in Slots, t # u, SlotStep(t),
             pc'[t] \in CeremonyPcs, pc'[u] \in CeremonyPcs
      PROVE  req'[u].id # req'[t].id
  <2>1. pc'[u] = pc[u] /\ req'[u] = req[u]  BY <1>3, OthersStay
  <2>2. CameTo(t, pc'[t])  BY <1>3, MoverCame
  <2> QED BY <1>3, <2>1, <2>2, CeremonyCame DEF CeremonyInv, CeremonyIdsAreFresh
<1>4. ASSUME NEW t \in Slots, NEW u \in Slots, t # u,
             pc'[t] \in CeremonyPcs, pc'[u] \in CeremonyPcs
      PROVE  req'[u].id # req'[t].id
  <2>1. CASE SlotStep(t)  BY <1>3, <1>4, <2>1
  <2>2. CASE SlotStep(u)  BY <1>3, <1>4, <2>2
  <2>3. CASE ~SlotStep(t) /\ ~SlotStep(u)
    <3>1. pc'[t] = pc[t] /\ req'[t] = req[t] /\ pc'[u] = pc[u] /\ req'[u] = req[u]
      BY <2>3, StaysOrCame
    <3> QED BY <1>4, <3>1 DEF CeremonyInv, CeremonyIdsAreFresh
  <2> QED BY <2>1, <2>2, <2>3
<1> QED BY <1>2, <1>4 DEF CeremonyIdsAreFresh, Exists

\* A request consumes a nonce only after it has stored a BIND message.
LEMMA BindHasPrefixStep ==
    ASSUME TypeInv, CeremonyInv, [Next]_vars PROVE BindHasPrefix'
<1>1. ASSUME NEW t \in Slots, pc'[t] = "bind" PROVE inbound'[req'[t].sms].body.prefix = "BIND"
  <2>1. CASE pc'[t] = pc[t] /\ req'[t] = req[t]
    <3>1. req[t].sms \in SmsIds /\ Exists(inbound[req[t].sms])
      BY <1>1, <2>1 DEF TypeInv, SlotsOK, ReqTypeOK, RowsExist, RowsExistFor
    <3>2. inbound[req[t].sms].body.prefix = "BIND"
      BY <1>1, <2>1 DEF CeremonyInv, BindHasPrefix
    <3> QED BY <2>1, <3>1, <3>2, SmsStays
  <2>2. CASE CameTo(t, "bind")
    <3>1. PICK key \in Keys, from \in Phones, body \in Bodies : StoreInbound(t, key, from, body)
      BY <2>2 DEF CameTo
    <3> DEFINE m == <<req[t].receiver, key>>
    <3>2. m \in SmsIds  BY <3>1 DEF StoreInbound, TypeInv, SlotsOK, ReqTypeOK, SmsIds
    <3>3. inbound'[m].body = body  BY <3>1, <3>2 DEF StoreInbound, TypeInv, DataOK
    <3>4. ExtractBindNonce(body) # None /\ req'[t] = [sms |-> m, since |-> clock]
      BY <1>1, <3>1 DEF StoreInbound, Done, GoTo, TypeInv, SlotsOK
    <3>5. req'[t].sms = m  BY <3>4
    <3> HIDE DEF m
    <3> QED BY <3>3, <3>4, <3>5 DEF ExtractBindNonce
  <2> QED BY <1>1, <2>1, <2>2, StaysOrCame
<1> QED BY <1>1 DEF BindHasPrefix

\* A binding becomes verified by an SMS from its phone, within its TTL, and
\* only while no other binding of the (app, phone) is verified.
LEMMA VerifiedBindingsStep ==
    ASSUME TypeInv, CeremonyInv, [Next]_vars
    PROVE  VerifiedHasTime' /\ OneVerifiedBinding' /\ BindingProvedBySms'
<1>1. ASSUME NEW b \in BindingIds, bindings'[b].status = "verified", bindings'[b] # bindings[b]
      PROVE  Consumed(b) /\ \A c \in BindingIds : c # b => bindings'[c] = bindings[c]
  BY <1>1, BindingChange DEF Inserted, Revoked
<1>2. ASSUME NEW b \in BindingIds, bindings'[b].status = "verified"
      PROVE  bindings'[b].boundAt # None
  <2>1. CASE bindings'[b] = bindings[b]
    BY <1>2, <2>1 DEF CeremonyInv, VerifiedHasTime
  <2>2. CASE bindings'[b] # bindings[b]
    BY <1>1, <1>2, <2>2, SetsAssumption DEF Consumed, ProvedBy
  <2> QED BY <2>1, <2>2
<1>3. VerifiedHasTime'  BY <1>2 DEF VerifiedHasTime
<1>4. ASSUME NEW b \in BindingIds, NEW c \in BindingIds,
             bindings'[b].status = "verified", bindings'[c].status = "verified",
             bindings'[b].app = bindings'[c].app, bindings'[b].phone = bindings'[c].phone,
             bindings'[b] # bindings[b], b # c
      PROVE  FALSE
  <2>1. Consumed(b) /\ bindings'[c] = bindings[c]  BY <1>1, <1>4
  <2>2. c \in VerifiedBindings(bindings[b].app, bindings[b].phone)
    BY <1>4, <2>1 DEF Consumed, SameCeremony, VerifiedBindings
  <2> QED BY <2>1, <2>2 DEF Consumed
<1>5. ASSUME NEW b \in BindingIds, NEW c \in BindingIds,
             bindings'[b].status = "verified", bindings'[c].status = "verified",
             bindings'[b].app = bindings'[c].app, bindings'[b].phone = bindings'[c].phone
      PROVE  b = c
  <2>1. CASE bindings'[b] = bindings[b] /\ bindings'[c] = bindings[c]
    BY <1>5, <2>1 DEF CeremonyInv, OneVerifiedBinding
  <2>2. CASE bindings'[b] # bindings[b]  BY <1>4, <1>5, <2>2
  <2>3. CASE bindings'[c] # bindings[c]  BY <1>4, <1>5, <2>3
  <2> QED BY <2>1, <2>2, <2>3
<1>6. OneVerifiedBinding'  BY <1>5 DEF OneVerifiedBinding
<1>7. ASSUME NEW b \in BindingIds, bindings'[b].status = "verified"
      PROVE  \E m \in SmsIds : /\ inbound'[m].status = "stored"
                               /\ inbound'[m].body = [prefix |-> "BIND", tail |-> b]
                               /\ inbound'[m].from = bindings'[b].phone
                               /\ m[1] = bindings'[b].receiver
                               /\ bindings'[b].boundAt < bindings'[b].expiresAt
  <2>1. CASE bindings'[b] = bindings[b]
    <3>1. PICK m \in SmsIds : /\ inbound[m].status = "stored"
                              /\ inbound[m].body = [prefix |-> "BIND", tail |-> b]
                              /\ inbound[m].from = bindings[b].phone
                              /\ m[1] = bindings[b].receiver
                              /\ bindings[b].boundAt < bindings[b].expiresAt
      BY <1>7, <2>1 DEF CeremonyInv, BindingProvedBySms
    <3>2. Exists(inbound[m])  BY <3>1 DEF Exists
    <3> QED BY <2>1, <3>1, <3>2, SmsStays
  <2>2. CASE bindings'[b] # bindings[b]
    <3>1. Consumed(b)  BY <1>1, <1>7, <2>2
    <3>2. PICK m : ProvedBy(b, m, bindings'[b].boundAt)  BY <3>1 DEF Consumed
    <3>3. /\ inbound'[m].status = "stored" /\ inbound'[m].from = inbound[m].from
          /\ inbound'[m].body = inbound[m].body /\ m \in SmsIds
      BY <3>2, SmsStays DEF ProvedBy
    <3> QED BY <3>1, <3>2, <3>3 DEF ProvedBy, Consumed, SameCeremony
  <2> QED BY <2>1, <2>2
<1>8. BindingProvedBySms'  BY <1>7 DEF BindingProvedBySms
<1> QED BY <1>3, <1>6, <1>8

\* Initially there is no ceremony, no binding and no start.
LEMMA CeremonyInit == Init => CeremonyInv /\ BoundInv
BY DEF Init, InitRest, CeremonyInv, CeremonyIdsAreFresh, CeremonyPcs, BindHasPrefix,
       VerifiedHasTime, OneVerifiedBinding, BindingProvedBySms, BoundInv, StartsAreBound,
       StartedOnlyIfBound, StartPcs, NoRow

\* Every step keeps the ceremony's invariant.
LEMMA CeremonyStep == TypeInv /\ CeremonyInv /\ [Next]_vars => CeremonyInv'
BY CeremonyIdsStep, BindHasPrefixStep, VerifiedBindingsStep DEF CeremonyInv

\* Two ceremonies for one phone that finish concurrently leave one verified
\* binding: the partial unique index decides, not startBinding's early check.
THEOREM OneBinding == Spec => []OneVerifiedBinding
<1>1. CeremonyInv => OneVerifiedBinding  BY DEF CeremonyInv
<1> QED BY <1>1, TypeInit, TypeStep, CeremonyInit, CeremonyStep, PTL DEF Spec

\* Every verified binding was proved by an SMS that carried its nonce to its
\* receiver, from its phone, before its expiry.
THEOREM BindingProved == Spec => []BindingProvedBySms
<1>1. CeremonyInv => BindingProvedBySms  BY DEF CeremonyInv
<1> QED BY <1>1, TypeInit, TypeStep, CeremonyInit, CeremonyStep, PTL DEF Spec

-----------------------------------------------------------------------------
(* Starts                                                                  *)

\* What was once bound stays so: a revocation keeps the row and its time.
LEMMA EverBoundStays ==
    ASSUME TypeInv, CeremonyInv, [Next]_vars, NEW a, NEW p, EverBound(a, p)
    PROVE  EverBound(a, p)'
<1>1. PICK b \in BindingIds : /\ bindings[b].status \in {"verified", "revoked"}
                              /\ bindings[b].boundAt # None
                              /\ bindings[b].app = a
                              /\ bindings[b].phone = p
  BY DEF EverBound
<1>2. CASE bindings'[b] = bindings[b]  BY <1>1, <1>2 DEF EverBound
<1>3. CASE bindings'[b] # bindings[b]
  <2>1. Revoked(b)  BY <1>1, <1>3, BindingChange DEF Inserted, Consumed, Exists
  <2> QED BY <1>1, <2>1 DEF EverBound, Revoked, SameCeremony
<1> QED BY <1>2, <1>3

\* A slot comes to a start through the phone-binding check, and stays with
\* the same (app, phone) through every retry.
LEMMA StartCame ==
    ASSUME TypeInv, NEW t \in Slots, CameTo(t, pc'[t]), pc'[t] \in StartPcs
    PROVE  \/ /\ pc[t] \in StartPcs
              /\ req'[t].app = req[t].app /\ req'[t].phone = req[t].phone
           \/ Bound(req'[t].app, req'[t].phone)
<1>1. ASSUME NEW label, NEW r, GoTo(t, label, r) PROVE req'[t] = r /\ pc'[t] = label
  BY <1>1 DEF GoTo, TypeInv, SlotsOK
<1>2. ASSUME NEW a \in Apps, NEW p \in Phones, NEW o, StartVerification(t, a, p, o)
      PROVE  Bound(req'[t].app, req'[t].phone)
  <2>1. PICK v \in FreshIds :
            GoTo(t, "lock", [id |-> v, app |-> a, phone |-> p, operator |-> o,
                             expiresAt |-> clock + VERIFICATION_TTL_SECONDS,
                             txNow |-> clock, tries |-> 0, receiver |-> None])
    BY <1>2 DEF StartVerification
  <2>2. req'[t].app = a /\ req'[t].phone = p  BY <1>1, <2>1
  <2> QED BY <1>2, <2>2 DEF StartVerification
<1>3. CASE CodeCollision(t)
  <2>1. pc[t] \in StartPcs /\ req[t] \in StartReq
    BY <1>3, StartReqAt DEF CodeCollision, StartPcs
  <2>2. Done(t) \/ GoTo(t, "lock", Retry(req[t]))  BY <1>3 DEF CodeCollision
  <2>3. req'[t] = Retry(req[t])
    <3>1. ~Done(t)  BY <1>1 DEF Done, StartPcs
    <3> QED BY <1>1, <2>2, <3>1
  <2>4. ASSUME NEW r \in StartReq PROVE Retry(r).app = r.app /\ Retry(r).phone = r.phone
    BY DEF Retry, StartReq
  <2> QED BY <2>1, <2>3, <2>4
<1>4. CASE AcquireLock(t)  BY <1>1, <1>4 DEF AcquireLock, StartPcs
<1>5. CASE CountPending(t)
  <2>1. pc[t] \in StartPcs  BY <1>5 DEF CountPending, StartPcs
  <2>2. Done(t) \/ GoTo(t, "pick", req[t])  BY <1>5 DEF CountPending
  <2> QED BY <1>1, <2>1, <2>2 DEF Done, StartPcs
<1>6. CASE ChooseReceiver(t)
  <2>1. pc[t] \in StartPcs /\ req[t] \in StartReq
    BY <1>6, StartReqAt DEF ChooseReceiver, StartPcs
  <2>2. ~Done(t)  BY <1>1 DEF Done, StartPcs
  <2>3. PICK x : GoTo(t, "insert", [req[t] EXCEPT !.receiver = x])
    BY <1>6, <2>2 DEF ChooseReceiver
  <2>4. req'[t] = [req[t] EXCEPT !.receiver = x]  BY <1>1, <2>3
  <2> QED BY <2>1, <2>4 DEF StartReq
<1> QED BY <1>2, <1>3, <1>4, <1>5, <1>6 DEF CameTo, StartPcs

\* The check made before the transaction still means what it meant when the
\* row is inserted.
LEMMA BoundStep ==
    TypeInv /\ SettleInv /\ CeremonyInv /\ BoundInv /\ [Next]_vars => BoundInv'
<1> SUFFICES ASSUME TypeInv, SettleInv, CeremonyInv, BoundInv, [Next]_vars PROVE BoundInv'
  OBVIOUS
<1>1. ASSUME NEW t \in Slots, pc'[t] \in StartPcs
      PROVE  EverBound(req'[t].app, req'[t].phone)
  <2>1. ASSUME NEW a, NEW p, Bound(a, p) PROVE EverBound(a, p)
    BY <2>1 DEF Bound, EverBound, CeremonyInv, VerifiedHasTime
  <2>2. pc[t] \in StartPcs => EverBound(req[t].app, req[t].phone)
    BY DEF BoundInv, StartsAreBound
  <2> QED BY <1>1, <2>1, <2>2, StaysOrCame, StartCame
<1>2. StartsAreBound'
  <2>1. ASSUME NEW t \in Slots, (pc[t])' \in StartPcs PROVE EverBound(req[t].app, req[t].phone)'
    <3>1. EverBound(req'[t].app, req'[t].phone)  BY <1>1, <2>1
    <3>2. ASSUME NEW a, NEW p, EverBound(a, p), a = req'[t].app, p = req'[t].phone
          PROVE  EverBound(req[t].app, req[t].phone)'
      BY <3>2, EverBoundStays DEF EverBound
    <3> QED BY <3>1, <3>2
  <2> QED BY <2>1 DEF StartsAreBound
<1>3. ASSUME NEW v \in VerificationIds, verifications'[v].status # "none"
      PROVE  EverBound(verifications'[v].app, verifications'[v].phone)
  <2>1. CASE verifications'[v] = verifications[v]
    BY <1>3, <2>1 DEF BoundInv, StartedOnlyIfBound, EverBound
  <2>2. ASSUME NEW s \in Slots, StartedBy(v, s)
        PROVE  EverBound(verifications'[v].app, verifications'[v].phone)
    BY <2>2 DEF StartedBy, InsertVerification, BoundInv, StartsAreBound, StartPcs
  <2>3. ASSUME NEW s \in Slots, SettledBy(v, s)
        PROVE  EverBound(verifications'[v].app, verifications'[v].phone)
    <3>1. EverBound(verifications[v].app, verifications[v].phone)
      BY <2>3 DEF SettledBy, IsPending, BoundInv, StartedOnlyIfBound, EverBound
    <3> QED BY <2>3, <3>1 DEF SettledBy, SameVerification
  <2> QED BY <2>1, <2>2, <2>3, VerificationChange
<1>4. StartedOnlyIfBound'
  <2>1. ASSUME NEW v \in VerificationIds, NEW a, NEW p, EverBound(a, p),
               a = verifications'[v].app, p = verifications'[v].phone
        PROVE  EverBound(a, p)'
    BY <2>1, EverBoundStays
  <2> QED BY <1>3, <2>1 DEF StartedOnlyIfBound, EverBound
<1> QED BY <1>2, <1>4 DEF BoundInv

\* No verification exists for an (app, phone) whose binding ceremony never
\* succeeded, although startVerification checks that outside its transaction
\* and the binding may be revoked before the insert.
THEOREM BoundFirst == Spec => []StartedOnlyIfBound
<1>1. BoundInv => StartedOnlyIfBound  BY DEF BoundInv
<1> QED BY <1>1, TypeInit, TypeStep, SettleInit, SettleStep, CeremonyInit, CeremonyStep, BoundStep,
           PTL DEF Spec

-----------------------------------------------------------------------------
(* Reads.  A handler reads a row, answers from what it read, and expires   *)
(* the row in a transaction that does not look at the clock again.  What   *)
(* carries the proof: a settled row never changes and no row changes its   *)
(* expiry, so a read is only ever stale about a row that was pending.      *)

ReadPcs == {"answer", "expire"}

ReadsAreTrue ==
    \A s \in Slots : pc[s] \in ReadPcs =>
        LET v == req[s].verification
        IN  /\ Exists(verifications[v])
            /\ req[s].expiresAt = verifications[v].expiresAt
            /\ req[s].status # "pending" => verifications[v].status = req[s].status

ExpiriesAreDue ==
    \A s \in Slots :
        /\ pc[s] = "expire" => req[s].expiresAt <= clock
        /\ pc[s] \in TxPcs /\ req[s].outcome = "expired" =>
              verifications[req[s].verification].expiresAt <= clock

ReadInv == ReadsAreTrue /\ ExpiriesAreDue /\ ToldIsKept /\ ExpiredAfterTtl

\* Where a slot goes to, its locals are those of the GoTo.
LEMMA GoToAt ==
    ASSUME TypeInv, NEW t \in Slots, NEW label, NEW r, GoTo(t, label, r)
    PROVE  pc'[t] = label /\ req'[t] = r
BY DEF GoTo, TypeInv, SlotsOK

\* The locals of a read in flight.
LEMMA ReadReqAt ==
    ASSUME TypeInv, NEW s \in Slots, pc[s] \in ReadPcs
    PROVE  req[s] \in ReadReq /\ req[s].verification \in VerificationIds
BY DEF TypeInv, SlotsOK, ReqTypeOK, ReadReq, ReadPcs

\* The locals of a settling transaction in flight, and the row it settles.
LEMMA TxReqAt ==
    ASSUME TypeInv, NEW s \in Slots, pc[s] \in TxPcs
    PROVE  /\ req[s] \in TransitionReq
           /\ req[s].verification \in VerificationIds /\ req[s].outcome \in Terminal
           /\ Exists(verifications[req[s].verification])
           /\ req[s].outcome = "verified" => /\ req[s].sms \in SmsIds /\ req[s].now \in Nat
                                             /\ Exists(inbound[req[s].sms])
BY DEF TypeInv, SlotsOK, ReqTypeOK, TransitionReq, TxPcs, RowsExist, RowsExistFor

\* The steps that bring a slot to a settling transaction: three begin one,
\* the fourth goes on with it.
LEMMA TxCame ==
    ASSUME TypeInv, NEW t \in Slots, CameTo(t, pc'[t]), pc'[t] \in TxPcs
    PROVE  /\ UNCHANGED <<clock, tables, history>>
           /\ \/ pc'[t] = "emit" /\ req'[t].outcome = "cancelled"
              \/ /\ pc'[t] = "emit" /\ pc[t] = "expire"
                 /\ req'[t].outcome = "expired" /\ req'[t].verification = req[t].verification
              \/ /\ pc'[t] = "emit" /\ pc[t] = "claim"
                 /\ req'[t].outcome = "verified" /\ req'[t].sms = req[t].sms
                 /\ req'[t].now \in req[t].since .. clock
                 /\ req'[t].verification \in Claimable(req[t].sms, req'[t].now)
              \/ /\ pc'[t] = "commit" /\ pc[t] = "emit"
                 /\ req'[t] = [req[t] EXCEPT !.targets =
                                 Subscribed(req[t].verification, req[t].outcome)]
<1>1. ASSUME NEW v, NEW outcome, NEW sms, NEW now, BeginTransition(t, v, outcome, sms, now)
      PROVE  /\ pc'[t] = "emit" /\ req'[t].verification = v /\ req'[t].outcome = outcome
             /\ req'[t].sms = sms /\ req'[t].now = now
  <2>1. pc'[t] = "emit" /\ req'[t] = [verification |-> v, outcome |-> outcome, sms |-> sms,
                                      now |-> now, targets |-> {}]
    BY <1>1, GoToAt DEF BeginTransition
  <2> QED BY <2>1
<1>2. ASSUME NEW v \in VerificationIds, CancelVerification(t, v)
      PROVE  UNCHANGED <<clock, tables, history>> /\ pc'[t] = "emit" /\ req'[t].outcome = "cancelled"
  BY <1>1, <1>2 DEF CancelVerification
<1>3. ASSUME LazyExpire(t)
      PROVE  /\ UNCHANGED <<clock, tables, history>>
             /\ pc'[t] = "emit" /\ pc[t] = "expire"
             /\ req'[t].outcome = "expired" /\ req'[t].verification = req[t].verification
  <2>1. ~Done(t)  BY GoToAt DEF Done, TxPcs
  <2>2. BeginTransition(t, req[t].verification, "expired", None, None)
    BY <1>3, <2>1 DEF LazyExpire
  <2> QED BY <1>1, <1>3, <2>2 DEF LazyExpire
<1>4. ASSUME ClaimVerification(t)
      PROVE  /\ UNCHANGED <<clock, tables, history>>
             /\ pc'[t] = "emit" /\ pc[t] = "claim"
             /\ req'[t].outcome = "verified" /\ req'[t].sms = req[t].sms
             /\ req'[t].now \in req[t].since .. clock
             /\ req'[t].verification \in Claimable(req[t].sms, req'[t].now)
  <2>1. PICK now \in req[t].since .. clock : \E v \in Claimable(req[t].sms, now) :
            BeginTransition(t, v, "verified", req[t].sms, now)
    BY <1>4 DEF ClaimVerification
  <2>2. PICK v \in Claimable(req[t].sms, now) : BeginTransition(t, v, "verified", req[t].sms, now)
    BY <2>1
  <2> QED BY <1>1, <1>4, <2>2 DEF ClaimVerification
<1>5. ASSUME SelectEndpoints(t)
      PROVE  /\ UNCHANGED <<clock, tables, history>>
             /\ pc'[t] = "commit" /\ pc[t] = "emit"
             /\ req'[t] = [req[t] EXCEPT !.targets =
                             Subscribed(req[t].verification, req[t].outcome)]
  BY <1>5, GoToAt DEF SelectEndpoints
<1> QED BY <1>2, <1>3, <1>4, <1>5 DEF CameTo, TxPcs

\* What selecting the endpoints keeps.
LEMMA SelectKeeps ==
    ASSUME NEW r \in TransitionReq, NEW x
    PROVE  LET new == [r EXCEPT !.targets = x]
           IN  /\ new.verification = r.verification /\ new.outcome = r.outcome
               /\ new.sms = r.sms /\ new.now = r.now /\ new.targets = x
BY DEF TransitionReq

\* A slot comes to its answer with what the row is, and to the expiry with
\* what it read before and a clock past it.
LEMMA ReadCame ==
    ASSUME TypeInv, NEW t \in Slots, CameTo(t, pc'[t]), pc'[t] \in ReadPcs
    PROVE  /\ verifications' = verifications /\ clock' = clock
           /\ \/ /\ pc'[t] = "answer" /\ req'[t].verification \in VerificationIds
                 /\ Exists(verifications[req'[t].verification])
                 /\ req'[t].status = verifications[req'[t].verification].status
                 /\ req'[t].expiresAt = verifications[req'[t].verification].expiresAt
              \/ pc'[t] = "expire" /\ pc[t] = "answer" /\ req'[t] = req[t] /\ PastTtl(req[t])
<1>1. ASSUME NEW v \in VerificationIds, ReadVerification(t, v)
      PROVE  /\ verifications' = verifications /\ clock' = clock
             /\ pc'[t] = "answer" /\ req'[t].verification = v
             /\ Exists(verifications[v])
             /\ req'[t].status = verifications[v].status
             /\ req'[t].expiresAt = verifications[v].expiresAt
  <2>1. pc'[t] = "answer" /\ req'[t] = [verification |-> v, status |-> verifications[v].status,
                                        expiresAt |-> verifications[v].expiresAt]
    BY <1>1, GoToAt DEF ReadVerification
  <2> QED BY <1>1, <2>1 DEF ReadVerification, tables
<1>2. ASSUME AnswerRead(t)
      PROVE  /\ verifications' = verifications /\ clock' = clock
             /\ pc'[t] = "expire" /\ pc[t] = "answer" /\ req'[t] = req[t] /\ PastTtl(req[t])
  <2>1. ~Done(t)  BY GoToAt DEF Done, ReadPcs
  <2>2. GoTo(t, "expire", req[t]) /\ PastTtl(req[t])  BY <1>2, <2>1 DEF AnswerRead
  <2> QED BY <1>2, <2>2, GoToAt DEF AnswerRead, tables
<1> QED BY <1>1, <1>2 DEF CameTo, ReadPcs

\* Readers are told by an answer, and by a cancel that reads its row back.
LEMMA WhoTells ==
    ASSUME TypeInv, [Next]_vars, NEW v \in VerificationIds, told'[v] # told[v]
    PROVE  \E s \in Slots :
              \/ /\ AnswerRead(s) /\ req[s].verification = v
                 /\ told'[v] = told[v] \cup ({IF PastTtl(req[s]) THEN "expired" ELSE req[s].status}
                                             \ {"pending"})
              \/ /\ CommitTransition(s) /\ req[s].verification = v
                 /\ req[s].outcome = "cancelled" /\ told'[v] = told[v] \cup {"cancelled"}
<1>1. PICK s \in Slots : SlotStep(s)  BY OutsideSteps DEF history
<1>2. AnswerRead(s) \/ CommitTransition(s)
  BY <1>1, SlotWrites
     DEF InsertVerification, StoreInbound, RefuseDuplicate, NoMatch, ConsumeBindNonce,
         RefuseBindNonce, LinkBinding, InsertBinding, InsertEndpoint, history
<1>3. ASSUME NEW w, NEW x, told' = [told EXCEPT ![w] = x] PROVE w = v /\ told'[v] = x
  BY <1>3 DEF TypeInv, DataOK
<1>4. CASE AnswerRead(s)
  <2>1. told' = [told EXCEPT ![req[s].verification] = told[req[s].verification]
                    \cup ({IF PastTtl(req[s]) THEN "expired" ELSE req[s].status} \ {"pending"})]
    BY <1>4 DEF AnswerRead
  <2> QED BY <1>3, <1>4, <2>1
<1>5. CASE CommitTransition(s)
  <2>1. req[s].outcome = "cancelled"
        /\ told' = [told EXCEPT ![req[s].verification] = told[req[s].verification] \cup {"cancelled"}]
    BY <1>5 DEF CommitTransition
  <2> QED BY <1>3, <1>5, <2>1
<1> QED BY <1>2, <1>4, <1>5

\* What a read in flight holds stays true until it is answered.
LEMMA ReadsAreTrueStep ==
    ASSUME TypeInv, SettleInv, ReadInv, [Next]_vars PROVE ReadsAreTrue'
<1>1. ASSUME NEW t \in Slots, pc'[t] \in ReadPcs, NEW v, v = req'[t].verification
      PROVE  /\ Exists(verifications'[v])
             /\ req'[t].expiresAt = verifications'[v].expiresAt
             /\ req'[t].status # "pending" => verifications'[v].status = req'[t].status
  <2>1. ASSUME pc[t] \in ReadPcs, req'[t] = req[t]
        PROVE  /\ Exists(verifications'[v])
               /\ req'[t].expiresAt = verifications'[v].expiresAt
               /\ req'[t].status # "pending" => verifications'[v].status = req'[t].status
    <3>1. v \in VerificationIds  BY <1>1, <2>1, ReadReqAt
    <3>2. /\ Exists(verifications[v])
          /\ req[t].expiresAt = verifications[v].expiresAt
          /\ req[t].status # "pending" => verifications[v].status = req[t].status
      BY <1>1, <2>1 DEF ReadInv, ReadsAreTrue
    <3> QED BY <2>1, <3>1, <3>2, VerificationStays DEF SameVerification
  <2>2. CASE CameTo(t, pc'[t])  BY <1>1, <2>1, <2>2, ReadCame DEF ReadPcs
  <2> QED BY <1>1, <2>1, <2>2, StaysOrCame
<1> QED BY <1>1 DEF ReadsAreTrue, Exists

\* An expiry in flight is past its TTL, and the clock does not go back.
LEMMA ExpiriesAreDueStep ==
    ASSUME TypeInv, SettleInv, ReadInv, [Next]_vars PROVE ExpiriesAreDue'
<1>1. clock \in Nat /\ clock' \in Nat /\ clock <= clock'  BY ClockGrows DEF TypeInv, DataOK
<1>2. ASSUME NEW t \in Slots, pc'[t] = "expire" PROVE req'[t].expiresAt <= clock'
  <2>1. CASE pc'[t] = pc[t] /\ req'[t] = req[t]
    <3>1. req[t].expiresAt \in Nat /\ req[t].expiresAt <= clock
      BY <1>2, <2>1, ReadReqAt DEF ReadReq, ReadPcs, ReadInv, ExpiriesAreDue
    <3> QED BY <1>1, <2>1, <3>1
  <2>2. CASE CameTo(t, pc'[t])
    BY <1>2, <2>2, ReadCame DEF ReadPcs, PastTtl
  <2> QED BY <2>1, <2>2, StaysOrCame
<1>3. ASSUME NEW t \in Slots, pc'[t] \in TxPcs, req'[t].outcome = "expired",
             NEW v, v = req'[t].verification
      PROVE  verifications'[v].expiresAt <= clock'
  <2>1. ASSUME pc[t] \in TxPcs, req[t].outcome = "expired", req[t].verification = v
        PROVE  verifications'[v].expiresAt <= clock'
    <3>1. v \in VerificationIds /\ Exists(verifications[v])  BY <2>1, TxReqAt
    <3>2. verifications[v].expiresAt <= clock  BY <2>1 DEF ReadInv, ExpiriesAreDue
    <3>3. verifications[v].expiresAt \in Nat
      BY <3>1 DEF TypeInv, DataOK, Exists, NoRow, VerificationRow
    <3> QED BY <1>1, <3>1, <3>2, <3>3, VerificationStays DEF SameVerification
  <2>2. CASE CameTo(t, pc'[t])
    <3>1. verifications' = verifications /\ clock' = clock  BY <1>3, <2>2, TxCame DEF tables
    <3>2. CASE pc[t] = "expire" /\ v = req[t].verification
      BY <3>1, <3>2 DEF ReadInv, ReadsAreTrue, ExpiriesAreDue, ReadPcs
    <3>3. CASE /\ pc[t] = "emit"
               /\ req'[t] = [req[t] EXCEPT !.targets =
                               Subscribed(req[t].verification, req[t].outcome)]
      <4>1. pc[t] \in TxPcs /\ req[t] \in TransitionReq  BY <3>3, TxReqAt DEF TxPcs
      <4>2. req'[t].outcome = req[t].outcome /\ req'[t].verification = req[t].verification
        BY <3>3, <4>1, SelectKeeps
      <4> QED BY <1>3, <2>1, <4>1, <4>2
    <3> QED BY <1>3, <2>2, <3>2, <3>3, TxCame
  <2>3. CASE pc'[t] = pc[t] /\ req'[t] = req[t]  BY <1>3, <2>1, <2>3
  <2> QED BY <2>2, <2>3, StaysOrCame
<1> QED BY <1>2, <1>3 DEF ExpiriesAreDue

\* A reader is told a settled status only when the row has it.
LEMMA ToldIsKeptStep ==
    ASSUME TypeInv, SettleInv, ReadInv, [Next]_vars PROVE ToldIsKept'
<1>1. ASSUME NEW v \in VerificationIds, NEW x \in told'[v], x # "expired"
      PROVE  x = verifications'[v].status
  <2>1. CASE x \in told[v]
    <3>1. x = verifications[v].status  BY <1>1, <2>1 DEF ReadInv, ToldIsKept
    <3>2. x \in Terminal  BY <2>1 DEF TypeInv, DataOK
    <3>3. verifications'[v] = verifications[v]
      BY <3>1, <3>2, VerificationStays DEF Exists, Terminal
    <3> QED BY <3>1, <3>3
  <2>2. ASSUME NEW s \in Slots, AnswerRead(s), req[s].verification = v,
               x \in {IF PastTtl(req[s]) THEN "expired" ELSE req[s].status} \ {"pending"}
        PROVE  x = verifications'[v].status
    <3>1. x = req[s].status /\ x # "pending"  BY <1>1, <2>2
    <3>2. pc[s] \in ReadPcs /\ verifications' = verifications
      BY <2>2 DEF AnswerRead, ReadPcs, tables
    <3> QED BY <2>2, <3>1, <3>2 DEF ReadInv, ReadsAreTrue
  <2>3. ASSUME NEW s \in Slots, CommitTransition(s), req[s].verification = v,
               req[s].outcome = "cancelled", x = "cancelled"
        PROVE  x = verifications'[v].status
    BY <2>3, CommitSettles DEF SettledBy
  <2> QED BY <1>1, <2>1, <2>2, <2>3, WhoTells
<1> QED BY <1>1 DEF ToldIsKept

\* A row is expired, and called expired, only after its TTL.
LEMMA ExpiredAfterTtlStep ==
    ASSUME TypeInv, SettleInv, ReadInv, [Next]_vars PROVE ExpiredAfterTtl'
<1>1. clock \in Nat /\ clock' \in Nat /\ clock <= clock'  BY ClockGrows DEF TypeInv, DataOK
<1>2. ASSUME NEW v \in VerificationIds, Exists(verifications[v]), verifications[v].expiresAt <= clock
      PROVE  verifications'[v].status # "none" /\ verifications'[v].expiresAt <= clock'
  <2>1. verifications[v].expiresAt \in Nat
    BY <1>2 DEF TypeInv, DataOK, Exists, NoRow, VerificationRow
  <2> QED BY <1>1, <1>2, <2>1, VerificationStays DEF SameVerification, Exists
<1>3. ASSUME NEW v \in VerificationIds, verifications'[v].status = "expired",
             verifications[v].status # "expired"
      PROVE  Exists(verifications[v]) /\ verifications[v].expiresAt <= clock
  <2>1. PICK s \in Slots : StartedBy(v, s) \/ SettledBy(v, s)  BY <1>3, VerificationChange
  <2>2. SettledBy(v, s) /\ req[s].outcome = "expired" /\ req[s].verification = v /\ pc[s] = "commit"
    BY <1>3, <2>1 DEF StartedBy, SettledBy, CommitTransition
  <2> QED BY <2>2 DEF ReadInv, ExpiriesAreDue, TxPcs, SettledBy, IsPending, Exists
<1>4. ASSUME NEW v \in VerificationIds, "expired" \in told'[v], "expired" \notin told[v],
             verifications[v].status # "expired"
      PROVE  Exists(verifications[v]) /\ verifications[v].expiresAt <= clock
  <2>1. PICK s \in Slots :
           /\ AnswerRead(s) /\ req[s].verification = v
           /\ "expired" \in {IF PastTtl(req[s]) THEN "expired" ELSE req[s].status} \ {"pending"}
    BY <1>4, WhoTells
  <2>2. pc[s] \in ReadPcs  BY <2>1 DEF AnswerRead, ReadPcs
  <2>3. /\ Exists(verifications[v])
        /\ req[s].expiresAt = verifications[v].expiresAt
        /\ req[s].status # "pending" => verifications[v].status = req[s].status
    BY <2>1, <2>2 DEF ReadInv, ReadsAreTrue
  <2>4. PastTtl(req[s])  BY <1>4, <2>1, <2>3
  <2> QED BY <2>3, <2>4 DEF PastTtl
<1>5. ASSUME NEW v \in VerificationIds
      PROVE  \/ verifications'[v].status # "none" /\ verifications'[v].expiresAt <= clock'
             \/ verifications'[v].status # "expired" /\ "expired" \notin told'[v]
  BY <1>2, <1>3, <1>4 DEF ReadInv, ExpiredAfterTtl, Exists
<1> QED BY <1>5 DEF ExpiredAfterTtl

\* Initially nothing is read and nobody was told anything.
LEMMA ReadInit == Init => ReadInv
BY DEF Init, InitRest, ReadInv, ReadsAreTrue, ReadPcs, ExpiriesAreDue, TxPcs, ToldIsKept,
       ExpiredAfterTtl, NoRow

\* Every step keeps the invariant of the reads.
LEMMA ReadStep == TypeInv /\ SettleInv /\ ReadInv /\ [Next]_vars => ReadInv'
BY ReadsAreTrueStep, ExpiriesAreDueStep, ToldIsKeptStep, ExpiredAfterTtlStep DEF ReadInv

\* Whoever is told that a verification is verified or cancelled is told the
\* truth for good, although the answer is given from a row read earlier.
THEOREM ToldForGood == Spec => []ToldIsKept
<1>1. ReadInv => ToldIsKept  BY DEF ReadInv
<1> QED BY <1>1, TypeInit, TypeStep, SettleInit, SettleStep, ReadInit, ReadStep, PTL DEF Spec

\* No verification is expired, or called expired, before its TTL is over: the
\* expiring UPDATE does not compare the clock, but whoever runs it has.
THEOREM NeverEarly == Spec => []ExpiredAfterTtl
<1>1. ReadInv => ExpiredAfterTtl  BY DEF ReadInv
<1> QED BY <1>1, TypeInit, TypeStep, SettleInit, SettleStep, ReadInit, ReadStep, PTL DEF Spec

-----------------------------------------------------------------------------
(* Uploads.  An SMS is stored in one statement and settled in others, with *)
(* failures and repeated uploads in between.  What carries the proof: the  *)
(* request that stored an SMS is the only one that ever works on it, and   *)
(* while it does the SMS is linked to nothing and answered by nothing but  *)
(* "duplicate".                                                            *)

\* The request in slot s has stored an SMS and not answered for it yet.
Working(s) ==
    \/ pc[s] \in {"claim", "bind", "link"}
    \/ pc[s] \in TxPcs /\ req[s].outcome = "verified"

WorkIsExclusive ==
    \A s \in Slots : Working(s) =>
        /\ inbound[req[s].sms].matchedVerificationId = None
        /\ answers[req[s].sms] \subseteq {"duplicate"}
        /\ \A t \in Slots : s # t /\ Working(t) => req[t].sms # req[s].sms

UnstoredUnanswered == \A m \in SmsIds : ~Exists(inbound[m]) => answers[m] = {}

\* The row that a claim has locked matches the SMS and was not expired.
ClaimsAreJust ==
    \A s \in Slots : pc[s] \in TxPcs /\ req[s].outcome = "verified" =>
        /\ SmsMatches(req[s].verification, req[s].sms)
        /\ req[s].now < verifications[req[s].verification].expiresAt

AnswersAgree ==
    \A m \in SmsIds : \A x, y \in answers[m] \ {"duplicate"} : x = y

Linked(m) == Exists(inbound[m]) /\ inbound[m].matchedVerificationId \in VerificationIds

MatchedMeansLinked == \A m \in SmsIds : "matched" \in answers[m] <=> Linked(m)

ClaimInv ==
    /\ WorkIsExclusive /\ UnstoredUnanswered /\ ClaimsAreJust
    /\ AnswersAgree /\ MatchedMeansLinked /\ VerifiedBySms

\* The SMS of a request at work is stored.
LEMMA WorkingSms ==
    ASSUME TypeInv, NEW s \in Slots, Working(s)
    PROVE  req[s].sms \in SmsIds /\ Exists(inbound[req[s].sms])
<1>1. CASE pc[s] \in {"claim", "bind", "link"}
  BY <1>1 DEF TypeInv, SlotsOK, ReqTypeOK, RowsExist, RowsExistFor
<1>2. CASE pc[s] \in TxPcs /\ req[s].outcome = "verified"  BY <1>2, TxReqAt
<1> QED BY <1>1, <1>2 DEF Working

\* A request comes to work on an SMS by storing it, and goes on with it.
LEMMA WorkCame ==
    ASSUME TypeInv, NEW t \in Slots, CameTo(t, pc'[t]), Working(t)'
    PROVE  \/ Working(t) /\ req'[t].sms = req[t].sms /\ UNCHANGED <<inbound, answers>>
           \/ /\ req'[t].sms \in SmsIds /\ ~Exists(inbound[req'[t].sms])
              /\ inbound'[req'[t].sms].matchedVerificationId = None
              /\ answers' = answers
<1>1. CASE pc'[t] \in {"claim", "bind"}
  <2>1. PICK key \in Keys, from \in Phones, body \in Bodies : StoreInbound(t, key, from, body)
    BY <1>1 DEF CameTo
  <2> DEFINE m == <<req[t].receiver, key>>
             row == [status |-> "stored", from |-> from, body |-> body, matchedVerificationId |-> None]
  <2>2. m \in SmsIds  BY <2>1 DEF StoreInbound, TypeInv, SlotsOK, ReqTypeOK, SmsIds
  <2>3. ~Done(t)  BY <1>1, GoToAt DEF Done
  <2>4. answers' = answers /\ \E label : GoTo(t, label, [sms |-> m, since |-> clock])
    BY <2>1, <2>3 DEF StoreInbound
  <2>5. req'[t].sms = m  BY <2>4, GoToAt
  <2>6. ~Exists(inbound[m]) /\ inbound' = [inbound EXCEPT ![m] = row]  BY <2>1 DEF StoreInbound
  <2>7. row.matchedVerificationId = None  OBVIOUS
  <2> HIDE DEF m, row
  <2> QED BY <2>2, <2>4, <2>5, <2>6, <2>7 DEF TypeInv, DataOK
<1>2. CASE pc'[t] = "link"
  <2>1. ConsumeBindNonce(t)  BY <1>2 DEF CameTo
  <2>2. ~Done(t)  BY <1>2, GoToAt DEF Done
  <2>3. \E b : GoTo(t, "link", [sms |-> req[t].sms, binding |-> b])
    BY <2>1, <2>2 DEF ConsumeBindNonce
  <2>4. req'[t].sms = req[t].sms  BY <2>3, GoToAt
  <2> QED BY <2>1, <2>4 DEF ConsumeBindNonce, Working, history
<1>3. CASE pc'[t] \in TxPcs /\ req'[t].outcome = "verified"
  <2>1. UNCHANGED <<inbound, answers>>  BY <1>3, TxCame DEF tables, history
  <2>2. CASE pc[t] = "claim" /\ req'[t].sms = req[t].sms  BY <2>1, <2>2 DEF Working
  <2>3. CASE /\ pc[t] = "emit"
             /\ req'[t] = [req[t] EXCEPT !.targets = Subscribed(req[t].verification, req[t].outcome)]
    <3>1. pc[t] \in TxPcs /\ req[t] \in TransitionReq  BY <2>3, TxReqAt DEF TxPcs
    <3>2. req'[t].outcome = req[t].outcome /\ req'[t].sms = req[t].sms
      BY <2>3, <3>1, SelectKeeps
    <3> QED BY <1>3, <2>1, <3>1, <3>2 DEF Working
  <2> QED BY <1>3, <2>2, <2>3, TxCame
<1> QED BY <1>1, <1>2, <1>3 DEF Working

\* The request that ends its work on m with the answer x.
Concludes(s, m, x) ==
    /\ Working(s) /\ pc'[s] = "idle" /\ req[s].sms = m
    /\ x = "matched" =>
          CommitTransition(s) /\ req[s].outcome = "verified"

AnswerKinds == {"matched", "no_match", "duplicate", "binding", "binding_no_match"}

\* An answer is added by the store of a message without code or nonce, by a
\* refused duplicate, or by the request at work.
LEMMA AnswerChange ==
    ASSUME TypeInv, [Next]_vars, NEW m \in SmsIds, answers'[m] # answers[m]
    PROVE  \E s \in Slots, x \in AnswerKinds :
              /\ answers'[m] = answers[m] \cup {x}
              /\ \/ ~Exists(inbound[m]) /\ Exists(inbound'[m]) /\ x = "no_match"
                 \/ Exists(inbound[m]) /\ x = "duplicate"
                 \/ Exists(inbound[m]) /\ Concludes(s, m, x)
<1>1. PICK s \in Slots : SlotStep(s)  BY OutsideSteps DEF history
<1>2. \/ \E key \in Keys : \/ \E from \in Phones, body \in Bodies : StoreInbound(s, key, from, body)
                           \/ RefuseDuplicate(s, key)
      \/ NoMatch(s) \/ RefuseBindNonce(s) \/ LinkBinding(s) \/ CommitTransition(s)
  BY <1>1, SlotWrites
     DEF InsertVerification, AnswerRead, ConsumeBindNonce, InsertBinding, InsertEndpoint, history
<1>3. ASSUME NEW n, NEW x, answers' = [answers EXCEPT ![n] = answers[n] \cup {x}]
      PROVE  n = m /\ answers'[m] = answers[m] \cup {x}
  BY <1>3 DEF TypeInv, DataOK
<1>4. ASSUME Done(s) PROVE pc'[s] = "idle"  BY <1>4, GoToAt DEF Done
<1>5. ASSUME NEW key \in Keys, NEW from \in Phones, NEW body \in Bodies,
             StoreInbound(s, key, from, body)
      PROVE  /\ answers'[m] = answers[m] \cup {"no_match"}
             /\ ~Exists(inbound[m]) /\ Exists(inbound'[m])
  <2>1. answers' = [answers EXCEPT ![<<req[s].receiver, key>>] =
                       answers[<<req[s].receiver, key>>] \cup {"no_match"}]
    BY <1>5 DEF StoreInbound
  <2>2. <<req[s].receiver, key>> = m /\ answers'[m] = answers[m] \cup {"no_match"}  BY <1>3, <2>1
  <2>3. ~Exists(inbound[m])  BY <1>5, <2>2 DEF StoreInbound
  <2>4. inbound'[m].status = "stored"  BY <1>5, <2>2 DEF StoreInbound, TypeInv, DataOK
  <2> QED BY <2>2, <2>3, <2>4 DEF Exists
<1>6. ASSUME NEW key \in Keys, RefuseDuplicate(s, key)
      PROVE  answers'[m] = answers[m] \cup {"duplicate"} /\ Exists(inbound[m])
  <2>1. answers' = [answers EXCEPT ![<<req[s].receiver, key>>] =
                       answers[<<req[s].receiver, key>>] \cup {"duplicate"}]
        /\ Exists(inbound[<<req[s].receiver, key>>])
    BY <1>6 DEF RefuseDuplicate
  <2> QED BY <1>3, <2>1
<1>7. ASSUME NEW x \in {"no_match", "binding_no_match", "binding"}, Done(s),
             pc[s] \in {"claim", "bind", "link"},
             answers' = [answers EXCEPT ![req[s].sms] = answers[req[s].sms] \cup {x}]
      PROVE  /\ answers'[m] = answers[m] \cup {x}
             /\ Exists(inbound[m]) /\ Concludes(s, m, x)
  BY <1>3, <1>4, <1>7, WorkingSms DEF Working, Concludes
<1>8. CASE NoMatch(s)  BY <1>7, <1>8 DEF NoMatch, AnswerKinds
<1>9. CASE RefuseBindNonce(s)  BY <1>7, <1>9 DEF RefuseBindNonce, AnswerKinds
<1>10. CASE LinkBinding(s)  BY <1>7, <1>10 DEF LinkBinding, AnswerKinds
<1>11. CASE CommitTransition(s)
  <2>1. /\ req[s].outcome = "verified" /\ pc[s] \in TxPcs /\ Done(s)
        /\ answers' = [answers EXCEPT ![req[s].sms] = answers[req[s].sms] \cup {"matched"}]
    BY <1>11 DEF CommitTransition, TxPcs
  <2>2. req[s].sms = m /\ answers'[m] = answers[m] \cup {"matched"}  BY <1>3, <2>1
  <2>3. Working(s)  BY <2>1 DEF Working
  <2>4. Exists(inbound[m]) /\ Concludes(s, m, "matched")
    BY <1>4, <1>11, <2>1, <2>2, <2>3, WorkingSms DEF Concludes
  <2> QED BY <2>2, <2>4 DEF AnswerKinds
<1> QED BY <1>2, <1>5, <1>6, <1>8, <1>9, <1>10, <1>11 DEF AnswerKinds

\* Whoever links an SMS is the request at work on it, and ends with that.
LEMMA LinkChange ==
    ASSUME TypeInv, [Next]_vars, NEW m \in SmsIds, Exists(inbound[m]), inbound'[m] # inbound[m]
    PROVE  \E s \in Slots :
              /\ Working(s) /\ pc'[s] = "idle" /\ req[s].sms = m
              /\ inbound'[m].matchedVerificationId \in VerificationIds =>
                    /\ CommitTransition(s) /\ req[s].outcome = "verified"
                    /\ inbound'[m].matchedVerificationId = req[s].verification
<1>1. PICK s \in Slots :
         /\ m = req[s].sms
         /\ \/ NoMatch(s) /\ inbound'[m].matchedVerificationId = None
            \/ LinkBinding(s) /\ inbound'[m].matchedVerificationId = req[s].binding
            \/ /\ CommitTransition(s) /\ req[s].outcome = "verified"
               /\ inbound'[m].matchedVerificationId = req[s].verification
  BY SmsChange
<1>2. Done(s)  BY <1>1 DEF NoMatch, LinkBinding, CommitTransition
<1>3. pc'[s] = "idle"  BY <1>2, GoToAt DEF Done
<1>4. Working(s)  BY <1>1 DEF NoMatch, LinkBinding, CommitTransition, Working, TxPcs
<1>5. LinkBinding(s) => req[s].binding \in BindingIds
  BY DEF LinkBinding, TypeInv, SlotsOK, ReqTypeOK
<1> QED BY <1>1, <1>3, <1>4, <1>5, SetsAssumption

\* Two requests that would both be at work on one SMS are one request.
LEMMA OneAtWork ==
    ASSUME ClaimInv, NEW s \in Slots, NEW t \in Slots, Working(s), Working(t),
           req[s].sms = req[t].sms
    PROVE  s = t
BY DEF ClaimInv, WorkIsExclusive

\* While a request is at work and stays so, nobody else touches its SMS.
LEMMA WorkUndisturbed ==
    ASSUME TypeInv, ClaimInv, [Next]_vars, NEW t \in Slots, Working(t),
           pc'[t] # "idle", NEW m, m = req[t].sms
    PROVE  /\ inbound'[m].matchedVerificationId = None
           /\ answers'[m] \subseteq {"duplicate"}
<1>1. m \in SmsIds /\ Exists(inbound[m])  BY WorkingSms
<1>2. inbound[m].matchedVerificationId = None /\ answers[m] \subseteq {"duplicate"}
  BY DEF ClaimInv, WorkIsExclusive
<1>3. inbound'[m] = inbound[m]
  <2>1. SUFFICES ASSUME inbound'[m] # inbound[m] PROVE FALSE  OBVIOUS
  <2>2. PICK s \in Slots : Working(s) /\ pc'[s] = "idle" /\ req[s].sms = m
    BY <1>1, <2>1, LinkChange
  <2> QED BY <2>2, OneAtWork
<1>4. answers'[m] \subseteq {"duplicate"}
  <2>1. SUFFICES ASSUME answers'[m] # answers[m] PROVE answers'[m] \subseteq {"duplicate"}
    BY <1>2
  <2>2. PICK s \in Slots, x \in AnswerKinds :
              /\ answers'[m] = answers[m] \cup {x}
              /\ x = "duplicate" \/ Concludes(s, m, x)
    BY <1>1, <2>1, AnswerChange
  <2>3. ~Concludes(s, m, x)  BY OneAtWork DEF Concludes
  <2> QED BY <1>2, <2>2, <2>3
<1> QED BY <1>2, <1>3, <1>4

\* The work on an SMS stays with the request that stored it.
LEMMA WorkIsExclusiveStep ==
    ASSUME TypeInv, ClaimInv, [Next]_vars PROVE WorkIsExclusive'
<1>1. ASSUME NEW t \in Slots, Working(t)' PROVE pc'[t] # "idle"
  BY <1>1 DEF Working, TxPcs
<1>2. ASSUME NEW t \in Slots, Working(t)', NEW m, m = req'[t].sms
      PROVE  inbound'[m].matchedVerificationId = None /\ answers'[m] \subseteq {"duplicate"}
  <2>1. CASE Working(t) /\ req'[t].sms = req[t].sms
    BY <1>1, <1>2, <2>1, WorkUndisturbed
  <2>2. CASE pc'[t] = pc[t] /\ req'[t] = req[t]
    <3>1. Working(t)  BY <1>2, <2>2 DEF Working
    <3> QED BY <2>1, <2>2, <3>1
  <2>3. CASE CameTo(t, pc'[t])
    <3>1. CASE /\ m \in SmsIds /\ ~Exists(inbound[m])
               /\ inbound'[m].matchedVerificationId = None /\ answers' = answers
      BY <3>1 DEF ClaimInv, UnstoredUnanswered
    <3> QED BY <1>2, <2>1, <2>3, <3>1, WorkCame
  <2> QED BY <2>2, <2>3, StaysOrCame
<1>3. ASSUME NEW t \in Slots, NEW u \in Slots, t # u, SlotStep(t), Working(t)', Working(u)'
      PROVE  req'[u].sms # req'[t].sms
  <2>1. pc'[u] = pc[u] /\ req'[u] = req[u]  BY <1>3, OthersStay
  <2>2. Working(u)  BY <1>3, <2>1 DEF Working
  <2>3. Exists(inbound[req[u].sms])  BY <2>2, WorkingSms
  <2>4. CameTo(t, pc'[t])  BY <1>3, MoverCame
  <2> QED BY <1>3, <2>1, <2>2, <2>3, <2>4, WorkCame, OneAtWork
<1>4. ASSUME NEW t \in Slots, NEW u \in Slots, t # u, Working(t)', Working(u)'
      PROVE  req'[u].sms # req'[t].sms
  <2>1. CASE SlotStep(t)  BY <1>3, <1>4, <2>1
  <2>2. CASE SlotStep(u)  BY <1>3, <1>4, <2>2
  <2>3. CASE ~SlotStep(t) /\ ~SlotStep(u)
    <3>1. pc'[t] = pc[t] /\ req'[t] = req[t] /\ pc'[u] = pc[u] /\ req'[u] = req[u]
      BY <2>3, StaysOrCame
    <3>2. Working(t) /\ Working(u)  BY <1>4, <3>1 DEF Working
    <3> QED BY <1>4, <3>1, <3>2, OneAtWork
  <2> QED BY <2>1, <2>2, <2>3
<1> QED BY <1>2, <1>4 DEF WorkIsExclusive

\* Nobody is answered for an SMS that is not stored.
LEMMA UnstoredUnansweredStep ==
    ASSUME TypeInv, ClaimInv, [Next]_vars PROVE UnstoredUnanswered'
<1>1. ASSUME NEW m \in SmsIds, ~Exists(inbound'[m]) PROVE answers'[m] = {}
  <2>1. ~Exists(inbound[m])  BY <1>1, SmsStays
  <2>2. answers[m] = {}  BY <2>1 DEF ClaimInv, UnstoredUnanswered
  <2> QED BY <1>1, <2>1, <2>2, AnswerChange
<1> QED BY <1>1 DEF UnstoredUnanswered, Exists

\* What the claim compared stays as it was until the commit.
LEMMA ClaimsAreJustStep ==
    ASSUME TypeInv, SettleInv, ClaimInv, [Next]_vars PROVE ClaimsAreJust'
<1>1. ASSUME NEW v \in VerificationIds, NEW m \in SmsIds, Exists(verifications[v]), Exists(inbound[m]),
             NEW now, SmsMatches(v, m), now < verifications[v].expiresAt
      PROVE  SmsMatches(v, m)' /\ now < verifications'[v].expiresAt
  BY <1>1, SmsStays, VerificationStays DEF SmsMatches, SameVerification
<1>2. ASSUME NEW t \in Slots, pc[t] \in TxPcs, req[t].outcome = "verified"
      PROVE  /\ SmsMatches(req[t].verification, req[t].sms)
             /\ req[t].now < verifications[req[t].verification].expiresAt
             /\ req[t].verification \in VerificationIds /\ Exists(verifications[req[t].verification])
             /\ req[t].sms \in SmsIds /\ Exists(inbound[req[t].sms])
  BY <1>2, TxReqAt DEF ClaimInv, ClaimsAreJust
<1>3. ASSUME NEW t \in Slots, pc'[t] \in TxPcs, req'[t].outcome = "verified",
             NEW v, v = req'[t].verification, NEW m, m = req'[t].sms, NEW now, now = req'[t].now
      PROVE  SmsMatches(v, m)' /\ now < verifications'[v].expiresAt
  <2>1. CASE /\ pc[t] \in TxPcs /\ req[t].outcome = "verified"
             /\ v = req[t].verification /\ m = req[t].sms /\ now = req[t].now
    BY <1>1, <1>2, <2>1
  <2>2. CASE CameTo(t, pc'[t])
    <3>1. CASE pc[t] = "claim" /\ m = req[t].sms /\ now \in req[t].since .. clock
               /\ v \in Claimable(req[t].sms, now)
      <4>1. m \in SmsIds /\ Exists(inbound[m])  BY <3>1, WorkingSms DEF Working
      <4>2. /\ v \in VerificationIds /\ Exists(verifications[v])
            /\ SmsMatches(v, m) /\ verifications[v].expiresAt > now
        BY <3>1 DEF Claimable, IsPending, Exists
      <4>3. now \in Int /\ verifications[v].expiresAt \in Nat
        <5>1. req[t].since \in Nat /\ clock \in Nat
          BY <3>1 DEF TypeInv, SlotsOK, ReqTypeOK, DataOK
        <5> QED BY <3>1, <4>2, <5>1 DEF TypeInv, DataOK, Exists, NoRow, VerificationRow
      <4> QED BY <1>1, <4>1, <4>2, <4>3
    <3>2. CASE /\ pc[t] = "emit"
               /\ req'[t] = [req[t] EXCEPT !.targets =
                               Subscribed(req[t].verification, req[t].outcome)]
      <4>1. pc[t] \in TxPcs /\ req[t] \in TransitionReq  BY <3>2, TxReqAt DEF TxPcs
      <4>2. /\ req'[t].outcome = req[t].outcome /\ req'[t].sms = req[t].sms
            /\ req'[t].verification = req[t].verification /\ req'[t].now = req[t].now
        BY <3>2, <4>1, SelectKeeps
      <4> QED BY <1>3, <2>1, <4>1, <4>2
    <3> QED BY <1>3, <2>2, <3>1, <3>2, TxCame
  <2>3. CASE pc'[t] = pc[t] /\ req'[t] = req[t]  BY <1>3, <2>1, <2>3
  <2> QED BY <2>2, <2>3, StaysOrCame
<1>4. ASSUME NEW t \in Slots, (pc[t])' \in TxPcs, (req[t].outcome)' = "verified"
      PROVE  /\ SmsMatches(req[t].verification, req[t].sms)'
             /\ (req[t].now < verifications[req[t].verification].expiresAt)'
  BY <1>3, <1>4 DEF SmsMatches
<1> QED BY <1>4 DEF ClaimsAreJust

\* An SMS is stored unlinked.
LEMMA StoredUnlinked ==
    ASSUME TypeInv, [Next]_vars, NEW m \in SmsIds, ~Exists(inbound[m]), inbound'[m] # inbound[m]
    PROVE  inbound'[m].matchedVerificationId = None
<1>1. PICK from \in Phones, body \in Bodies :
         inbound'[m] = [status |-> "stored", from |-> from, body |-> body,
                        matchedVerificationId |-> None]
  BY SmsChange
<1> QED BY <1>1

\* A link, once made, stays: nobody is at work on a linked SMS.
LEMMA LinkStays ==
    ASSUME TypeInv, ClaimInv, [Next]_vars, NEW m \in SmsIds, Exists(inbound[m]),
           inbound[m].matchedVerificationId # None
    PROVE  inbound'[m] = inbound[m]
BY LinkChange DEF ClaimInv, WorkIsExclusive

\* The commit of a claim links the SMS and answers for it.
LEMMA CommitLinks ==
    ASSUME TypeInv, NEW s \in Slots, CommitTransition(s), req[s].outcome = "verified"
    PROVE  /\ req[s].sms \in SmsIds
           /\ inbound'[req[s].sms].status = "stored"
           /\ inbound'[req[s].sms].from = inbound[req[s].sms].from
           /\ inbound'[req[s].sms].body = inbound[req[s].sms].body
           /\ inbound'[req[s].sms].matchedVerificationId = req[s].verification
           /\ "matched" \in answers'[req[s].sms]
<1> DEFINE m == req[s].sms
           v == req[s].verification
<1>1. pc[s] \in TxPcs  BY DEF CommitTransition, TxPcs
<1>2. m \in SmsIds /\ Exists(inbound[m]) /\ v \in VerificationIds  BY <1>1, TxReqAt
<1>3. inbound[m] \in InboundRow  BY <1>2 DEF TypeInv, DataOK, Exists, NoRow
<1>4. inbound' = [inbound EXCEPT ![m].matchedVerificationId = v]
      /\ answers' = [answers EXCEPT ![m] = answers[m] \cup {"matched"}]
  BY DEF CommitTransition
<1> HIDE DEF m, v
<1>5. inbound'[m] = [inbound[m] EXCEPT !.matchedVerificationId = v]
      /\ answers'[m] = answers[m] \cup {"matched"}
  BY <1>2, <1>4 DEF TypeInv, DataOK
<1>6. /\ inbound'[m].status = "stored" /\ inbound'[m].from = inbound[m].from
      /\ inbound'[m].body = inbound[m].body /\ inbound'[m].matchedVerificationId = v
      /\ "matched" \in answers'[m]
  BY <1>2, <1>3, <1>5, LinkedType
<1> QED BY <1>2, <1>6 DEF m, v

\* All uploads of an SMS that are not refused as duplicates agree, and
\* "matched" is answered exactly for the linked ones.
LEMMA AnswersStep ==
    ASSUME TypeInv, ClaimInv, [Next]_vars PROVE AnswersAgree' /\ MatchedMeansLinked'
<1>1. ASSUME NEW m \in SmsIds, NEW x \in answers'[m] \ {"duplicate"},
             NEW y \in answers'[m] \ {"duplicate"}
      PROVE  x = y
  <2>1. CASE answers'[m] = answers[m]  BY <1>1, <2>1 DEF ClaimInv, AnswersAgree
  <2>2. CASE answers'[m] # answers[m]
    <3>1. PICK s \in Slots, z \in AnswerKinds :
                /\ answers'[m] = answers[m] \cup {z}
                /\ \/ ~Exists(inbound[m])
                   \/ z = "duplicate"
                   \/ Concludes(s, m, z)
      BY <2>2, AnswerChange
    <3>2. CASE ~Exists(inbound[m])  BY <1>1, <3>1, <3>2 DEF ClaimInv, UnstoredUnanswered
    <3>3. CASE z = "duplicate"  BY <1>1, <3>1, <3>3 DEF ClaimInv, AnswersAgree
    <3>4. CASE Concludes(s, m, z)
      <4>1. answers[m] \subseteq {"duplicate"}  BY <3>4 DEF Concludes, ClaimInv, WorkIsExclusive
      <4> QED BY <1>1, <3>1, <4>1
    <3> QED BY <3>1, <3>2, <3>3, <3>4
  <2> QED BY <2>1, <2>2
<1>2. ASSUME NEW m \in SmsIds, "matched" \in answers'[m] PROVE Linked(m)'
  <2>1. CASE "matched" \in answers[m]
    <3>1. Linked(m)  BY <2>1 DEF ClaimInv, MatchedMeansLinked
    <3>2. inbound'[m] = inbound[m]  BY <3>1, LinkStays, SetsAssumption DEF Linked
    <3> QED BY <3>1, <3>2 DEF Linked, Exists
  <2>2. CASE "matched" \notin answers[m]
    <3>1. PICK s \in Slots : /\ CommitTransition(s) /\ req[s].outcome = "verified"
                             /\ req[s].sms = m
      BY <1>2, <2>2, AnswerChange DEF Concludes
    <3>2. req[s].verification \in VerificationIds
      BY <3>1, TxReqAt DEF CommitTransition, TxPcs
    <3>3. inbound'[m].status = "stored" /\ inbound'[m].matchedVerificationId = req[s].verification
      BY <3>1, CommitLinks
    <3> QED BY <3>2, <3>3 DEF Linked, Exists
  <2> QED BY <2>1, <2>2
<1>3. ASSUME NEW m \in SmsIds, Linked(m)' PROVE "matched" \in answers'[m]
  <2>1. CASE inbound'[m] = inbound[m]
    <3>1. Linked(m)  BY <1>3, <2>1 DEF Linked, Exists
    <3>2. "matched" \in answers[m]  BY <3>1 DEF ClaimInv, MatchedMeansLinked
    <3> QED BY <3>2, AnswerChange
  <2>2. CASE inbound'[m] # inbound[m]
    <3>1. Exists(inbound[m])
      <4>1. SUFFICES ASSUME ~Exists(inbound[m]) PROVE FALSE  OBVIOUS
      <4>2. inbound'[m].matchedVerificationId = None  BY <2>2, <4>1, StoredUnlinked
      <4> QED BY <1>3, <4>2, SetsAssumption DEF Linked
    <3>2. PICK s \in Slots : CommitTransition(s) /\ req[s].outcome = "verified" /\ req[s].sms = m
      BY <1>3, <2>2, <3>1, LinkChange DEF Linked
    <3> QED BY <3>2, CommitLinks
  <2> QED BY <2>1, <2>2
<1>4. AnswersAgree'  BY <1>1 DEF AnswersAgree
<1>5. MatchedMeansLinked'  BY <1>2, <1>3 DEF MatchedMeansLinked
<1> QED BY <1>4, <1>5

\* A body that matches a row's code is VERIFY and that code.
LEMMA MatchedBody ==
    ASSUME TypeInv, NEW v \in VerificationIds, Exists(verifications[v]),
           NEW m \in SmsIds, Exists(inbound[m]), SmsMatches(v, m)
    PROVE  inbound[m].body = [prefix |-> "VERIFY", tail |-> verifications[v].code]
<1>1. verifications[v].code \in Codes
  BY DEF TypeInv, DataOK, Exists, NoRow, VerificationRow
<1>2. inbound[m].body \in Bodies  BY DEF TypeInv, DataOK, Exists, NoRow, InboundRow
<1>3. ASSUME NEW body \in Bodies, NEW code \in Codes, code = ExtractCode(body)
      PROVE  body = [prefix |-> "VERIFY", tail |-> code]
  <2>1. body.prefix = "VERIFY" /\ body.tail = code
    BY <1>3, SetsAssumption DEF ExtractCode
  <2> QED BY <2>1 DEF Bodies
<1> QED BY <1>1, <1>2, <1>3 DEF SmsMatches

\* A verification becomes verified together with the link of its SMS.
LEMMA VerifiedBySmsStep ==
    ASSUME TypeInv, SettleInv, ClaimInv, [Next]_vars PROVE VerifiedBySms'
<1>1. ASSUME NEW v \in VerificationIds, verifications'[v].status = "verified",
             NEW m, m = verifications'[v].matchedInboundId
      PROVE  SmsJustifies(v, m)'
  <2>1. CASE verifications'[v] = verifications[v]
    <3>1. SmsJustifies(v, m)  BY <1>1, <2>1 DEF ClaimInv, VerifiedBySms
    <3>2. inbound'[m] = inbound[m]
      BY <3>1, LinkStays, SetsAssumption DEF SmsJustifies, Exists
    <3> QED BY <2>1, <3>1, <3>2 DEF SmsJustifies
  <2>2. CASE verifications'[v] # verifications[v]
    <3>1. PICK s \in Slots : StartedBy(v, s) \/ SettledBy(v, s)  BY <2>2, VerificationChange
    <3>2. SettledBy(v, s) /\ req[s].outcome = "verified" /\ CommitTransition(s)
          /\ req[s].verification = v /\ req[s].sms = m /\ pc[s] \in TxPcs
      BY <1>1, <3>1 DEF StartedBy, SettledBy, CommitTransition, TxPcs
    <3>3. SmsMatches(v, m) /\ req[s].now < verifications[v].expiresAt
      BY <3>2 DEF ClaimInv, ClaimsAreJust
    <3>4. m \in SmsIds /\ Exists(inbound[m]) /\ Exists(verifications[v])  BY <3>2, TxReqAt
    <3>5. inbound[m].body = [prefix |-> "VERIFY", tail |-> verifications[v].code]
      BY <3>3, <3>4, MatchedBody
    <3>6. /\ inbound'[m].status = "stored" /\ inbound'[m].from = inbound[m].from
          /\ inbound'[m].body = inbound[m].body /\ inbound'[m].matchedVerificationId = v
      BY <3>2, CommitLinks
    <3> QED BY <3>2, <3>3, <3>4, <3>5, <3>6
            DEF SmsJustifies, SmsMatches, SettledBy, SameVerification
  <2> QED BY <2>1, <2>2
<1>2. ASSUME NEW m \in SmsIds, inbound'[m].status = "stored",
             NEW v \in VerificationIds, inbound'[m].matchedVerificationId = v
      PROVE  verifications'[v].status = "verified" /\ verifications'[v].matchedInboundId = m
  <2>1. CASE inbound'[m] = inbound[m]
    <3>1. verifications[v].status = "verified" /\ verifications[v].matchedInboundId = m
      BY <1>2, <2>1 DEF ClaimInv, VerifiedBySms
    <3>2. verifications'[v] = verifications[v]  BY <3>1, VerificationStays DEF Exists
    <3> QED BY <3>1, <3>2
  <2>2. CASE inbound'[m] # inbound[m]
    <3>1. Exists(inbound[m])
      <4>1. SUFFICES ASSUME ~Exists(inbound[m]) PROVE FALSE  OBVIOUS
      <4>2. inbound'[m].matchedVerificationId = None  BY <2>2, <4>1, StoredUnlinked
      <4> QED BY <1>2, <4>2, SetsAssumption
    <3>2. PICK s \in Slots : /\ CommitTransition(s) /\ req[s].outcome = "verified"
                             /\ req[s].sms = m /\ req[s].verification = v
      BY <1>2, <2>2, <3>1, LinkChange
    <3> QED BY <3>2, CommitSettles DEF SettledBy
  <2> QED BY <2>1, <2>2
<1>3. \A v \in VerificationIds :
         verifications'[v].status = "verified" => SmsJustifies(v, verifications[v].matchedInboundId)'
  <2>1. ASSUME NEW v \in VerificationIds, verifications'[v].status = "verified"
        PROVE  SmsJustifies(v, verifications[v].matchedInboundId)'
    BY <1>1, <2>1 DEF SmsJustifies
  <2> QED BY <2>1
<1> QED BY <1>2, <1>3 DEF VerifiedBySms

\* Initially no SMS is stored and no request is at work.
LEMMA ClaimInit == Init => ClaimInv
<1> SUFFICES ASSUME Init PROVE ClaimInv  OBVIOUS
<1>1. /\ \A s \in Slots : pc[s] = "idle"
      /\ \A m \in SmsIds : inbound[m].status = "none" /\ answers[m] = {}
      /\ \A v \in VerificationIds : verifications[v].status = "none"
  BY DEF Init, InitRest, NoRow
<1>2. WorkIsExclusive /\ ClaimsAreJust  BY <1>1 DEF WorkIsExclusive, ClaimsAreJust, Working, TxPcs
<1>3. UnstoredUnanswered /\ AnswersAgree /\ MatchedMeansLinked
  BY <1>1 DEF UnstoredUnanswered, AnswersAgree, MatchedMeansLinked, Linked, Exists
<1>4. VerifiedBySms  BY <1>1 DEF VerifiedBySms
<1> QED BY <1>2, <1>3, <1>4 DEF ClaimInv

\* Every step keeps the invariant of the uploads.
LEMMA ClaimStep == TypeInv /\ SettleInv /\ ClaimInv /\ [Next]_vars => ClaimInv'
BY WorkIsExclusiveStep, UnstoredUnansweredStep, ClaimsAreJustStep, AnswersStep, VerifiedBySmsStep
   DEF ClaimInv

\* A verification is verified by an SMS with its code, from its phone, at its
\* receiver, before its expiry, and the two point at each other: although the
\* SMS is stored in one transaction and the row is claimed in another.
THEOREM ProvedBySms == Spec => []VerifiedBySms
<1>1. ClaimInv => VerifiedBySms  BY DEF ClaimInv
<1> QED BY <1>1, TypeInit, TypeStep, SettleInit, SettleStep, ClaimInit, ClaimStep, PTL DEF Spec

\* However often an SMS is uploaded and wherever an upload fails, the SMS has
\* one outcome, and a gateway hears "matched" exactly when it is linked.
THEOREM OneOutcomeHolds == Spec => []OneOutcome
<1>1. ClaimInv => OneOutcome
  <2> SUFFICES ASSUME ClaimInv, NEW m \in SmsIds
               PROVE  Cardinality(answers[m] \ {"duplicate"}) <= 1
    BY DEF ClaimInv, MatchedMeansLinked, Linked, OneOutcome
  <2>1. \A x, y \in answers[m] \ {"duplicate"} : x = y  BY DEF ClaimInv, AnswersAgree
  <2>2. CASE answers[m] \ {"duplicate"} = {}  BY <2>2, FS_EmptySet
  <2>3. CASE answers[m] \ {"duplicate"} # {}
    <3>1. PICK x \in answers[m] \ {"duplicate"} : TRUE  BY <2>3
    <3>2. answers[m] \ {"duplicate"} = {x}  BY <2>1, <3>1
    <3>3. Cardinality({x}) = 1  BY FS_Singleton
    <3> QED BY <3>2, <3>3
  <2> QED BY <2>2, <2>3
<1> QED BY <1>1, TypeInit, TypeStep, SettleInit, SettleStep, ClaimInit, ClaimStep, PTL DEF Spec

-----------------------------------------------------------------------------
(* The refinement.  A start is a Create, the commit of a claim a Verify,   *)
(* any other commit a Drop, and every other step leaves the abstract state *)
(* alone.                                                                  *)

UnmatchedUntilVerified ==
    \A v \in VerificationIds :
        Exists(verifications[v]) /\ verifications[v].status # "verified" =>
            verifications[v].matchedInboundId = None

statusOf == [v \in VerificationIds |-> verifications[v].status]
proofOf == [v \in VerificationIds |->
               IF Exists(verifications[v]) THEN verifications[v].matchedInboundId ELSE None]

\* Only the commit of a claim sets matched_inbound_id.
LEMMA UnmatchedStep ==
    TypeInv /\ SettleInv /\ UnmatchedUntilVerified /\ [Next]_vars => UnmatchedUntilVerified'
<1> SUFFICES ASSUME TypeInv, SettleInv, UnmatchedUntilVerified, [Next]_vars,
                    NEW v \in VerificationIds,
                    Exists(verifications'[v]), verifications'[v].status # "verified"
             PROVE  verifications'[v].matchedInboundId = None
  BY DEF UnmatchedUntilVerified, Exists
<1>1. CASE verifications'[v] = verifications[v]  BY <1>1 DEF UnmatchedUntilVerified
<1>2. ASSUME NEW s \in Slots, StartedBy(v, s) PROVE verifications'[v].matchedInboundId = None
  BY <1>2 DEF StartedBy
<1>3. ASSUME NEW s \in Slots, SettledBy(v, s) PROVE verifications'[v].matchedInboundId = None
  BY <1>3 DEF SettledBy, UnmatchedUntilVerified, IsPending, Exists
<1> QED BY <1>1, <1>2, <1>3, VerificationChange

\* No verification has an SMS that a request is still at work on.
LEMMA WorkProvesNothing ==
    ASSUME TypeInv, ClaimInv, UnmatchedUntilVerified, NEW s \in Slots, Working(s),
           NEW w \in VerificationIds
    PROVE  proofOf[w] # req[s].sms
<1>1. req[s].sms \in SmsIds /\ req[s].sms # None  BY WorkingSms, SetsAssumption DEF SmsIds
<1>2. CASE verifications[w].status = "verified"
  <2>1. SmsJustifies(w, verifications[w].matchedInboundId)  BY <1>2 DEF ClaimInv, VerifiedBySms
  <2>2. verifications[w].matchedInboundId # req[s].sms
    BY <2>1, SetsAssumption DEF SmsJustifies, ClaimInv, WorkIsExclusive
  <2> QED BY <1>2, <2>2 DEF proofOf, Exists
<1>3. CASE verifications[w].status # "verified"
  BY <1>1, <1>3 DEF UnmatchedUntilVerified, proofOf
<1> QED BY <1>2, <1>3

\* The insert creates.
LEMMA InsertCreates ==
    ASSUME TypeInv, SettleInv, NEW s \in Slots, InsertVerification(s), NEW v, v = req[s].id
    PROVE  L!Create(v)
<1>1. StartedBy(v, s)  BY InsertStarts
<1>2. v \in VerificationIds  BY StartReqAt DEF InsertVerification, StartPcs, StartReq
<1>3. \E row : verifications' = [verifications EXCEPT ![v] = row]  BY DEF InsertVerification
<1>4. events' = events  BY DEF InsertVerification
<1>5. \A w \in VerificationIds : w # v => verifications'[w] = verifications[w]
  BY <1>3 DEF TypeInv, DataOK
<1>6. statusOf[v] = "none"  BY <1>1, <1>2 DEF StartedBy, statusOf, Exists
<1>7. statusOf' = [statusOf EXCEPT ![v] = "pending"]  BY <1>1, <1>2, <1>5 DEF StartedBy, statusOf
<1>8. proofOf' = proofOf
  <2>1. verifications'[v].matchedInboundId = None /\ ~Exists(verifications[v])
    BY <1>1 DEF StartedBy
  <2>2. ASSUME NEW w \in VerificationIds PROVE proofOf'[w] = proofOf[w]
    BY <1>5, <2>1 DEF proofOf, Exists
  <2> QED BY <2>2 DEF proofOf
<1> QED BY <1>4, <1>6, <1>7, <1>8 DEF L!Create, statusOf, proofOf

\* A commit settles, and a claim's commit proves.
LEMMA CommitVerifiesOrDrops ==
    ASSUME TypeInv, SettleInv, ClaimInv, UnmatchedUntilVerified, NEW s \in Slots,
           CommitTransition(s), NEW v, v = req[s].verification,
           NEW o, o = req[s].outcome, NEW m, m = req[s].sms
    PROVE  L!Verify(v) \/ L!Drop(v)
<1>1. SettledBy(v, s) /\ pc[s] \in TxPcs  BY CommitSettles DEF CommitTransition, TxPcs
<1>2. v \in VerificationIds /\ o \in Terminal /\ (o = "verified" => m \in SmsIds)
  BY <1>1, TxReqAt
<1>3. \E row : verifications' = [verifications EXCEPT ![v] = row]  BY DEF CommitTransition
<1>4. events' = [events EXCEPT ![v] = Append(events[v], o)]  BY DEF CommitTransition
<1>5. o = "verified" => Working(s)  BY <1>1 DEF Working
<1>6. o = "verified" => \A w \in VerificationIds : proofOf[w] # m
  BY <1>5, WorkProvesNothing
<1>7. /\ verifications[v].status = "pending" /\ verifications'[v].status = o
      /\ o = "verified" => verifications'[v].matchedInboundId = m
      /\ o # "verified" => verifications'[v].matchedInboundId = verifications[v].matchedInboundId
  BY <1>1 DEF SettledBy, IsPending
<1>8. \A w \in VerificationIds : w # v => verifications'[w] = verifications[w]
  BY <1>3 DEF TypeInv, DataOK
<1>9. statusOf[v] = "pending"  BY <1>2, <1>7 DEF statusOf
<1>10. statusOf' = [statusOf EXCEPT ![v] = o]  BY <1>2, <1>7, <1>8 DEF statusOf
<1>11. L!Settle(v, o)  BY <1>4, <1>9, <1>10 DEF L!Settle, statusOf
<1>12. CASE o = "verified"
  <2>1. proofOf' = [proofOf EXCEPT ![v] = m]
    BY <1>2, <1>7, <1>8, <1>12 DEF proofOf, Exists
  <2> QED BY <1>2, <1>6, <1>11, <1>12, <2>1 DEF L!Verify, proofOf
<1>13. CASE o # "verified"
  <2>1. proofOf' = proofOf
    <3>1. ASSUME NEW w \in VerificationIds PROVE proofOf'[w] = proofOf[w]
      BY <1>2, <1>7, <1>8, <1>13 DEF proofOf, Exists, Terminal
    <3> QED BY <3>1 DEF proofOf
  <2>2. o \in {"expired", "cancelled"}  BY <1>2, <1>13 DEF Terminal
  <2> QED BY <1>11, <2>1, <2>2 DEF L!Drop, proofOf
<1> QED BY <1>12, <1>13

\* A step that writes no verification logs no event either.
LEMMA EventsFollow ==
    ASSUME TypeInv, TypeInv', SettleInv, SettleInv', verifications' = verifications
    PROVE  events' = events
<1>1. ASSUME NEW v \in VerificationIds PROVE events'[v] = events[v]
  BY DEF SettleInv, EventMatchesStatus
<1> QED BY <1>1 DEF TypeInv, DataOK

\* Every step of the server is a step of Lifecycle or leaves it alone.
LEMMA LifecycleStep ==
    TypeInv /\ TypeInv' /\ SettleInv /\ SettleInv' /\ ClaimInv /\ UnmatchedUntilVerified
    /\ [Next]_vars => [L!Next]_(L!vars)
<1> SUFFICES ASSUME TypeInv, TypeInv', SettleInv, SettleInv', ClaimInv, UnmatchedUntilVerified,
                    [Next]_vars
             PROVE  [L!Next]_(L!vars)
  OBVIOUS
<1>1. CASE verifications' = verifications
  <2>1. events' = events  BY <1>1, EventsFollow
  <2>2. statusOf' = statusOf /\ proofOf' = proofOf  BY <1>1 DEF statusOf, proofOf, Exists
  <2> QED BY <2>1, <2>2 DEF L!vars, statusOf, proofOf
<1>2. CASE verifications' # verifications
  <2>1. PICK v \in VerificationIds : verifications'[v] # verifications[v]
    BY <1>2 DEF TypeInv, DataOK
  <2>2. PICK s \in Slots : \/ InsertVerification(s) /\ req[s].id = v
                           \/ CommitTransition(s) /\ req[s].verification = v
    BY <2>1, WhoWritesVerification
  <2>3. L!Create(v) \/ L!Verify(v) \/ L!Drop(v)
    BY <2>2, InsertCreates, CommitVerifiesOrDrops
  <2> QED BY <2>3 DEF L!Next
<1> QED BY <1>1, <1>2

\* The server implements Lifecycle: whatever the requests, locks, failures and
\* retries, a verification is created once, settled once, with its event in
\* that very step, and verified only by an SMS that verifies nothing else.
THEOREM Implements == Spec => ImplementsLifecycle
<1>1. Init => L!Init /\ UnmatchedUntilVerified
  <2> SUFFICES ASSUME Init PROVE L!Init /\ UnmatchedUntilVerified  OBVIOUS
  <2>1. \A v \in VerificationIds : verifications[v].status = "none"  BY DEF Init, InitRest, NoRow
  <2>2. UnmatchedUntilVerified  BY <2>1 DEF UnmatchedUntilVerified, Exists
  <2>3. events = [v \in VerificationIds |-> <<>>]  BY DEF Init, InitRest
  <2> QED BY <2>1, <2>2, <2>3 DEF L!Init, Exists
<1> QED
  BY <1>1, TypeInit, TypeStep, SettleInit, SettleStep, ClaimInit, ClaimStep, UnmatchedStep,
     LifecycleStep, PTL DEF Spec, ImplementsLifecycle, L!Spec

-----------------------------------------------------------------------------
(* Deliveries and endpoints.  The endpoints of an event are read two       *)
(* statements before its deliveries are written, and may be deleted in     *)
(* between.  An id that was once used is never used again, so an endpoint  *)
(* that is enabled when the deliveries are written is the one that was     *)
(* read.                                                                   *)

\* The id of a creation in flight is nobody else's, and no row has or had it.
EndpointIdsAreFresh ==
    \A s \in Slots : pc[s] = "endpoint" =>
        /\ endpoints[req[s].id] = NoRow
        /\ \A t \in Slots : s # t /\ pc[t] = "endpoint" => req[t].id # req[s].id

\* What a transaction has read of an endpoint is so as long as it exists.
TargetsFit ==
    \A s \in Slots : pc[s] = "commit" => \A e \in req[s].targets :
        /\ endpoints[e] # NoRow
        /\ Enabled(e) => /\ endpoints[e].app = verifications[req[s].verification].app
                         /\ req[s].outcome \in endpoints[e].eventTypes

DeliveryInv == EndpointIdsAreFresh /\ TargetsFit /\ DeliveriesHaveEvents

\* A slot comes to the insert of an endpoint with a fresh id.
LEMMA EndpointCame ==
    ASSUME TypeInv, NEW t \in Slots, CameTo(t, pc'[t]), pc'[t] = "endpoint"
    PROVE  /\ endpoints' = endpoints
           /\ endpoints[req'[t].id] = NoRow
           /\ \A u \in Slots : pc[u] = "endpoint" => req[u].id # req'[t].id
           /\ BelowEndpointCap(req'[t].app)
<1>1. PICK a \in Apps : CheckEndpointCap(t, a)  BY DEF CameTo
<1>2. PICK e \in EndpointIds :
         /\ endpoints[e] = NoRow
         /\ \A u \in Slots : pc[u] = "endpoint" => req[u].id # e
         /\ GoTo(t, "endpoint", [id |-> e, app |-> a])
  BY <1>1 DEF CheckEndpointCap
<1>3. req'[t].id = e /\ req'[t].app = a  BY <1>2, GoToAt
<1>4. endpoints' = endpoints /\ BelowEndpointCap(a)  BY <1>1 DEF CheckEndpointCap, tables
<1> QED BY <1>2, <1>3, <1>4

\* An endpoint that was ever inserted changes only by its deletion.
LEMMA EndpointChange ==
    ASSUME TypeInv, DeliveryInv, [Next]_vars, NEW e \in EndpointIds, endpoints'[e] # endpoints[e]
    PROVE  \/ /\ endpoints[e] = NoRow
              /\ \E s \in Slots : InsertEndpoint(s) /\ req[s].id = e
           \/ DeleteEndpoint(e) /\ endpoints'[e] = DeletedRow
<1>1. CASE DeleteEndpoint(e)  BY <1>1 DEF DeleteEndpoint, TypeInv, DataOK
<1>2. ASSUME NEW s \in Slots, InsertEndpoint(s), req[s].id = e PROVE endpoints[e] = NoRow
  BY <1>2 DEF InsertEndpoint, DeliveryInv, EndpointIdsAreFresh
<1> QED BY <1>1, <1>2, WhoWritesEndpoint

\* Fresh ids stay fresh: only the request that has an id inserts it.
LEMMA EndpointIdsStep ==
    ASSUME TypeInv, DeliveryInv, [Next]_vars PROVE EndpointIdsAreFresh'
<1>1. ASSUME NEW t \in Slots, pc[t] = "endpoint", pc'[t] = "endpoint", req'[t] = req[t]
      PROVE  endpoints'[req'[t].id] = NoRow
  <2>1. endpoints[req[t].id] = NoRow  BY <1>1 DEF DeliveryInv, EndpointIdsAreFresh
  <2>2. req[t].id \in EndpointIds  BY <1>1 DEF TypeInv, SlotsOK, ReqTypeOK
  <2>3. SUFFICES ASSUME endpoints'[req[t].id] # endpoints[req[t].id] PROVE FALSE
    BY <1>1, <2>1
  <2>4. PICK s \in Slots : InsertEndpoint(s) /\ req[t].id = req[s].id
    BY <2>1, <2>2, <2>3, EndpointChange DEF DeleteEndpoint, Enabled, NoRow
  <2>5. pc[s] = "endpoint" /\ pc'[s] = "idle"  BY <2>4, GoToAt DEF InsertEndpoint, Done
  <2> QED BY <1>1, <2>4, <2>5 DEF DeliveryInv, EndpointIdsAreFresh
<1>2. ASSUME NEW t \in Slots, pc'[t] = "endpoint" PROVE endpoints'[req'[t].id] = NoRow
  BY <1>1, <1>2, StaysOrCame, EndpointCame
<1>3. ASSUME NEW t \in Slots, NEW u \in Slots, t # u, SlotStep(t),
             pc'[t] = "endpoint", pc'[u] = "endpoint"
      PROVE  req'[u].id # req'[t].id
  <2>1. pc'[u] = pc[u] /\ req'[u] = req[u]  BY <1>3, OthersStay
  <2>2. CameTo(t, pc'[t])  BY <1>3, MoverCame
  <2> QED BY <1>3, <2>1, <2>2, EndpointCame
<1>4. ASSUME NEW t \in Slots, NEW u \in Slots, t # u, pc'[t] = "endpoint", pc'[u] = "endpoint"
      PROVE  req'[u].id # req'[t].id
  <2>1. CASE SlotStep(t)  BY <1>3, <1>4, <2>1
  <2>2. CASE SlotStep(u)  BY <1>3, <1>4, <2>2
  <2>3. CASE ~SlotStep(t) /\ ~SlotStep(u)
    <3>1. pc'[t] = pc[t] /\ req'[t] = req[t] /\ pc'[u] = pc[u] /\ req'[u] = req[u]
      BY <2>3, StaysOrCame
    <3> QED BY <1>4, <3>1 DEF DeliveryInv, EndpointIdsAreFresh
  <2> QED BY <2>1, <2>2, <2>3
<1> QED BY <1>2, <1>4 DEF EndpointIdsAreFresh

\* The endpoints that a transaction has read still fit, if they still exist.
LEMMA TargetsFitStep ==
    ASSUME TypeInv, SettleInv, DeliveryInv, [Next]_vars PROVE TargetsFit'
<1>1. ASSUME NEW t \in Slots, pc'[t] = "commit", NEW e \in req'[t].targets
      PROVE  /\ endpoints'[e] # NoRow
             /\ Enabled(e)' => /\ endpoints'[e].app = verifications'[req'[t].verification].app
                               /\ req'[t].outcome \in endpoints'[e].eventTypes
  <2>1. CASE pc'[t] = pc[t] /\ req'[t] = req[t]
    <3>1. /\ req[t] \in TransitionReq /\ req[t].verification \in VerificationIds
          /\ Exists(verifications[req[t].verification])
      BY <1>1, <2>1, TxReqAt DEF TxPcs
    <3>2. e \in EndpointIds  BY <1>1, <2>1, <3>1 DEF TransitionReq
    <3>3. verifications'[req[t].verification].app = verifications[req[t].verification].app
      BY <3>1, VerificationStays DEF SameVerification
    <3>4. /\ endpoints[e] # NoRow
          /\ Enabled(e) => /\ endpoints[e].app = verifications[req[t].verification].app
                           /\ req[t].outcome \in endpoints[e].eventTypes
      BY <1>1, <2>1 DEF DeliveryInv, TargetsFit
    <3>5. CASE endpoints'[e] = endpoints[e]  BY <2>1, <3>3, <3>4, <3>5 DEF Enabled
    <3>6. CASE endpoints'[e] # endpoints[e]
      <4>1. endpoints'[e] = DeletedRow  BY <3>2, <3>4, <3>6, EndpointChange
      <4>2. DeletedRow.status = "deleted" /\ NoRow.status = "none"  BY DEF DeletedRow, NoRow
      <4> QED BY <4>1, <4>2 DEF Enabled
    <3> QED BY <3>5, <3>6
  <2>2. CASE CameTo(t, pc'[t])
    <3>1. /\ UNCHANGED <<clock, tables, history>> /\ pc[t] = "emit"
          /\ req'[t] = [req[t] EXCEPT !.targets =
                           Subscribed(req[t].verification, req[t].outcome)]
      BY <1>1, <2>2, TxCame DEF TxPcs
    <3>2. req[t] \in TransitionReq  BY <3>1, TxReqAt DEF TxPcs
    <3>3. /\ req'[t].verification = req[t].verification /\ req'[t].outcome = req[t].outcome
          /\ req'[t].targets = Subscribed(req[t].verification, req[t].outcome)
      BY <3>1, <3>2, SelectKeeps
    <3>4. UNCHANGED <<endpoints, verifications>>  BY <3>1 DEF tables
    <3>5. /\ Enabled(e) /\ endpoints[e].app = verifications[req[t].verification].app
          /\ req[t].outcome \in endpoints[e].eventTypes
      BY <1>1, <3>3 DEF Subscribed
    <3> QED BY <3>3, <3>4, <3>5 DEF Enabled, NoRow
  <2> QED BY <2>1, <2>2, StaysOrCame
<1> QED BY <1>1 DEF TargetsFit, Enabled

\* Deliveries are written by a commit and removed with their endpoint.
LEMMA WhoWritesDeliveries ==
    ASSUME [Next]_vars, NEW d \in deliveries', d \notin deliveries
    PROVE  \E s \in Slots :
              /\ CommitTransition(s)
              /\ d \in req[s].targets \X {req[s].verification} \X {req[s].outcome}
<1>1. ASSUME NEW s \in Slots, SlotStep(s) PROVE CommitTransition(s)
  BY <1>1, SlotWrites
     DEF InsertVerification, AnswerRead, StoreInbound, RefuseDuplicate, NoMatch, RefuseBindNonce,
         LinkBinding, InsertBinding, ConsumeBindNonce, InsertEndpoint, tables
<1>2. ASSUME NEW r \in Receivers, Heartbeat(r) \/ \E flag \in BOOLEAN : SetReceiverEnabled(r, flag)
      PROVE FALSE
  BY <1>2 DEF Heartbeat, SetReceiverEnabled
<1>3. ASSUME NEW b \in BindingIds, RevokeBinding(b) PROVE FALSE  BY <1>3 DEF RevokeBinding
<1>4. ASSUME NEW e \in EndpointIds, DeleteEndpoint(e) PROVE FALSE
  BY <1>4 DEF DeleteEndpoint, CascadeDeliveries
<1>5. ~Tick /\ ~UNCHANGED vars  BY DEF Tick, tables, vars
<1>6. PICK s \in Slots : CommitTransition(s)
  BY <1>1, <1>2, <1>3, <1>4, <1>5 DEF Next, SlotStep
<1>7. d \in req[s].targets \X {req[s].verification} \X {req[s].outcome}
  BY <1>6 DEF CommitTransition
<1> QED BY <1>6, <1>7

\* A delivery that stays has its endpoint and its event; a new one goes to an
\* endpoint that was enabled at the commit.
LEMMA DeliveriesStep ==
    ASSUME TypeInv, SettleInv, SettleInv', DeliveryInv, [Next]_vars PROVE DeliveriesHaveEvents'
<1>1. ASSUME NEW d \in deliveries'
      PROVE  /\ endpoints'[d[1]].status = "enabled"
             /\ endpoints'[d[1]].app = verifications'[d[2]].app
             /\ d[3] \in endpoints'[d[1]].eventTypes
             /\ events'[d[2]] = <<d[3]>>
  <2>1. CASE d \in deliveries
    <3>1. d[1] \in EndpointIds /\ d[2] \in VerificationIds /\ d[3] \in Terminal
      BY <2>1 DEF TypeInv, DataOK
    <3>2. /\ endpoints[d[1]].status = "enabled"
          /\ endpoints[d[1]].app = verifications[d[2]].app
          /\ d[3] \in endpoints[d[1]].eventTypes
          /\ events[d[2]] = <<d[3]>>
      BY <2>1 DEF DeliveryInv, DeliveriesHaveEvents
    <3>3. verifications[d[2]].status \in Terminal
      <4>1. \A x : Len(<<x>>) = 1 /\ Len(<<>>) = 0  OBVIOUS
      <4>2. events[d[2]] # <<>>  BY <3>2, <4>1
      <4> QED BY <3>1, <4>2 DEF SettleInv, EventMatchesStatus
    <3>4. verifications'[d[2]] = verifications[d[2]]
      BY <3>1, <3>3, VerificationStays DEF Exists, Terminal
    <3>5. events'[d[2]] = events[d[2]]
      BY <3>1, <3>3, <3>4 DEF SettleInv, EventMatchesStatus
    <3>6. endpoints'[d[1]] = endpoints[d[1]]
      <4>1. SUFFICES ASSUME endpoints'[d[1]] # endpoints[d[1]] PROVE FALSE  OBVIOUS
      <4>2. DeleteEndpoint(d[1])  BY <3>1, <3>2, <4>1, EndpointChange DEF NoRow
      <4> QED BY <1>1, <4>2 DEF DeleteEndpoint, CascadeDeliveries
    <3> QED BY <3>2, <3>4, <3>5, <3>6
  <2>2. CASE d \notin deliveries
    <3>1. PICK s \in Slots :
             /\ CommitTransition(s)
             /\ d \in req[s].targets \X {req[s].verification} \X {req[s].outcome}
      BY <1>1, <2>2, WhoWritesDeliveries
    <3>2. d[1] \in req[s].targets /\ d[2] = req[s].verification /\ d[3] = req[s].outcome
      BY <3>1
    <3>3. Enabled(d[1]) /\ endpoints' = endpoints /\ pc[s] = "commit"
      BY <3>1, <3>2 DEF CommitTransition
    <3>4. endpoints[d[1]].app = verifications[d[2]].app /\ d[3] \in endpoints[d[1]].eventTypes
      BY <3>2, <3>3 DEF DeliveryInv, TargetsFit
    <3>5. d[2] \in VerificationIds /\ d[3] \in Terminal  BY <3>2, <3>3, TxReqAt DEF TxPcs
    <3>6. verifications'[d[2]].status = d[3] /\ verifications'[d[2]].app = verifications[d[2]].app
      BY <3>1, <3>2, CommitSettles DEF SettledBy, SameVerification
    <3>7. events'[d[2]] = <<d[3]>>  BY <3>5, <3>6 DEF SettleInv, EventMatchesStatus
    <3> QED BY <3>3, <3>4, <3>6, <3>7 DEF Enabled
  <2> QED BY <2>1, <2>2
<1> QED BY <1>1 DEF DeliveriesHaveEvents

\* Initially there is no endpoint and no delivery.
LEMMA DeliveryInit == Init => DeliveryInv
BY DEF Init, InitRest, DeliveryInv, EndpointIdsAreFresh, TargetsFit, DeliveriesHaveEvents

\* Every step keeps the invariant of the deliveries.
LEMMA DeliveryStep == TypeInv /\ SettleInv /\ SettleInv' /\ DeliveryInv /\ [Next]_vars => DeliveryInv'
BY EndpointIdsStep, TargetsFitStep, DeliveriesStep DEF DeliveryInv

\* Every delivery is one of an event that was emitted, to an endpoint of the
\* verification's app that exists and subscribed to it, although endpoints
\* are deleted between the SELECT and the INSERT of a transaction.
THEOREM DeliveriesJustified == Spec => []DeliveriesHaveEvents
<1>1. DeliveryInv => DeliveriesHaveEvents  BY DEF DeliveryInv
<1> QED BY <1>1, TypeInit, TypeStep, SettleInit, SettleStep, DeliveryInit, DeliveryStep, PTL DEF Spec

-----------------------------------------------------------------------------
(* The endpoint cap.  Every creation in flight has found room once, and    *)
(* its insert makes an endpoint of a creation: so their sum is bounded.    *)

CreatingFor(a) == {s \in Slots : pc[s] = "endpoint" /\ req[s].app = a}

RoomIsSpent ==
    \A a \in Apps :
        Cardinality(EndpointsOf(a)) + Cardinality(CreatingFor(a))
            <= MAX_ENDPOINTS_PER_APP + Cardinality(Slots) - 1

\* Both sets are finite, the creations no more than the slots.
LEMMA EndpointSetsFinite ==
    ASSUME NEW a
    PROVE  /\ IsFiniteSet(EndpointsOf(a)) /\ Cardinality(EndpointsOf(a)) \in Nat
           /\ IsFiniteSet(CreatingFor(a)) /\ Cardinality(CreatingFor(a)) \in Nat
           /\ Cardinality(Slots) \in Nat /\ Cardinality(CreatingFor(a)) <= Cardinality(Slots)
<1>1. EndpointsOf(a) \in SUBSET EndpointIds /\ CreatingFor(a) \in SUBSET Slots
  BY DEF EndpointsOf, CreatingFor
<1> QED BY <1>1, FiniteAssumption, FS_Subset, FS_CardinalityType

\* The same in the next state.
LEMMA EndpointSetsFiniteNext ==
    ASSUME NEW a
    PROVE  /\ IsFiniteSet(EndpointsOf(a)') /\ Cardinality(EndpointsOf(a)') \in Nat
           /\ IsFiniteSet(CreatingFor(a)') /\ Cardinality(CreatingFor(a)') \in Nat
           /\ Cardinality(CreatingFor(a)') <= Cardinality(Slots)
<1>1. EndpointsOf(a)' \in SUBSET EndpointIds /\ CreatingFor(a)' \in SUBSET Slots
  BY DEF EndpointsOf, CreatingFor
<1> QED BY <1>1, FiniteAssumption, FS_Subset, FS_CardinalityType

\* A creation that comes to its insert has found room.
LEMMA CheckSpendsRoom ==
    ASSUME TypeInv, [Next]_vars, NEW a \in Apps, NEW t, t \in CreatingFor(a)', t \notin CreatingFor(a)
    PROVE  Cardinality(EndpointsOf(a)') + Cardinality(CreatingFor(a)')
              <= MAX_ENDPOINTS_PER_APP + Cardinality(Slots) - 1
<1>1. t \in Slots /\ pc'[t] = "endpoint" /\ req'[t].app = a  BY DEF CreatingFor
<1>2. CameTo(t, pc'[t])  BY <1>1, StaysOrCame DEF CreatingFor
<1>3. endpoints' = endpoints /\ BelowEndpointCap(a)  BY <1>1, <1>2, EndpointCame
<1>4. EndpointsOf(a)' = EndpointsOf(a)  BY <1>3 DEF EndpointsOf, Enabled
<1>5. Cardinality(EndpointsOf(a)) < MAX_ENDPOINTS_PER_APP  BY <1>3 DEF BelowEndpointCap
<1> QED BY <1>4, <1>5, EndpointSetsFinite, EndpointSetsFiniteNext, NumbersAssumption

\* How many elements a set has at most that lies within another one and an
\* element, or within another one less an element of it.
LEMMA OneMoreOneLess ==
    ASSUME NEW S, NEW T, NEW x, IsFiniteSet(S)
    PROVE  /\ T \in SUBSET (S \cup {x}) => Cardinality(T) <= Cardinality(S) + 1
           /\ x \in S /\ T \in SUBSET (S \ {x}) => Cardinality(T) <= Cardinality(S) - 1
<1>1. ASSUME T \in SUBSET (S \cup {x}) PROVE Cardinality(T) <= Cardinality(S) + 1
  <2>1. IsFiniteSet(S \cup {x}) /\ Cardinality(S) \in Nat  BY FS_AddElement, FS_CardinalityType
  <2>2. Cardinality(S \cup {x}) = IF x \in S THEN Cardinality(S) ELSE Cardinality(S) + 1
    BY FS_AddElement
  <2>3. Cardinality(T) <= Cardinality(S \cup {x})  BY <1>1, <2>1, FS_Subset
  <2>4. Cardinality(T) \in Nat  BY <1>1, <2>1, FS_Subset, FS_CardinalityType
  <2> QED BY <2>1, <2>2, <2>3, <2>4
<1>2. ASSUME x \in S, T \in SUBSET (S \ {x}) PROVE Cardinality(T) <= Cardinality(S) - 1
  <2>1. IsFiniteSet(S \ {x}) /\ Cardinality(S \ {x}) = Cardinality(S) - 1
    BY <1>2, FS_RemoveElement
  <2>2. Cardinality(T) <= Cardinality(S \ {x})  BY <1>2, <2>1, FS_Subset
  <2> QED BY <2>1, <2>2
<1> QED BY <1>1, <1>2

\* The insert makes an endpoint of a creation.
LEMMA InsertSpendsNoRoom ==
    ASSUME TypeInv, DeliveryInv, RoomIsSpent, [Next]_vars, NEW a \in Apps,
           CreatingFor(a)' \subseteq CreatingFor(a),
           NEW e, e \in EndpointsOf(a)', e \notin EndpointsOf(a)
    PROVE  Cardinality(EndpointsOf(a)') + Cardinality(CreatingFor(a)')
              <= MAX_ENDPOINTS_PER_APP + Cardinality(Slots) - 1
<1>1. e \in EndpointIds /\ endpoints'[e].status = "enabled" /\ endpoints'[e].app = a
  BY DEF EndpointsOf, Enabled
<1>2. endpoints'[e] # endpoints[e]  BY <1>1 DEF EndpointsOf, Enabled
<1>3. PICK s \in Slots : InsertEndpoint(s) /\ req[s].id = e
  BY <1>1, <1>2, EndpointChange DEF DeletedRow
<1>4. PICK types : endpoints' = [endpoints EXCEPT ![e] =
                      [status |-> "enabled", app |-> req[s].app, eventTypes |-> types]]
  BY <1>3 DEF InsertEndpoint
<1>5. req[s].app = a  BY <1>1, <1>4 DEF TypeInv, DataOK
<1>6. \A f \in EndpointIds : f # e => endpoints'[f] = endpoints[f]  BY <1>4 DEF TypeInv, DataOK
<1>7. EndpointsOf(a)' \in SUBSET (EndpointsOf(a) \cup {e})  BY <1>6 DEF EndpointsOf, Enabled
<1>8. s \in CreatingFor(a) /\ s \notin CreatingFor(a)'
  BY <1>3, <1>5, GoToAt DEF InsertEndpoint, Done, CreatingFor
<1>9. CreatingFor(a)' \in SUBSET (CreatingFor(a) \ {s})  BY <1>8
<1>10. Cardinality(EndpointsOf(a)') <= Cardinality(EndpointsOf(a)) + 1
  BY <1>7, EndpointSetsFinite, OneMoreOneLess
<1>11. Cardinality(CreatingFor(a)') <= Cardinality(CreatingFor(a)) - 1
  BY <1>8, <1>9, EndpointSetsFinite, OneMoreOneLess
<1>12. Cardinality(EndpointsOf(a)) + Cardinality(CreatingFor(a))
          <= MAX_ENDPOINTS_PER_APP + Cardinality(Slots) - 1
  BY DEF RoomIsSpent
<1> QED BY <1>10, <1>11, <1>12, EndpointSetsFinite, EndpointSetsFiniteNext, NumbersAssumption

\* Every step keeps the sum within its bound.
LEMMA RoomStep == TypeInv /\ DeliveryInv /\ RoomIsSpent /\ [Next]_vars => RoomIsSpent'
<1> SUFFICES ASSUME TypeInv, DeliveryInv, RoomIsSpent, [Next]_vars, NEW a \in Apps
             PROVE  Cardinality(EndpointsOf(a)') + Cardinality(CreatingFor(a)')
                       <= MAX_ENDPOINTS_PER_APP + Cardinality(Slots) - 1
  BY DEF RoomIsSpent
<1>1. CASE ~(CreatingFor(a)' \subseteq CreatingFor(a))  BY <1>1, CheckSpendsRoom
<1>2. CASE /\ CreatingFor(a)' \subseteq CreatingFor(a)
           /\ ~(EndpointsOf(a)' \subseteq EndpointsOf(a))
  BY <1>2, InsertSpendsNoRoom
<1>3. CASE /\ CreatingFor(a)' \in SUBSET CreatingFor(a)
           /\ EndpointsOf(a)' \in SUBSET EndpointsOf(a)
  <2>1. /\ Cardinality(CreatingFor(a)') <= Cardinality(CreatingFor(a))
        /\ Cardinality(EndpointsOf(a)') <= Cardinality(EndpointsOf(a))
    BY <1>3, EndpointSetsFinite, FS_Subset
  <2>2. Cardinality(EndpointsOf(a)) + Cardinality(CreatingFor(a))
           <= MAX_ENDPOINTS_PER_APP + Cardinality(Slots) - 1
    BY DEF RoomIsSpent
  <2> QED BY <2>1, <2>2, EndpointSetsFinite, EndpointSetsFiniteNext, NumbersAssumption
<1> QED BY <1>1, <1>2, <1>3

\* Initially all the room is there.
LEMMA RoomInit == Init => RoomIsSpent
<1> SUFFICES ASSUME Init, NEW a \in Apps
             PROVE  Cardinality(EndpointsOf(a)) + Cardinality(CreatingFor(a))
                       <= MAX_ENDPOINTS_PER_APP + Cardinality(Slots) - 1
  BY DEF RoomIsSpent
<1>1. EndpointsOf(a) = {} /\ CreatingFor(a) = {}
  BY DEF Init, InitRest, EndpointsOf, Enabled, NoRow, CreatingFor
<1> QED BY <1>1, FS_EmptySet, EndpointSetsFinite, NumbersAssumption

\* The endpoint cap is overrun by no more than the requests that were counting
\* together: the count and the insert of createWebhookEndpoint are not one
\* transaction.
THEOREM CapOverrunBounded == Spec => []EndpointCapOverrun
<1>1. RoomIsSpent => EndpointCapOverrun
  BY EndpointSetsFinite, NumbersAssumption DEF RoomIsSpent, EndpointCapOverrun
<1> QED BY <1>1, TypeInit, TypeStep, SettleInit, SettleStep, DeliveryInit, DeliveryStep,
           RoomInit, RoomStep, PTL DEF Spec

-----------------------------------------------------------------------------

\* The locks and the fresh ids protect what they are there for: this is the
\* conjunction of the invariants CapInv and SettleInv with
\* the rows that requests in flight rely on.
THEOREM LocksHold == Spec => []LocksProtect
<1>1. TypeInv /\ CapInv /\ SettleInv => LocksProtect
  BY DEF TypeInv, CapInv, SettleInv, LocksProtect
<1> QED BY <1>1, TypeInit, TypeStep, CapInit, CapStep, SettleInit, SettleStep, PTL DEF Spec

=============================================================================
