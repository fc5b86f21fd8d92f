---------------------------- MODULE ServerProofs ----------------------------
(***************************************************************************)
(* Proofs about Server, for every value of its constants: types, and what  *)
(* the advisory lock and the row locks are for.                            *)
(***************************************************************************)
EXTENDS Server, FiniteSetTheorems, TLAPS

(* TypeOK is split into what the handlers' local variables are and what    *)
(* the tables hold: most actions change only one of the two.               *)

SlotsOK ==
    /\ pc \in [Slots -> Pcs]
    /\ req \in [Slots -> Locals]
    /\ \A s \in Slots : ReqTypeOK(pc[s], req[s])

DataOK ==
    /\ clock \in Nat
    /\ receivers \in [Receivers -> ReceiverRow]
    /\ verifications \in [VerificationIds -> VerificationRow \cup {NoRow}]
    /\ inbound \in [SmsIds -> InboundRow \cup {NoRow}]
    /\ bindings \in [BindingIds -> BindingRow \cup {NoRow}]
    /\ endpoints \in [EndpointIds -> EndpointRow \cup {NoRow, DeletedRow}]
    /\ events \in [VerificationIds -> Seq(Terminal)]
    /\ deliveries \subseteq EndpointIds \X VerificationIds \X Terminal
    /\ told \in [VerificationIds -> SUBSET Terminal]
    /\ answers \in [SmsIds -> SUBSET {"matched", "no_match", "duplicate", "binding",
                                      "binding_no_match"}]

TypeInv == SlotsOK /\ DataOK /\ RowsExist

\* No row is deleted, and the body of a stored SMS stays: what a request in
\* flight read is still there whatever the others did meanwhile.
RowsStay ==
    /\ \A v \in VerificationIds : Exists(verifications[v]) => Exists(verifications'[v])
    /\ \A b \in BindingIds : Exists(bindings[b]) => Exists(bindings'[b])
    /\ \A m \in SmsIds : Exists(inbound[m]) =>
          Exists(inbound'[m]) /\ inbound'[m].body = inbound[m].body

-----------------------------------------------------------------------------
(* Types                                                                   *)

\* A handler that goes on keeps the types of all slots, if its own new local
\* variables fit the statement it goes to.
LEMMA GoToTyped ==
    ASSUME SlotsOK, NEW s \in Slots, NEW label \in Pcs, NEW r \in Locals,
           ReqTypeOK(label, r), GoTo(s, label, r)
    PROVE  SlotsOK'
<1>1. pc' \in [Slots -> Pcs] /\ req' \in [Slots -> Locals]
  BY DEF SlotsOK, GoTo
<1>2. ASSUME NEW t \in Slots PROVE ReqTypeOK(pc'[t], req'[t])
  <2>1. CASE t = s
    <3>1. pc'[t] = label /\ req'[t] = r  BY <2>1 DEF SlotsOK, GoTo
    <3> QED BY <3>1
  <2>2. CASE t # s
    <3>1. pc'[t] = pc[t] /\ req'[t] = req[t]  BY <2>2 DEF SlotsOK, GoTo
    <3> QED BY <3>1 DEF SlotsOK
  <2> QED BY <2>1, <2>2
<1> QED BY <1>1, <1>2 DEF SlotsOK, ReqTypeOK

\* A handler that returns leaves nothing to type.
LEMMA DoneTyped == ASSUME SlotsOK, NEW s \in Slots, Done(s) PROVE SlotsOK'
<1>1. "idle" \in Pcs /\ NoReq \in Locals /\ ReqTypeOK("idle", NoReq)
  BY DEF Pcs, Locals, ReqTypeOK, StartPcs
<1> QED BY <1>1, GoToTyped DEF Done

\* The rows that requests in flight rely on stay, if they do for the request
\* that moves.
LEMMA GoToRowsExist ==
    ASSUME SlotsOK, RowsExist, RowsStay, NEW s \in Slots, NEW label, NEW r,
           GoTo(s, label, r), RowsExistFor(label, r)'
    PROVE  RowsExist'
<1>1. ASSUME NEW t \in Slots PROVE RowsExistFor(pc[t], req[t])'
  <2>1. CASE t = s
    <3>1. pc'[t] = label /\ req'[t] = r  BY <2>1 DEF SlotsOK, GoTo
    <3> QED BY <3>1 DEF RowsExistFor
  <2>2. CASE t # s
    <3>1. pc'[t] = pc[t] /\ req'[t] = req[t]  BY <2>2 DEF SlotsOK, GoTo
    <3>2. RowsExistFor(pc[t], req[t]) /\ ReqTypeOK(pc[t], req[t])  BY DEF RowsExist, SlotsOK
    <3> QED BY <3>1, <3>2 DEF RowsExistFor, ReqTypeOK, RowsStay, TransitionReq
  <2> QED BY <2>1, <2>2
<1> QED BY <1>1 DEF RowsExist

\* The step of one handler keeps TypeInv if its effect on the tables does.
LEMMA StepTyped ==
    ASSUME TypeInv, DataOK', RowsStay, NEW s \in Slots, NEW label \in Pcs, NEW r \in Locals,
           ReqTypeOK(label, r), RowsExistFor(label, r)', GoTo(s, label, r)
    PROVE  TypeInv'
<1>1. SlotsOK'  BY GoToTyped DEF TypeInv
<1>2. RowsExist'  BY GoToRowsExist DEF TypeInv
<1> QED BY <1>1, <1>2 DEF TypeInv

\* A request that ends leaves its slot well typed.
LEMMA DoneStepTyped ==
    ASSUME TypeInv, DataOK', RowsStay, NEW s \in Slots, Done(s)
    PROVE  TypeInv'
<1>1. "idle" \in Pcs /\ NoReq \in Locals /\ ReqTypeOK("idle", NoReq)
  BY DEF Pcs, Locals, ReqTypeOK, StartPcs
<1>2. RowsExistFor("idle", NoReq)'  BY DEF RowsExistFor
<1> QED BY <1>1, <1>2, StepTyped DEF Done

\* Steps that leave the tables alone.
LEMMA UnchangedData ==
    ASSUME DataOK, UNCHANGED <<clock, tables, history>>
    PROVE  DataOK' /\ RowsStay
BY DEF DataOK, RowsStay, tables, history

\* Steps that leave the slots alone.
LEMMA UnchangedSlots ==
    ASSUME TypeInv, UNCHANGED <<pc, req>>, RowsStay
    PROVE  SlotsOK' /\ RowsExist'
<1>1. SlotsOK'  BY DEF TypeInv, SlotsOK, ReqTypeOK
<1>2. ASSUME NEW t \in Slots PROVE RowsExistFor(pc[t], req[t])'
  <2>1. RowsExistFor(pc[t], req[t]) /\ ReqTypeOK(pc[t], req[t])  BY DEF RowsExist, SlotsOK, TypeInv
  <2> QED BY <2>1 DEF RowsExistFor, ReqTypeOK, RowsStay, TransitionReq
<1> QED BY <1>1, <1>2 DEF RowsExist

-----------------------------------------------------------------------------
(* startVerification                                                       *)

\* A start that goes on with well-typed locals keeps the types.
LEMMA StartStepTyped ==
    ASSUME TypeInv, NEW s \in Slots, NEW label \in StartPcs, NEW r \in StartReq,
           label = "insert" => r.receiver \in Receivers,
           GoTo(s, label, r), UNCHANGED <<clock, tables, history>>
    PROVE  TypeInv'
<1>1. label \in Pcs /\ r \in Locals /\ ReqTypeOK(label, r)
  BY DEF Pcs, StartPcs, Locals, ReqTypeOK
<1>2. RowsExistFor(label, r)'  BY DEF RowsExistFor, StartPcs
<1>3. DataOK' /\ RowsStay  BY UnchangedData DEF TypeInv
<1> QED BY <1>1, <1>2, <1>3, StepTyped

\* A request that ends and writes nothing keeps the types.
LEMMA DoneUnchangedTyped ==
    ASSUME TypeInv, NEW s \in Slots, Done(s), UNCHANGED <<clock, tables, history>>
    PROVE  TypeInv'
BY UnchangedData, DoneStepTyped DEF TypeInv

\* The locals of a start in flight are those of startVerification.
LEMMA StartReqAt ==
    ASSUME TypeInv, NEW s \in Slots, pc[s] \in StartPcs
    PROVE  req[s] \in StartReq
BY DEF TypeInv, SlotsOK, ReqTypeOK

\* startVerification begins with well-typed locals.
LEMMA StartVerificationTyped ==
    ASSUME TypeInv, NEW s \in Slots, NEW a \in Apps, NEW p \in Phones,
           NEW o \in Operators \cup {None}, StartVerification(s, a, p, o)
    PROVE  TypeInv'
<1>1. PICK v \in VerificationIds :
          GoTo(s, "lock", [id |-> v, app |-> a, phone |-> p, operator |-> o,
                           expiresAt |-> clock + VERIFICATION_TTL_SECONDS,
                           txNow |-> clock, tries |-> 0, receiver |-> None])
  BY DEF StartVerification, FreshIds
<1>2. [id |-> v, app |-> a, phone |-> p, operator |-> o,
       expiresAt |-> clock + VERIFICATION_TTL_SECONDS,
       txNow |-> clock, tries |-> 0, receiver |-> None] \in StartReq
  BY NumbersAssumption DEF StartReq, TypeInv, DataOK
<1>3. "lock" \in StartPcs  BY DEF StartPcs
<1> QED BY <1>1, <1>2, <1>3, StartStepTyped DEF StartVerification

\* Taking the advisory lock keeps the types.
LEMMA AcquireLockTyped ==
    ASSUME TypeInv, NEW s \in Slots, AcquireLock(s) PROVE TypeInv'
<1>1. req[s] \in StartReq  BY StartReqAt DEF AcquireLock, StartPcs
<1>2. GoTo(s, "count", req[s]) /\ "count" \in StartPcs  BY DEF AcquireLock, StartPcs
<1> QED BY <1>1, <1>2, StartStepTyped DEF AcquireLock

\* The count goes on or ends the request.
LEMMA CountPendingTyped ==
    ASSUME TypeInv, NEW s \in Slots, CountPending(s) PROVE TypeInv'
<1>1. req[s] \in StartReq  BY StartReqAt DEF CountPending, StartPcs
<1>2. CASE Done(s)  BY <1>2, DoneUnchangedTyped DEF CountPending
<1>3. CASE GoTo(s, "pick", req[s])
  <2>1. "pick" \in StartPcs  BY DEF StartPcs
  <2> QED BY <1>1, <1>3, <2>1, StartStepTyped DEF CountPending
<1> QED BY <1>2, <1>3 DEF CountPending

\* pickReceiver returns receivers, never NULL.
LEMMA PickReceiverType ==
    ASSUME NEW a, NEW o, NEW n PROVE PickReceiver(a, o, n) \subseteq Receivers
BY DEF PickReceiver, LeastLoaded, HealthyReceivers

\* A start reaches its insert only with a receiver.
LEMMA ChooseReceiverTyped ==
    ASSUME TypeInv, NEW s \in Slots, ChooseReceiver(s) PROVE TypeInv'
<1>1. req[s] \in StartReq  BY StartReqAt DEF ChooseReceiver, StartPcs
<1>2. CASE Done(s)  BY <1>2, DoneUnchangedTyped DEF ChooseReceiver
<1>3. ASSUME NEW r \in Receivers, GoTo(s, "insert", [req[s] EXCEPT !.receiver = r])
      PROVE TypeInv'
  <2>1. [req[s] EXCEPT !.receiver = r] \in StartReq
        /\ [req[s] EXCEPT !.receiver = r].receiver \in Receivers
    BY <1>1 DEF StartReq
  <2>2. "insert" \in StartPcs  BY DEF StartPcs
  <2> QED BY <1>3, <2>1, <2>2, StartStepTyped DEF ChooseReceiver
<1> QED BY <1>2, <1>3, PickReceiverType DEF ChooseReceiver

\* The locals of the next attempt are again those of a start.
LEMMA RetryType ==
    ASSUME NEW r \in StartReq, clock \in Nat PROVE Retry(r) \in StartReq
<1>1. r.tries + 1 \in Nat  BY DEF StartReq
<1>2. [r EXCEPT !.tries = r.tries + 1] \in StartReq  BY <1>1 DEF StartReq
<1>3. ASSUME NEW q \in StartReq
      PROVE  [q EXCEPT !.txNow = clock] \in StartReq /\ [q EXCEPT !.receiver = None] \in StartReq
  BY DEF StartReq
<1> QED BY <1>2, <1>3 DEF Retry

\* A code collision retries with well-typed locals or ends the request.
LEMMA CodeCollisionTyped ==
    ASSUME TypeInv, NEW s \in Slots, CodeCollision(s) PROVE TypeInv'
<1>1. req[s] \in StartReq  BY StartReqAt DEF CodeCollision, StartPcs
<1>2. CASE Done(s)  BY <1>2, DoneUnchangedTyped DEF CodeCollision
<1>3. CASE GoTo(s, "lock", Retry(req[s]))
  <2>1. Retry(req[s]) \in StartReq  BY <1>1, RetryType DEF TypeInv, DataOK
  <2>2. "lock" \in StartPcs  BY DEF StartPcs
  <2> QED BY <1>3, <2>1, <2>2, StartStepTyped DEF CodeCollision
<1> QED BY <1>2, <1>3 DEF CodeCollision

\* The inserted verification is a row of its table.
LEMMA InsertVerificationTyped ==
    ASSUME TypeInv, NEW s \in Slots, InsertVerification(s) PROVE TypeInv'
<1>1. req[s] \in StartReq  BY StartReqAt DEF InsertVerification, StartPcs
<1>2. req[s].receiver \in Receivers  BY DEF InsertVerification, TypeInv, SlotsOK, ReqTypeOK
<1>3. PICK code \in Codes : verifications' = [verifications EXCEPT ![req[s].id] =
                [app |-> req[s].app, phone |-> req[s].phone, receiver |-> req[s].receiver,
                 code |-> code, status |-> "pending", expiresAt |-> req[s].expiresAt,
                 verifiedAt |-> None, matchedInboundId |-> None]]
  BY DEF InsertVerification
<1> DEFINE row == [app |-> req[s].app, phone |-> req[s].phone, receiver |-> req[s].receiver,
                 code |-> code, status |-> "pending", expiresAt |-> req[s].expiresAt,
                 verifiedAt |-> None, matchedInboundId |-> None]
<1>4. row \in VerificationRow /\ Exists(row)
  BY <1>1, <1>2 DEF VerificationRow, StartReq, Statuses, Exists
<1>5. verifications' = [verifications EXCEPT ![req[s].id] = row]  BY <1>3
<1> HIDE DEF row
<1>6. DataOK'
  BY <1>4, <1>5 DEF DataOK, TypeInv, InsertVerification, history
<1>7. RowsStay
  BY <1>4, <1>5 DEF RowsStay, TypeInv, DataOK, InsertVerification
<1> QED BY <1>6, <1>7, DoneStepTyped DEF InsertVerification

-----------------------------------------------------------------------------
(* Reading, cancelling and expiring                                        *)

\* ReadVerification keeps the types: what it read is a row.
LEMMA ReadVerificationTyped ==
    ASSUME TypeInv, NEW s \in Slots, NEW v \in VerificationIds, ReadVerification(s, v)
    PROVE  TypeInv'
<1> DEFINE r == [verification |-> v, status |-> verifications[v].status,
                 expiresAt |-> verifications[v].expiresAt]
<1>1. verifications[v] \in VerificationRow
  BY DEF ReadVerification, TypeInv, DataOK, Exists, NoRow
<1>2. r \in ReadReq  BY <1>1 DEF VerificationRow, ReadReq
<1>3. "answer" \in Pcs /\ r \in Locals /\ ReqTypeOK("answer", r)
  BY <1>2 DEF Pcs, StartPcs, Locals, ReqTypeOK
<1>4. \A q : RowsExistFor("answer", q)'  BY DEF RowsExistFor
<1>5. DataOK' /\ RowsStay  BY UnchangedData DEF ReadVerification, TypeInv
<1>6. GoTo(s, "answer", r)  BY DEF ReadVerification
<1> HIDE DEF r
<1> QED BY <1>3, <1>4, <1>5, <1>6, StepTyped

\* AnswerRead keeps the types: it tells a reader a terminal status or nothing.
LEMMA AnswerReadTyped ==
    ASSUME TypeInv, NEW s \in Slots, AnswerRead(s) PROVE TypeInv'
<1>1. req[s] \in ReadReq  BY DEF AnswerRead, TypeInv, SlotsOK, ReqTypeOK
<1>2. told' \in [VerificationIds -> SUBSET Terminal]
  <2> DEFINE new == {IF PastTtl(req[s]) THEN "expired" ELSE req[s].status} \ {"pending"}
  <2>1. new \subseteq Terminal  BY <1>1 DEF ReadReq, Statuses, Terminal
  <2>2. told' = [told EXCEPT ![req[s].verification] = told[req[s].verification] \cup new]
    BY DEF AnswerRead
  <2> HIDE DEF new
  <2> QED BY <1>1, <2>1, <2>2 DEF TypeInv, DataOK, ReadReq
<1>3. DataOK' /\ RowsStay
  BY <1>2 DEF DataOK, RowsStay, TypeInv, AnswerRead, tables
<1>4. CASE Done(s)  BY <1>3, <1>4, DoneStepTyped
<1>5. CASE GoTo(s, "expire", req[s])
  <2>1. "expire" \in Pcs /\ req[s] \in Locals /\ ReqTypeOK("expire", req[s])
    BY <1>1 DEF Pcs, StartPcs, Locals, ReqTypeOK
  <2>2. \A q : RowsExistFor("expire", q)'  BY DEF RowsExistFor
  <2> QED BY <1>3, <1>5, <2>1, <2>2, StepTyped
<1> QED BY <1>4, <1>5 DEF AnswerRead

\* BeginTransition keeps the types: the updated row exists, and so does the
\* SMS of a claim.
LEMMA BeginTransitionTyped ==
    ASSUME TypeInv, NEW s \in Slots, NEW v \in VerificationIds, NEW outcome \in Terminal,
           NEW sms \in SmsIds \cup {None}, NEW now \in Nat \cup {None},
           Exists(verifications[v]),
           outcome = "verified" => sms \in SmsIds /\ now \in Nat /\ Exists(inbound[sms]),
           BeginTransition(s, v, outcome, sms, now), UNCHANGED <<clock, tables, history>>
    PROVE  TypeInv'
<1> DEFINE r == [verification |-> v, outcome |-> outcome, sms |-> sms, now |-> now, targets |-> {}]
<1>1. r \in TransitionReq  BY DEF TransitionReq
<1>2. "emit" \in Pcs /\ r \in Locals /\ ReqTypeOK("emit", r)
  BY <1>1 DEF Pcs, StartPcs, Locals, ReqTypeOK
<1>3. RowsExistFor("emit", r)'  BY DEF RowsExistFor, tables
<1>4. DataOK' /\ RowsStay  BY UnchangedData DEF TypeInv
<1>5. GoTo(s, "emit", r)  BY DEF BeginTransition
<1> HIDE DEF r
<1> QED BY <1>2, <1>3, <1>4, <1>5, StepTyped

\* lazyExpireAndEmit begins a transaction on an existing row, or ends.
LEMMA LazyExpireTyped ==
    ASSUME TypeInv, NEW s \in Slots, LazyExpire(s) PROVE TypeInv'
<1>1. req[s].verification \in VerificationIds
  BY DEF LazyExpire, TypeInv, SlotsOK, ReqTypeOK, ReadReq
<1>2. CASE Done(s)  BY <1>2, DoneUnchangedTyped DEF LazyExpire
<1>3. CASE IsPending(req[s].verification)
           /\ BeginTransition(s, req[s].verification, "expired", None, None)
  <2>1. Exists(verifications[req[s].verification])  BY <1>3 DEF IsPending, Exists
  <2>2. "expired" \in Terminal /\ "expired" # "verified"  BY DEF Terminal
  <2> QED BY <1>1, <1>3, <2>1, <2>2, BeginTransitionTyped DEF LazyExpire
<1> QED BY <1>2, <1>3 DEF LazyExpire

\* cancelVerification begins a transaction on an existing row.
LEMMA CancelVerificationTyped ==
    ASSUME TypeInv, NEW s \in Slots, NEW v \in VerificationIds, CancelVerification(s, v)
    PROVE  TypeInv'
<1>1. Exists(verifications[v])  BY DEF CancelVerification, IsPending, Exists
<1>2. "cancelled" \in Terminal /\ "cancelled" # "verified"  BY DEF Terminal
<1> QED BY <1>1, <1>2, BeginTransitionTyped DEF CancelVerification

\* The endpoints that emitVerificationEventInTx reads are endpoint ids.
LEMMA SelectEndpointsTyped ==
    ASSUME TypeInv, NEW s \in Slots, SelectEndpoints(s) PROVE TypeInv'
<1> DEFINE T == Subscribed(req[s].verification, req[s].outcome)
           r == [req[s] EXCEPT !.targets = T]
<1>1. req[s] \in TransitionReq
      /\ (req[s].outcome = "verified" => req[s].sms \in SmsIds /\ req[s].now \in Nat)
  BY DEF SelectEndpoints, TypeInv, SlotsOK, ReqTypeOK
<1>2. T \subseteq EndpointIds  BY DEF Subscribed
<1>3. GoTo(s, "commit", r)  BY DEF SelectEndpoints
<1> HIDE DEF T
<1>4. r \in TransitionReq /\ r.outcome = req[s].outcome /\ r.sms = req[s].sms
      /\ r.now = req[s].now /\ r.verification = req[s].verification
  BY <1>1, <1>2 DEF TransitionReq
<1> HIDE DEF r
<1>5. "commit" \in Pcs /\ r \in Locals /\ ReqTypeOK("commit", r)
  BY <1>1, <1>4 DEF Pcs, StartPcs, Locals, ReqTypeOK
<1>6. RowsExistFor("emit", req[s])  BY DEF SelectEndpoints, TypeInv, RowsExist
<1>7. ASSUME NEW q, q = r PROVE RowsExistFor("commit", q)'
  BY <1>4, <1>6, <1>7 DEF RowsExistFor, SelectEndpoints, tables
<1>8. DataOK' /\ RowsStay  BY UnchangedData DEF SelectEndpoints, TypeInv
<1> QED BY <1>3, <1>5, <1>7, <1>8, StepTyped

\* The settling columns make a row of a row.
LEMMA SettledType ==
    ASSUME NEW row \in VerificationRow, NEW r \in TransitionReq,
           r.outcome = "verified" => r.sms \in SmsIds /\ r.now \in Nat
    PROVE  Settled(row, r) \in VerificationRow /\ Settled(row, r).status = r.outcome
<1>1. r.outcome \in Statuses  BY DEF TransitionReq, Statuses
<1>2. CASE r.outcome = "verified"
  <2>1. r.sms \in SmsIds \cup {None} /\ r.now \in Nat \cup {None}  BY <1>2
  <2>2. ASSUME NEW q \in VerificationRow PROVE
           /\ [q EXCEPT !.status = "verified"] \in VerificationRow
           /\ [q EXCEPT !.status = "verified"].status = "verified"
           /\ [q EXCEPT !.verifiedAt = r.now] \in VerificationRow
           /\ [q EXCEPT !.verifiedAt = r.now].status = q.status
           /\ [q EXCEPT !.matchedInboundId = r.sms] \in VerificationRow
           /\ [q EXCEPT !.matchedInboundId = r.sms].status = q.status
    BY <1>1, <1>2, <2>1 DEF VerificationRow
  <2> QED BY <1>2, <2>2 DEF Settled
<1>3. CASE r.outcome # "verified"
  BY <1>1, <1>3 DEF Settled, VerificationRow
<1> QED BY <1>2, <1>3

\* Linking a stored SMS to what it matched keeps the row, its sender and its
\* body.
LEMMA LinkedType ==
    ASSUME NEW row \in InboundRow, NEW x \in VerificationIds \cup BindingIds \cup {None}
    PROVE  /\ [row EXCEPT !.matchedVerificationId = x] \in InboundRow
           /\ [row EXCEPT !.matchedVerificationId = x].body = row.body
           /\ [row EXCEPT !.matchedVerificationId = x].from = row.from
           /\ [row EXCEPT !.matchedVerificationId = x].matchedVerificationId = x
           /\ [row EXCEPT !.matchedVerificationId = x].status = "stored"
BY DEF InboundRow

\* The same for the table, as the statements write it.
LEMMA LinkInboundType ==
    ASSUME DataOK, NEW m \in SmsIds, Exists(inbound[m]),
           NEW x \in VerificationIds \cup BindingIds \cup {None},
           inbound' = [inbound EXCEPT ![m].matchedVerificationId = x]
    PROVE  /\ inbound' \in [SmsIds -> InboundRow \cup {NoRow}]
           /\ \A n \in SmsIds : Exists(inbound[n]) =>
                 Exists(inbound'[n]) /\ inbound'[n].body = inbound[n].body
<1> DEFINE row == [inbound[m] EXCEPT !.matchedVerificationId = x]
<1>1. inbound[m] \in InboundRow  BY DEF DataOK, Exists, NoRow
<1>2. row \in InboundRow /\ row.body = inbound[m].body /\ row.status = "stored"
  BY <1>1, LinkedType
<1>3. inbound' = [inbound EXCEPT ![m] = row]  OBVIOUS
<1> HIDE DEF row
<1> QED BY <1>2, <1>3 DEF DataOK, Exists

\* The commit writes a row, an event and deliveries of their types.
LEMMA CommitTransitionTyped ==
    ASSUME TypeInv, NEW s \in Slots, CommitTransition(s) PROVE TypeInv'
<1> DEFINE r == req[s]
           v == r.verification
<1>1. r \in TransitionReq /\ (r.outcome = "verified" => r.sms \in SmsIds /\ r.now \in Nat)
  BY DEF CommitTransition, TypeInv, SlotsOK, ReqTypeOK
<1>2. v \in VerificationIds /\ r.outcome \in Terminal /\ r.targets \subseteq EndpointIds
  BY <1>1 DEF TransitionReq
<1>3. Exists(verifications[v]) /\ (r.outcome = "verified" => Exists(inbound[r.sms]))
  BY DEF CommitTransition, TypeInv, RowsExist, RowsExistFor
<1>4. verifications[v] \in VerificationRow
  BY <1>2, <1>3 DEF TypeInv, DataOK, Exists, NoRow
<1>5. Settled(verifications[v], r) \in VerificationRow
      /\ Settled(verifications[v], r).status = r.outcome
  BY <1>1, <1>4, SettledType
<1>6. verifications' = [verifications EXCEPT ![v] = Settled(verifications[v], r)]
      /\ events' = [events EXCEPT ![v] = Append(events[v], r.outcome)]
      /\ deliveries' = deliveries \cup (r.targets \X {v} \X {r.outcome})
      /\ told' = (IF r.outcome = "cancelled"
                    THEN [told EXCEPT ![v] = told[v] \cup {"cancelled"}] ELSE told)
      /\ UNCHANGED <<clock, receivers, bindings, endpoints>>
      /\ Done(s)
  BY DEF CommitTransition
<1>7. r.outcome = "verified" =>
          /\ inbound' = [inbound EXCEPT ![r.sms].matchedVerificationId = v]
          /\ answers' = [answers EXCEPT ![r.sms] = answers[r.sms] \cup {"matched"}]
  BY DEF CommitTransition
<1>8. r.outcome # "verified" => UNCHANGED <<inbound, answers>>
  BY DEF CommitTransition
<1> HIDE DEF r, v
<1>9. verifications' \in [VerificationIds -> VerificationRow \cup {NoRow}]
      /\ \A w \in VerificationIds : Exists(verifications[w]) => Exists(verifications'[w])
  BY <1>2, <1>5, <1>6 DEF TypeInv, DataOK, Exists, Terminal
<1>10. events' \in [VerificationIds -> Seq(Terminal)]
  BY <1>2, <1>6 DEF TypeInv, DataOK
<1>11. deliveries' \subseteq EndpointIds \X VerificationIds \X Terminal
  BY <1>2, <1>6 DEF TypeInv, DataOK
<1>12. told' \in [VerificationIds -> SUBSET Terminal]
  BY <1>2, <1>6 DEF TypeInv, DataOK, Terminal
<1>13. /\ inbound' \in [SmsIds -> InboundRow \cup {NoRow}]
       /\ \A n \in SmsIds : Exists(inbound[n]) =>
                 Exists(inbound'[n]) /\ inbound'[n].body = inbound[n].body
       /\ answers' \in [SmsIds -> SUBSET {"matched", "no_match", "duplicate", "binding",
                                      "binding_no_match"}]
  <2>1. CASE r.outcome = "verified"
    <3>1. r.sms \in SmsIds /\ Exists(inbound[r.sms])  BY <1>1, <1>3, <2>1 DEF r
    <3>2. answers' \in [SmsIds -> SUBSET {"matched", "no_match", "duplicate", "binding",
                                      "binding_no_match"}]
      BY <1>7, <2>1, <3>1 DEF TypeInv, DataOK
    <3> DEFINE m == r.sms
    <3>3. inbound' = [inbound EXCEPT ![m].matchedVerificationId = v]  BY <1>7, <2>1
    <3> HIDE DEF m
    <3>4. m \in SmsIds /\ Exists(inbound[m])  BY <3>1 DEF m
    <3>5. v \in VerificationIds \cup BindingIds \cup {None}  BY <1>2
    <3> QED BY <3>2, <3>3, <3>4, <3>5, LinkInboundType DEF TypeInv
  <2>2. CASE r.outcome # "verified"  BY <1>8, <2>2 DEF TypeInv, DataOK
  <2> QED BY <2>1, <2>2
<1>14. DataOK'  BY <1>6, <1>9, <1>10, <1>11, <1>12, <1>13 DEF DataOK, TypeInv
<1>15. RowsStay  BY <1>6, <1>9, <1>13 DEF RowsStay
<1> QED BY <1>6, <1>14, <1>15, DoneStepTyped

-----------------------------------------------------------------------------
(* processInbound                                                          *)

\* An authenticated upload begins with its receiver.
LEMMA ReceiveInboundTyped ==
    ASSUME TypeInv, NEW s \in Slots, NEW r \in Receivers, ReceiveInbound(s, r) PROVE TypeInv'
<1> DEFINE q == [receiver |-> r]
<1>1. "store" \in Pcs /\ q \in Locals /\ ReqTypeOK("store", q)
  BY DEF Pcs, StartPcs, Locals, ReqTypeOK
<1>2. RowsExistFor("store", q)'  BY DEF RowsExistFor
<1>3. DataOK' /\ RowsStay  BY UnchangedData DEF ReceiveInbound, TypeInv
<1>4. GoTo(s, "store", q)  BY DEF ReceiveInbound
<1> HIDE DEF q
<1> QED BY <1>1, <1>2, <1>3, <1>4, StepTyped

\* A nonce that extractBindNonce returns is a nonce.
LEMMA BindNonceType ==
    ASSUME NEW body \in Bodies, ExtractBindNonce(body) # None
    PROVE  body.tail \in BindingIds
BY DEF Bodies, ExtractBindNonce

\* The stored SMS is a row, and the branch on its body is well typed: a BIND
\* request goes on only with a nonce.
LEMMA StoreInboundTyped ==
    ASSUME TypeInv, NEW s \in Slots, NEW key \in Keys, NEW from \in Phones, NEW body \in Bodies,
           StoreInbound(s, key, from, body)
    PROVE  TypeInv'
<1> DEFINE sms == <<req[s].receiver, key>>
           row == [status |-> "stored", from |-> from, body |-> body, matchedVerificationId |-> None]
<1>1. req[s].receiver \in Receivers  BY DEF StoreInbound, TypeInv, SlotsOK, ReqTypeOK
<1>2. sms \in SmsIds  BY <1>1 DEF SmsIds
<1>3. row \in InboundRow /\ row.status = "stored" /\ row.body = body  BY DEF InboundRow
<1>4. ~Exists(inbound[sms]) /\ inbound' = [inbound EXCEPT ![sms] = row]
      /\ UNCHANGED <<clock, receivers, verifications, bindings, endpoints, events, deliveries, told>>
  BY DEF StoreInbound
<1>5. \/ Done(s) /\ answers' = [answers EXCEPT ![sms] = answers[sms] \cup {"no_match"}]
      \/ /\ ExtractBindNonce(body) # None
         /\ GoTo(s, "bind", [sms |-> sms, since |-> clock]) /\ UNCHANGED answers
      \/ GoTo(s, "claim", [sms |-> sms, since |-> clock]) /\ UNCHANGED answers
  BY DEF StoreInbound
<1> HIDE DEF sms, row
<1>6. answers' \in [SmsIds -> SUBSET {"matched", "no_match", "duplicate", "binding",
                                      "binding_no_match"}]
  BY <1>2, <1>5 DEF TypeInv, DataOK
<1>7. DataOK'  BY <1>2, <1>3, <1>4, <1>6 DEF TypeInv, DataOK
<1>8. RowsStay  BY <1>2, <1>3, <1>4 DEF TypeInv, DataOK, RowsStay, Exists
<1>9. Exists(inbound'[sms]) /\ inbound'[sms].body = body
  BY <1>2, <1>3, <1>4 DEF TypeInv, DataOK, Exists
<1> DEFINE q == [sms |-> sms, since |-> clock]
<1>10. q \in [sms : SmsIds, since : Nat] /\ q.sms = sms  BY <1>2 DEF TypeInv, DataOK
<1> HIDE DEF q
<1>11. ASSUME NEW label \in {"bind", "claim"} PROVE label \in Pcs /\ q \in Locals /\ ReqTypeOK(label, q)
  BY <1>10 DEF Pcs, StartPcs, Locals, ReqTypeOK
<1>12. CASE Done(s)  BY <1>7, <1>8, <1>12, DoneStepTyped
<1>13. CASE ExtractBindNonce(body) # None /\ GoTo(s, "bind", q)
  <2>1. ASSUME NEW x, x = q, NEW m, m = sms PROVE RowsExistFor("bind", x)'
    <3>1. body.tail \in BindingIds  BY <1>13, BindNonceType
    <3> QED BY <1>9, <1>10, <2>1, <3>1 DEF RowsExistFor
  <2> QED BY <1>7, <1>8, <1>11, <1>13, <2>1, StepTyped
<1>14. CASE GoTo(s, "claim", q)
  <2>1. ASSUME NEW x, x = q PROVE RowsExistFor("claim", x)'
    BY <1>9, <1>10, <2>1 DEF RowsExistFor
  <2> QED BY <1>7, <1>8, <1>11, <1>14, <2>1, StepTyped
<1> QED BY <1>5, <1>12, <1>13, <1>14 DEF q

\* Telling a gateway an answer changes no table.
LEMMA AnswerTyped ==
    ASSUME TypeInv, NEW s \in Slots, Done(s), NEW m \in SmsIds,
           NEW x \in {"matched", "no_match", "duplicate", "binding", "binding_no_match"},
           answers' = [answers EXCEPT ![m] = answers[m] \cup {x}],
           UNCHANGED <<clock, receivers, verifications, inbound, bindings, endpoints, events,
                       deliveries, told>>
    PROVE  TypeInv'
<1>1. DataOK' /\ RowsStay  BY DEF TypeInv, DataOK, RowsStay
<1> QED BY <1>1, DoneStepTyped

\* A duplicate upload ends the request.
LEMMA RefuseDuplicateTyped ==
    ASSUME TypeInv, NEW s \in Slots, NEW key \in Keys, RefuseDuplicate(s, key) PROVE TypeInv'
<1>1. <<req[s].receiver, key>> \in SmsIds
  BY DEF RefuseDuplicate, TypeInv, SlotsOK, ReqTypeOK, SmsIds
<1> QED BY <1>1, AnswerTyped DEF RefuseDuplicate, tables

\* The claim begins a transaction on an existing row, with an existing SMS.
LEMMA ClaimVerificationTyped ==
    ASSUME TypeInv, NEW s \in Slots, ClaimVerification(s) PROVE TypeInv'
<1>1. req[s].sms \in SmsIds /\ req[s].since \in Nat
  BY DEF ClaimVerification, TypeInv, SlotsOK, ReqTypeOK
<1>2. Exists(inbound[req[s].sms])  BY DEF ClaimVerification, TypeInv, RowsExist, RowsExistFor
<1>3. PICK now \in req[s].since .. clock : \E v \in Claimable(req[s].sms, now) :
          BeginTransition(s, v, "verified", req[s].sms, now)
  BY DEF ClaimVerification
<1>4. PICK v \in Claimable(req[s].sms, now) : BeginTransition(s, v, "verified", req[s].sms, now)
  BY <1>3
<1>5. v \in VerificationIds /\ Exists(verifications[v])
  BY <1>4 DEF Claimable, IsPending, Exists
<1>6. now \in Nat /\ "verified" \in Terminal  BY <1>1 DEF Terminal, TypeInv, DataOK
<1> QED BY <1>1, <1>2, <1>4, <1>5, <1>6, BeginTransitionTyped DEF ClaimVerification

\* An unmatched SMS keeps its row.
LEMMA NoMatchTyped ==
    ASSUME TypeInv, NEW s \in Slots, NoMatch(s) PROVE TypeInv'
<1> DEFINE m == req[s].sms
<1>1. m \in SmsIds /\ Exists(inbound[m])
  BY DEF NoMatch, TypeInv, SlotsOK, ReqTypeOK, RowsExist, RowsExistFor
<1>2. /\ inbound' = [inbound EXCEPT ![m].matchedVerificationId = None]
      /\ answers' = [answers EXCEPT ![m] = answers[m] \cup {"no_match"}]
      /\ Done(s)
      /\ UNCHANGED <<clock, receivers, verifications, bindings, endpoints, events, deliveries, told>>
  BY DEF NoMatch
<1> HIDE DEF m
<1>3. DataOK' /\ RowsStay
  BY <1>1, <1>2, LinkInboundType DEF TypeInv, DataOK, RowsStay
<1> QED BY <1>2, <1>3, DoneStepTyped

\* Linking the SMS to its binding keeps its row.
LEMMA LinkBindingTyped ==
    ASSUME TypeInv, NEW s \in Slots, LinkBinding(s) PROVE TypeInv'
<1> DEFINE m == req[s].sms
           b == req[s].binding
<1>1. m \in SmsIds /\ Exists(inbound[m]) /\ b \in BindingIds
  BY DEF LinkBinding, TypeInv, SlotsOK, ReqTypeOK, RowsExist, RowsExistFor
<1>2. /\ inbound' = [inbound EXCEPT ![m].matchedVerificationId = b]
      /\ answers' = [answers EXCEPT ![m] = answers[m] \cup {"binding"}]
      /\ Done(s)
      /\ UNCHANGED <<clock, receivers, verifications, bindings, endpoints, events, deliveries, told>>
  BY DEF LinkBinding
<1> HIDE DEF m, b
<1>3. DataOK' /\ RowsStay
  BY <1>1, <1>2, LinkInboundType DEF TypeInv, DataOK, RowsStay
<1> QED BY <1>2, <1>3, DoneStepTyped

-----------------------------------------------------------------------------
(* Phone bindings                                                          *)

\* A step of startBinding that writes nothing yet keeps the types.
LEMMA BindingStepTyped ==
    ASSUME TypeInv, NEW s \in Slots, NEW label \in {"unbound", "binding"}, NEW r \in BindingReq,
           GoTo(s, label, r), UNCHANGED <<clock, tables, history>>
    PROVE  TypeInv'
<1>1. label \in Pcs /\ r \in Locals /\ ReqTypeOK(label, r)
  BY DEF Pcs, StartPcs, Locals, ReqTypeOK
<1>2. RowsExistFor(label, r)'  BY DEF RowsExistFor
<1>3. DataOK' /\ RowsStay  BY UnchangedData DEF TypeInv
<1> QED BY <1>1, <1>2, <1>3, StepTyped

\* startBinding begins with well-typed locals.
LEMMA StartBindingTyped ==
    ASSUME TypeInv, NEW s \in Slots, NEW a \in Apps, NEW r \in Receivers, NEW p \in Phones,
           StartBinding(s, a, r, p)
    PROVE  TypeInv'
<1>1. PICK b \in BindingIds : GoTo(s, "unbound", [id |-> b, app |-> a, receiver |-> r, phone |-> p])
  BY DEF StartBinding
<1>2. [id |-> b, app |-> a, receiver |-> r, phone |-> p] \in BindingReq  BY DEF BindingReq
<1> QED BY <1>1, <1>2, BindingStepTyped DEF StartBinding

\* The already_bound check goes on or ends the request.
LEMMA CheckUnboundTyped ==
    ASSUME TypeInv, NEW s \in Slots, CheckUnbound(s) PROVE TypeInv'
<1>1. req[s] \in BindingReq  BY DEF CheckUnbound, TypeInv, SlotsOK, ReqTypeOK
<1>2. CASE Done(s)  BY <1>2, DoneUnchangedTyped DEF CheckUnbound
<1>3. CASE GoTo(s, "binding", req[s])  BY <1>1, <1>3, BindingStepTyped DEF CheckUnbound
<1> QED BY <1>2, <1>3 DEF CheckUnbound

\* A change of one binding row into another keeps the tables' types.
LEMMA BindingRowTyped ==
    ASSUME DataOK, NEW b \in BindingIds, NEW row \in BindingRow,
           bindings' = [bindings EXCEPT ![b] = row],
           UNCHANGED <<clock, receivers, verifications, inbound, endpoints, events, deliveries, history>>
    PROVE  DataOK' /\ RowsStay
<1>1. Exists(row)  BY DEF BindingRow, BindingStatuses, Exists
<1> QED BY <1>1 DEF DataOK, RowsStay, history

\* The inserted binding is a row of its table.
LEMMA InsertBindingTyped ==
    ASSUME TypeInv, NEW s \in Slots, InsertBinding(s) PROVE TypeInv'
<1>1. req[s] \in BindingReq  BY DEF InsertBinding, TypeInv, SlotsOK, ReqTypeOK
<1> DEFINE row == [app |-> req[s].app, receiver |-> req[s].receiver, phone |-> req[s].phone,
                   status |-> "pending", expiresAt |-> clock + PHONE_BINDING_TTL_SECONDS,
                   boundAt |-> None, revokedAt |-> None]
<1>2. row \in BindingRow
  BY <1>1, NumbersAssumption DEF BindingRow, BindingReq, BindingStatuses, TypeInv, DataOK
<1>3. bindings' = [bindings EXCEPT ![req[s].id] = row]  BY DEF InsertBinding
<1> HIDE DEF row
<1>4. req[s].id \in BindingIds  BY <1>1 DEF BindingReq
<1>5. DataOK' /\ RowsStay  BY <1>2, <1>3, <1>4, BindingRowTyped DEF InsertBinding, TypeInv
<1> QED BY <1>5, DoneStepTyped DEF InsertBinding

\* revokeBinding keeps the row.
LEMMA RevokeBindingTyped ==
    ASSUME TypeInv, NEW b \in BindingIds, RevokeBinding(b) PROVE TypeInv'
<1> DEFINE row == [bindings[b] EXCEPT !.status = "revoked", !.revokedAt = clock]
<1>1. bindings[b] \in BindingRow  BY DEF RevokeBinding, TypeInv, DataOK, Exists, NoRow
<1>2. clock \in Nat  BY DEF TypeInv, DataOK
<1>3. ASSUME NEW q \in BindingRow
      PROVE  [q EXCEPT !.status = "revoked"] \in BindingRow
             /\ [q EXCEPT !.revokedAt = clock] \in BindingRow
  BY <1>2 DEF BindingRow, BindingStatuses
<1>4. row \in BindingRow  BY <1>1, <1>3
<1>5. bindings' = [bindings EXCEPT ![b] = row]  BY DEF RevokeBinding, TypeInv, DataOK
<1> HIDE DEF row
<1>6. DataOK' /\ RowsStay  BY <1>4, <1>5, BindingRowTyped DEF RevokeBinding, TypeInv
<1> QED BY <1>6, UnchangedSlots DEF TypeInv, RevokeBinding

\* A nonce that matches nothing ends the request.
LEMMA RefuseBindNonceTyped ==
    ASSUME TypeInv, NEW s \in Slots, RefuseBindNonce(s) PROVE TypeInv'
<1>1. req[s].sms \in SmsIds  BY DEF RefuseBindNonce, TypeInv, SlotsOK, ReqTypeOK
<1> QED BY <1>1, AnswerTyped DEF RefuseBindNonce, tables

\* A pending binding is a row of its table.
LEMMA PendingBindingType ==
    ASSUME DataOK, NEW b \in BindingIds, bindings[b].status = "pending"
    PROVE  bindings[b] \in BindingRow
BY DEF DataOK, NoRow

\* consumeBindNonce goes on to link an existing binding, or ends with a 500.
LEMMA ConsumeBindNonceTyped ==
    ASSUME TypeInv, NEW s \in Slots, ConsumeBindNonce(s) PROVE TypeInv'
<1> DEFINE m == req[s].sms
           b == inbound[m].body.tail
<1>1. m \in SmsIds /\ req[s].since \in Nat /\ Exists(inbound[m]) /\ b \in BindingIds
  BY DEF ConsumeBindNonce, TypeInv, SlotsOK, ReqTypeOK, RowsExist, RowsExistFor
<1>2. PICK now \in req[s].since .. clock :
          /\ NonceMatches(b, m, now)
          /\ \/ /\ bindings' = [bindings EXCEPT ![b].status = "verified", ![b].boundAt = now]
                /\ GoTo(s, "link", [sms |-> m, binding |-> b])
             \/ Done(s) /\ UNCHANGED bindings
  BY DEF ConsumeBindNonce
<1>3. UNCHANGED <<clock, receivers, verifications, inbound, endpoints, events, deliveries, history>>
  BY DEF ConsumeBindNonce
<1>4. CASE Done(s) /\ UNCHANGED bindings
  <2>1. UNCHANGED <<clock, tables, history>>  BY <1>3, <1>4 DEF tables
  <2> QED BY <1>4, <2>1, DoneUnchangedTyped
<1>5. CASE /\ bindings' = [bindings EXCEPT ![b].status = "verified", ![b].boundAt = now]
           /\ GoTo(s, "link", [sms |-> m, binding |-> b])
  <2> DEFINE row == [bindings[b] EXCEPT !.status = "verified", !.boundAt = now]
             q == [sms |-> m, binding |-> b]
  <2>1. bindings[b] \in BindingRow
    <3>1. bindings[b].status = "pending"  BY <1>2 DEF NonceMatches
    <3> QED BY <1>1, <3>1, PendingBindingType DEF TypeInv
  <2>2. now \in Nat  BY <1>1 DEF TypeInv, DataOK
  <2>3. ASSUME NEW x \in BindingRow
        PROVE  [x EXCEPT !.status = "verified"] \in BindingRow
               /\ [x EXCEPT !.boundAt = now] \in BindingRow
    BY <2>2 DEF BindingRow, BindingStatuses
  <2>4. row \in BindingRow  BY <2>1, <2>3
  <2>5. bindings' = [bindings EXCEPT ![b] = row]  BY <1>1, <1>5 DEF TypeInv, DataOK
  <2>6. q \in [sms : SmsIds, binding : BindingIds] /\ q.sms = m /\ q.binding = b  BY <1>1
  <2>7. GoTo(s, "link", q)  BY <1>5
  <2> HIDE DEF row, m, b, q
  <2>8. DataOK' /\ RowsStay  BY <1>1, <1>3, <2>4, <2>5, BindingRowTyped DEF TypeInv
  <2>9. "link" \in Pcs /\ q \in Locals /\ ReqTypeOK("link", q)
    BY <2>6 DEF Pcs, StartPcs, Locals, ReqTypeOK
  <2>10. Exists(inbound'[m]) /\ Exists(bindings'[b])
    <3>1. Exists(row)  BY <2>4 DEF BindingRow, BindingStatuses, Exists
    <3> QED BY <1>1, <1>3, <2>5, <3>1 DEF TypeInv, DataOK
  <2>11. ASSUME NEW x, x = q PROVE RowsExistFor("link", x)'
    BY <2>6, <2>10, <2>11 DEF RowsExistFor
  <2> QED BY <2>7, <2>8, <2>9, <2>11, StepTyped
<1> QED BY <1>2, <1>4, <1>5

-----------------------------------------------------------------------------
(* Endpoints, receivers, failures and the clock                            *)

\* createWebhookEndpoint begins with well-typed locals.
LEMMA CheckEndpointCapTyped ==
    ASSUME TypeInv, NEW s \in Slots, NEW a \in Apps, CheckEndpointCap(s, a) PROVE TypeInv'
<1>1. PICK e \in EndpointIds : GoTo(s, "endpoint", [id |-> e, app |-> a])  BY DEF CheckEndpointCap
<1> DEFINE q == [id |-> e, app |-> a]
<1>2. "endpoint" \in Pcs /\ q \in Locals /\ ReqTypeOK("endpoint", q)
  BY DEF Pcs, StartPcs, Locals, ReqTypeOK
<1>3. RowsExistFor("endpoint", q)'  BY DEF RowsExistFor
<1>4. DataOK' /\ RowsStay  BY UnchangedData DEF CheckEndpointCap, TypeInv
<1> HIDE DEF q
<1> QED BY <1>1, <1>2, <1>3, <1>4, StepTyped DEF q

\* The inserted endpoint is a row of its table.
LEMMA InsertEndpointTyped ==
    ASSUME TypeInv, NEW s \in Slots, InsertEndpoint(s) PROVE TypeInv'
<1>1. req[s].id \in EndpointIds /\ req[s].app \in Apps
  BY DEF InsertEndpoint, TypeInv, SlotsOK, ReqTypeOK
<1>2. PICK types \in Subscriptions : endpoints' = [endpoints EXCEPT ![req[s].id] =
              [status |-> "enabled", app |-> req[s].app, eventTypes |-> types]]
  BY DEF InsertEndpoint
<1> DEFINE row == [status |-> "enabled", app |-> req[s].app, eventTypes |-> types]
<1>3. row \in EndpointRow  BY <1>1 DEF EndpointRow
<1>4. endpoints' = [endpoints EXCEPT ![req[s].id] = row]  BY <1>2
<1> HIDE DEF row
<1>5. DataOK' /\ RowsStay
  BY <1>1, <1>3, <1>4 DEF InsertEndpoint, TypeInv, DataOK, RowsStay, history
<1> QED BY <1>5, DoneStepTyped DEF InsertEndpoint

\* Deleting an endpoint and its deliveries keeps the types.
LEMMA DeleteEndpointTyped ==
    ASSUME TypeInv, NEW e \in EndpointIds, DeleteEndpoint(e) PROVE TypeInv'
<1>1. deliveries' \subseteq deliveries  BY DEF DeleteEndpoint, CascadeDeliveries
<1>2. DataOK' /\ RowsStay  BY <1>1 DEF DeleteEndpoint, TypeInv, DataOK, RowsStay, history
<1> QED BY <1>2, UnchangedSlots DEF TypeInv, DeleteEndpoint

\* A refused foreign key ends the request.
LEMMA AbortTransitionTyped ==
    ASSUME TypeInv, NEW s \in Slots, AbortTransition(s) PROVE TypeInv'
BY DoneUnchangedTyped DEF AbortTransition

\* A request that fails leaves the tables alone.
LEMMA FailTyped ==
    ASSUME TypeInv, NEW s \in Slots, Fail(s) PROVE TypeInv'
BY DoneUnchangedTyped DEF Fail

\* A step that writes only receivers keeps the types.
LEMMA ReceiverTyped ==
    ASSUME TypeInv, receivers' \in [Receivers -> ReceiverRow],
           UNCHANGED <<clock, verifications, inbound, bindings, endpoints, events, deliveries,
                       pc, req, history>>
    PROVE  TypeInv'
<1>1. DataOK' /\ RowsStay  BY DEF TypeInv, DataOK, RowsStay, history
<1> QED BY <1>1, UnchangedSlots DEF TypeInv

\* A heartbeat keeps the receiver a row.
LEMMA HeartbeatTyped ==
    ASSUME TypeInv, NEW r \in Receivers, Heartbeat(r) PROVE TypeInv'
<1>1. receivers' \in [Receivers -> ReceiverRow]
  BY DEF Heartbeat, TypeInv, DataOK, ReceiverRow
<1> QED BY <1>1, ReceiverTyped DEF Heartbeat

\* Enabling or disabling a receiver keeps it a row.
LEMMA SetReceiverEnabledTyped ==
    ASSUME TypeInv, NEW r \in Receivers, NEW flag \in BOOLEAN, SetReceiverEnabled(r, flag)
    PROVE  TypeInv'
<1>1. receivers' \in [Receivers -> ReceiverRow]
  BY DEF SetReceiverEnabled, TypeInv, DataOK, ReceiverRow
<1> QED BY <1>1, ReceiverTyped DEF SetReceiverEnabled

\* The clock stays a natural number.
LEMMA TickTyped == ASSUME TypeInv, Tick PROVE TypeInv'
<1>1. DataOK' /\ RowsStay  BY DEF Tick, TypeInv, DataOK, RowsStay, tables, history
<1> QED BY <1>1, UnchangedSlots DEF TypeInv, Tick

-----------------------------------------------------------------------------

\* The initial states are well typed.
LEMMA TypeInit == Init => TypeInv
<1> SUFFICES ASSUME Init PROVE TypeInv  OBVIOUS
<1>1. DataOK
  <2>1. receivers \in [Receivers -> ReceiverRow]
    <3>1. ASSUME NEW x \in [enabled : {TRUE}, lastHeartbeatAt : {None, 0}]
          PROVE  x \in ReceiverRow
      <4>1. PICK b \in {TRUE}, h \in {None, 0} : x = [enabled |-> b, lastHeartbeatAt |-> h]
        BY <3>1
      <4>2. b \in BOOLEAN /\ h \in Nat \cup {None}  OBVIOUS
      <4> QED BY <4>1, <4>2 DEF ReceiverRow
    <3> QED BY <3>1 DEF Init, InitRest
  <2>2. events \in [VerificationIds -> Seq(Terminal)]  BY DEF Init, InitRest
  <2> QED BY <2>1, <2>2 DEF Init, InitRest, DataOK
<1>2. SlotsOK  BY DEF Init, InitRest, SlotsOK, Pcs, StartPcs, Locals, ReqTypeOK
<1>3. RowsExist  BY DEF Init, InitRest, RowsExist, RowsExistFor
<1> QED BY <1>1, <1>2, <1>3 DEF TypeInv

\* Every step keeps TypeInv.
LEMMA TypeStep == TypeInv /\ [Next]_vars => TypeInv'
<1> SUFFICES ASSUME TypeInv, [Next]_vars PROVE TypeInv'  OBVIOUS
<1>1. ASSUME NEW s \in Slots, Request(s) PROVE TypeInv'
  BY <1>1, StartVerificationTyped, ReadVerificationTyped, CancelVerificationTyped,
     ReceiveInboundTyped, StartBindingTyped, CheckEndpointCapTyped DEF Request
<1>2. ASSUME NEW s \in Slots, Continue(s) PROVE TypeInv'
  BY <1>2, AcquireLockTyped, CountPendingTyped, ChooseReceiverTyped, InsertVerificationTyped,
     CodeCollisionTyped, AnswerReadTyped, LazyExpireTyped, StoreInboundTyped,
     RefuseDuplicateTyped, ClaimVerificationTyped, NoMatchTyped, ConsumeBindNonceTyped,
     RefuseBindNonceTyped, LinkBindingTyped, CheckUnboundTyped, InsertBindingTyped,
     InsertEndpointTyped, SelectEndpointsTyped, CommitTransitionTyped, AbortTransitionTyped
     DEF Continue
<1>3. CASE UNCHANGED vars
  <2>1. UNCHANGED <<clock, tables, history>> /\ UNCHANGED <<pc, req>>  BY <1>3 DEF vars
  <2> QED BY <2>1, UnchangedData, UnchangedSlots DEF TypeInv
<1> QED
  BY <1>1, <1>2, <1>3, FailTyped, HeartbeatTyped, SetReceiverEnabledTyped, RevokeBindingTyped,
     DeleteEndpointTyped, TickTyped DEF Next

\* Type correctness of the server: every row the tables hold and every local
\* variable a handler keeps across an await is of its type, whatever the
\* interleaving of the handlers.
THEOREM TypeCorrect == Spec => []TypeOK
<1>1. TypeInv => TypeOK  BY DEF TypeInv, SlotsOK, DataOK, TypeOK
<1> QED BY <1>1, TypeInit, TypeStep, PTL DEF Spec

-----------------------------------------------------------------------------
(* Who writes which table, and which action brings a slot to a statement.  *)
(* An invariant about a table or a statement then needs a look at those    *)
(* actions only.                                                           *)

SlotStep(s) == Request(s) \/ Continue(s) \/ Fail(s)

\* The action that leads a slot to the statement `label`.
CameTo(s, label) ==
    CASE label = "lock" -> \/ \E a \in Apps, p \in Phones, o \in Operators \cup {None} :
                                  StartVerification(s, a, p, o)
                           \/ CodeCollision(s)
      [] label = "count" -> AcquireLock(s)
      [] label = "pick" -> CountPending(s)
      [] label = "insert" -> ChooseReceiver(s)
      [] label = "answer" -> \E v \in VerificationIds : ReadVerification(s, v)
      [] label = "expire" -> AnswerRead(s)
      [] label = "emit" -> \/ \E v \in VerificationIds : CancelVerification(s, v)
                           \/ LazyExpire(s) \/ ClaimVerification(s)
      [] label = "commit" -> SelectEndpoints(s)
      [] label = "store" -> \E r \in Receivers : ReceiveInbound(s, r)
      [] label \in {"claim", "bind"} ->
            \E key \in Keys, from \in Phones, body \in Bodies : StoreInbound(s, key, from, body)
      [] label = "link" -> ConsumeBindNonce(s)
      [] label = "unbound" ->
            \E a \in Apps, r \in Receivers, p \in Phones : StartBinding(s, a, r, p)
      [] label = "binding" -> CheckUnbound(s)
      [] label = "endpoint" -> \E a \in Apps : CheckEndpointCap(s, a)
      [] OTHER -> TRUE

Moves(s) == \E label, r : GoTo(s, label, r) /\ CameTo(s, label)

\* A request that ends comes to no statement.
LEMMA DoneMoves == ASSUME NEW s, Done(s) PROVE Moves(s)
BY DEF Done, Moves, CameTo

\* A new request comes to the first statement of its handler.
LEMMA RequestMoves == ASSUME NEW s \in Slots, Request(s) PROVE Moves(s)
<1>1. ASSUME NEW a \in Apps, NEW p \in Phones, NEW o \in Operators \cup {None},
             StartVerification(s, a, p, o) PROVE Moves(s)
  <2>1. \E r : GoTo(s, "lock", r)  BY <1>1 DEF StartVerification
  <2> QED BY <1>1, <2>1 DEF Moves, CameTo
<1>2. ASSUME NEW v \in VerificationIds, ReadVerification(s, v) PROVE Moves(s)
  <2>1. \E r : GoTo(s, "answer", r)  BY <1>2 DEF ReadVerification
  <2> QED BY <1>2, <2>1 DEF Moves, CameTo
<1>3. ASSUME NEW v \in VerificationIds, CancelVerification(s, v) PROVE Moves(s)
  <2>1. \E r : GoTo(s, "emit", r)  BY <1>3 DEF CancelVerification, BeginTransition
  <2> QED BY <1>3, <2>1 DEF Moves, CameTo
<1>4. ASSUME NEW r \in Receivers, ReceiveInbound(s, r) PROVE Moves(s)
  <2>1. \E q : GoTo(s, "store", q)  BY <1>4 DEF ReceiveInbound
  <2> QED BY <1>4, <2>1 DEF Moves, CameTo
<1>5. ASSUME NEW a \in Apps, NEW r \in Receivers, NEW p \in Phones, StartBinding(s, a, r, p)
      PROVE Moves(s)
  <2>1. \E q : GoTo(s, "unbound", q)  BY <1>5 DEF StartBinding
  <2> QED BY <1>5, <2>1 DEF Moves, CameTo
<1>6. ASSUME NEW a \in Apps, CheckEndpointCap(s, a) PROVE Moves(s)
  <2>1. \E q : GoTo(s, "endpoint", q)  BY <1>6 DEF CheckEndpointCap
  <2> QED BY <1>6, <2>1 DEF Moves, CameTo
<1> QED BY <1>1, <1>2, <1>3, <1>4, <1>5, <1>6 DEF Request

\* The steps of startVerification and of a read.
LEMMA StartMoves ==
    ASSUME NEW s \in Slots,
           \/ AcquireLock(s) \/ CountPending(s) \/ ChooseReceiver(s) \/ InsertVerification(s)
           \/ CodeCollision(s) \/ AnswerRead(s) \/ LazyExpire(s)
    PROVE  Moves(s)
<1>1. CASE AcquireLock(s)
  <2>1. \E r : GoTo(s, "count", r)  BY <1>1 DEF AcquireLock
  <2> QED BY <1>1, <2>1 DEF Moves, CameTo
<1>2. CASE CountPending(s)
  <2>1. Done(s) \/ \E r : GoTo(s, "pick", r)  BY <1>2, Zenon DEF CountPending
  <2>2. (\E r : GoTo(s, "pick", r)) => Moves(s)  BY <1>2 DEF Moves, CameTo
  <2> QED BY <2>1, <2>2, DoneMoves
<1>3. CASE ChooseReceiver(s)
  <2>1. Done(s) \/ \E r : GoTo(s, "insert", r)  BY <1>3, Zenon DEF ChooseReceiver
  <2>2. (\E r : GoTo(s, "insert", r)) => Moves(s)  BY <1>3 DEF Moves, CameTo
  <2> QED BY <2>1, <2>2, DoneMoves
<1>4. CASE InsertVerification(s)  BY <1>4, DoneMoves DEF InsertVerification
<1>5. CASE CodeCollision(s)
  <2>1. Done(s) \/ \E r : GoTo(s, "lock", r)  BY <1>5, Zenon DEF CodeCollision
  <2>2. (\E r : GoTo(s, "lock", r)) => Moves(s)  BY <1>5 DEF Moves, CameTo
  <2> QED BY <2>1, <2>2, DoneMoves
<1>6. CASE AnswerRead(s)
  <2>1. Done(s) \/ \E r : GoTo(s, "expire", r)  BY <1>6, Zenon DEF AnswerRead
  <2>2. (\E r : GoTo(s, "expire", r)) => Moves(s)  BY <1>6 DEF Moves, CameTo
  <2> QED BY <2>1, <2>2, DoneMoves
<1>7. CASE LazyExpire(s)
  <2>1. Done(s) \/ \E r : GoTo(s, "emit", r)  BY <1>7, Zenon DEF LazyExpire, BeginTransition
  <2>2. (\E r : GoTo(s, "emit", r)) => Moves(s)  BY <1>7 DEF Moves, CameTo
  <2> QED BY <2>1, <2>2, DoneMoves
<1> QED BY <1>1, <1>2, <1>3, <1>4, <1>5, <1>6, <1>7

\* The steps of processInbound.
LEMMA InboundMoves ==
    ASSUME NEW s \in Slots,
           \/ \E key \in Keys : \/ \E from \in Phones, body \in Bodies : StoreInbound(s, key, from, body)
                                \/ RefuseDuplicate(s, key)
           \/ ClaimVerification(s) \/ NoMatch(s)
           \/ ConsumeBindNonce(s) \/ RefuseBindNonce(s) \/ LinkBinding(s)
    PROVE  Moves(s)
<1>1. ASSUME NEW key \in Keys, NEW from \in Phones, NEW body \in Bodies,
             StoreInbound(s, key, from, body) PROVE Moves(s)
  <2>1. Done(s) \/ \E label \in {"claim", "bind"} : \E r : GoTo(s, label, r)
    BY <1>1 DEF StoreInbound
  <2>2. (\E label \in {"claim", "bind"} : \E r : GoTo(s, label, r)) => Moves(s)
    BY <1>1 DEF Moves, CameTo
  <2> QED BY <2>1, <2>2, DoneMoves
<1>2. ASSUME NEW key \in Keys, RefuseDuplicate(s, key) PROVE Moves(s)
  BY <1>2, DoneMoves DEF RefuseDuplicate
<1>3. CASE ClaimVerification(s)
  <2>1. \E r : GoTo(s, "emit", r)  BY <1>3 DEF ClaimVerification, BeginTransition
  <2> QED BY <1>3, <2>1 DEF Moves, CameTo
<1>4. CASE NoMatch(s)  BY <1>4, DoneMoves DEF NoMatch
<1>5. CASE ConsumeBindNonce(s)
  <2>1. Done(s) \/ \E r : GoTo(s, "link", r)  BY <1>5, Zenon DEF ConsumeBindNonce
  <2>2. (\E r : GoTo(s, "link", r)) => Moves(s)  BY <1>5 DEF Moves, CameTo
  <2> QED BY <2>1, <2>2, DoneMoves
<1>6. CASE RefuseBindNonce(s)  BY <1>6, DoneMoves DEF RefuseBindNonce
<1>7. CASE LinkBinding(s)  BY <1>7, DoneMoves DEF LinkBinding
<1> QED BY <1>1, <1>2, <1>3, <1>4, <1>5, <1>6, <1>7

\* The steps of startBinding, of endpoints and of the settling transactions.
LEMMA OtherMoves ==
    ASSUME NEW s \in Slots,
           \/ CheckUnbound(s) \/ InsertBinding(s) \/ InsertEndpoint(s)
           \/ SelectEndpoints(s) \/ CommitTransition(s) \/ AbortTransition(s) \/ Fail(s)
    PROVE  Moves(s)
<1>1. CASE CheckUnbound(s)
  <2>1. Done(s) \/ \E r : GoTo(s, "binding", r)  BY <1>1, Zenon DEF CheckUnbound
  <2>2. (\E r : GoTo(s, "binding", r)) => Moves(s)  BY <1>1 DEF Moves, CameTo
  <2> QED BY <2>1, <2>2, DoneMoves
<1>2. CASE InsertBinding(s)  BY <1>2, DoneMoves DEF InsertBinding
<1>3. CASE InsertEndpoint(s)  BY <1>3, DoneMoves DEF InsertEndpoint
<1>4. CASE SelectEndpoints(s)
  <2>1. \E r : GoTo(s, "commit", r)  BY <1>4 DEF SelectEndpoints
  <2> QED BY <1>4, <2>1 DEF Moves, CameTo
<1>5. CASE CommitTransition(s)  BY <1>5, DoneMoves DEF CommitTransition
<1>6. CASE AbortTransition(s)  BY <1>6, DoneMoves DEF AbortTransition
<1>7. CASE Fail(s)  BY <1>7, DoneMoves DEF Fail
<1> QED BY <1>1, <1>2, <1>3, <1>4, <1>5, <1>6, <1>7

\* Every step of a request moves its slot, and only along CameTo.
LEMMA SlotMoves == ASSUME NEW s \in Slots, SlotStep(s) PROVE Moves(s)
BY RequestMoves, StartMoves, InboundMoves, OtherMoves DEF SlotStep, Continue

\* A request that moves leaves the other slots alone, and a step that moves
\* none leaves them all alone: a slot that another step finds at a statement
\* was there before, or has just come there along CameTo.
LEMMA OthersStay ==
    ASSUME TypeInv, NEW s \in Slots, SlotStep(s), NEW t \in Slots, t # s
    PROVE  pc'[t] = pc[t] /\ req'[t] = req[t]
<1>1. PICK label, r : GoTo(s, label, r)  BY SlotMoves DEF Moves
<1> QED BY <1>1 DEF GoTo, TypeInv, SlotsOK

\* The slot that moves is at the statement CameTo says.
LEMMA MoverCame ==
    ASSUME TypeInv, NEW s \in Slots, SlotStep(s) PROVE CameTo(s, pc'[s])
<1>1. PICK label, r : GoTo(s, label, r) /\ CameTo(s, label)  BY SlotMoves DEF Moves
<1>2. pc'[s] = label  BY <1>1 DEF GoTo, TypeInv, SlotsOK
<1> QED BY <1>1, <1>2

\* The steps that are not a request's.
LEMMA OutsideSteps ==
    ASSUME [Next]_vars, \A s \in Slots : ~SlotStep(s)
    PROVE  UNCHANGED <<pc, req, verifications, inbound, events, history>>
<1>1. ASSUME NEW r \in Receivers, Heartbeat(r) \/ \E flag \in BOOLEAN : SetReceiverEnabled(r, flag)
      PROVE  UNCHANGED <<pc, req, verifications, inbound, events, history>>
  BY <1>1 DEF Heartbeat, SetReceiverEnabled
<1>2. ASSUME NEW b \in BindingIds, RevokeBinding(b)
      PROVE  UNCHANGED <<pc, req, verifications, inbound, events, history>>
  BY <1>2 DEF RevokeBinding
<1>3. ASSUME NEW e \in EndpointIds, DeleteEndpoint(e)
      PROVE  UNCHANGED <<pc, req, verifications, inbound, events, history>>
  BY <1>3 DEF DeleteEndpoint
<1>4. CASE Tick  BY <1>4 DEF Tick, tables
<1>5. CASE UNCHANGED vars  BY <1>5 DEF vars, tables
<1> QED BY <1>1, <1>2, <1>3, <1>4, <1>5 DEF Next, SlotStep

\* A slot stays where it is, or its own request moves it.
LEMMA StaysOrCame ==
    ASSUME TypeInv, [Next]_vars, NEW t \in Slots
    PROVE  \/ pc'[t] = pc[t] /\ req'[t] = req[t]
           \/ SlotStep(t) /\ CameTo(t, pc'[t])
<1>1. CASE \E s \in Slots : SlotStep(s)  BY <1>1, OthersStay, MoverCame
<1>2. CASE \A s \in Slots : ~SlotStep(s)  BY <1>2, OutsideSteps
<1> QED BY <1>1, <1>2

\* The steps of a request that write.
LEMMA SlotWrites ==
    ASSUME NEW s \in Slots, SlotStep(s)
    PROVE  \/ UNCHANGED <<clock, tables, history>>
           \/ InsertVerification(s) \/ AnswerRead(s)
           \/ \E key \in Keys : \/ \E from \in Phones, body \in Bodies : StoreInbound(s, key, from, body)
                                \/ RefuseDuplicate(s, key)
           \/ NoMatch(s) \/ ConsumeBindNonce(s) \/ RefuseBindNonce(s) \/ LinkBinding(s)
           \/ InsertBinding(s) \/ InsertEndpoint(s) \/ CommitTransition(s)
<1>1. ASSUME Request(s) PROVE UNCHANGED <<clock, tables, history>>
  BY <1>1 DEF Request, StartVerification, ReadVerification, CancelVerification, ReceiveInbound,
              StartBinding, CheckEndpointCap
<1>2. ASSUME \/ AcquireLock(s) \/ CountPending(s) \/ ChooseReceiver(s) \/ CodeCollision(s)
             \/ LazyExpire(s) \/ ClaimVerification(s) \/ CheckUnbound(s) \/ SelectEndpoints(s)
             \/ AbortTransition(s) \/ Fail(s)
      PROVE UNCHANGED <<clock, tables, history>>
  BY <1>2 DEF AcquireLock, CountPending, ChooseReceiver, CodeCollision, LazyExpire,
              ClaimVerification, CheckUnbound, SelectEndpoints, AbortTransition, Fail
<1> QED BY <1>1, <1>2 DEF SlotStep, Continue

\* The clock never goes back.
LEMMA ClockGrows ==
    ASSUME TypeInv, [Next]_vars PROVE clock' \in Nat /\ clock <= clock'
<1>1. clock \in Nat  BY DEF TypeInv, DataOK
<1>2. ASSUME NEW s \in Slots, SlotStep(s) PROVE clock' = clock
  BY <1>2, SlotWrites
     DEF InsertVerification, AnswerRead, StoreInbound, RefuseDuplicate, NoMatch, ConsumeBindNonce,
         RefuseBindNonce, LinkBinding, InsertBinding, InsertEndpoint, CommitTransition
<1>3. ASSUME NEW r \in Receivers, Heartbeat(r) \/ \E flag \in BOOLEAN : SetReceiverEnabled(r, flag)
      PROVE  clock' = clock
  BY <1>3 DEF Heartbeat, SetReceiverEnabled
<1>4. ASSUME NEW b \in BindingIds, RevokeBinding(b) PROVE clock' = clock
  BY <1>4 DEF RevokeBinding
<1>5. ASSUME NEW e \in EndpointIds, DeleteEndpoint(e) PROVE clock' = clock
  BY <1>5 DEF DeleteEndpoint
<1>6. Tick => clock' = clock + 1  BY DEF Tick
<1>7. UNCHANGED vars => clock' = clock  BY DEF vars
<1> QED BY <1>1, <1>2, <1>3, <1>4, <1>5, <1>6, <1>7 DEF Next, SlotStep

\* A verification row is written by the insert of its id and by the commit of
\* a transaction that settles it.
LEMMA WhoWritesVerification ==
    ASSUME TypeInv, [Next]_vars, NEW v \in VerificationIds, verifications'[v] # verifications[v]
    PROVE  \E s \in Slots : \/ InsertVerification(s) /\ req[s].id = v
                            \/ CommitTransition(s) /\ req[s].verification = v
<1>1. PICK s \in Slots : SlotStep(s)  BY OutsideSteps
<1>2. InsertVerification(s) \/ CommitTransition(s)
  BY <1>1, SlotWrites
     DEF AnswerRead, StoreInbound, RefuseDuplicate, NoMatch, ConsumeBindNonce, RefuseBindNonce,
         LinkBinding, InsertBinding, InsertEndpoint, tables
<1>3. ASSUME NEW id, NEW row, verifications' = [verifications EXCEPT ![id] = row] PROVE id = v
  BY <1>3 DEF TypeInv, DataOK
<1>4. CASE InsertVerification(s)
  <2>1. \E row : verifications' = [verifications EXCEPT ![req[s].id] = row]
    BY <1>4 DEF InsertVerification
  <2> QED BY <1>3, <1>4, <2>1
<1>5. CASE CommitTransition(s)
  <2>1. \E row : verifications' = [verifications EXCEPT ![req[s].verification] = row]
    BY <1>5 DEF CommitTransition
  <2> QED BY <1>3, <1>5, <2>1
<1> QED BY <1>2, <1>4, <1>5

\* A stored SMS is written when it is stored and when it is linked.
LEMMA WhoWritesInbound ==
    ASSUME TypeInv, [Next]_vars, NEW m \in SmsIds, inbound'[m] # inbound[m]
    PROVE  \E s \in Slots :
              \/ \E key \in Keys, from \in Phones, body \in Bodies :
                    StoreInbound(s, key, from, body) /\ m = <<req[s].receiver, key>>
              \/ (NoMatch(s) \/ LinkBinding(s)) /\ m = req[s].sms
              \/ CommitTransition(s) /\ req[s].outcome = "verified" /\ m = req[s].sms
<1>1. PICK s \in Slots : SlotStep(s)  BY OutsideSteps
<1>2. \/ \E key \in Keys, from \in Phones, body \in Bodies : StoreInbound(s, key, from, body)
      \/ NoMatch(s) \/ LinkBinding(s) \/ CommitTransition(s)
  BY <1>1, SlotWrites
     DEF InsertVerification, AnswerRead, RefuseDuplicate, ConsumeBindNonce, RefuseBindNonce,
         InsertBinding, InsertEndpoint, tables
<1>3. ASSUME NEW id, NEW row, inbound' = [inbound EXCEPT ![id] = row] PROVE id = m
  BY <1>3 DEF TypeInv, DataOK
<1>4. ASSUME NEW key \in Keys, NEW from \in Phones, NEW body \in Bodies,
             StoreInbound(s, key, from, body)
      PROVE  m = <<req[s].receiver, key>>
  <2>1. \E row : inbound' = [inbound EXCEPT ![<<req[s].receiver, key>>] = row]
    BY <1>4 DEF StoreInbound
  <2> QED BY <1>3, <2>1
<1>5. NoMatch(s) => m = req[s].sms  BY <1>3 DEF NoMatch
<1>6. LinkBinding(s) => m = req[s].sms  BY <1>3 DEF LinkBinding
<1>7. CommitTransition(s) => req[s].outcome = "verified" /\ m = req[s].sms
  BY <1>3 DEF CommitTransition
<1> QED BY <1>2, <1>4, <1>5, <1>6, <1>7

\* What each of those statements makes of the SMS: stored, it keeps its sender
\* and its body.
LEMMA SmsChange ==
    ASSUME TypeInv, [Next]_vars, NEW m \in SmsIds, inbound'[m] # inbound[m]
    PROVE  \E s \in Slots :
              \/ /\ ~Exists(inbound[m])
                 /\ \E key \in Keys, from \in Phones, body \in Bodies :
                       /\ StoreInbound(s, key, from, body) /\ m = <<req[s].receiver, key>>
                       /\ inbound'[m] = [status |-> "stored", from |-> from, body |-> body,
                                         matchedVerificationId |-> None]
              \/ /\ Exists(inbound[m]) /\ m = req[s].sms
                 /\ inbound'[m].status = "stored"
                 /\ inbound'[m].from = inbound[m].from /\ inbound'[m].body = inbound[m].body
                 /\ \/ NoMatch(s) /\ inbound'[m].matchedVerificationId = None
                    \/ LinkBinding(s) /\ inbound'[m].matchedVerificationId = req[s].binding
                    \/ /\ CommitTransition(s) /\ req[s].outcome = "verified"
                       /\ inbound'[m].matchedVerificationId = req[s].verification
<1>1. PICK s \in Slots :
              \/ \E key \in Keys, from \in Phones, body \in Bodies :
                    StoreInbound(s, key, from, body) /\ m = <<req[s].receiver, key>>
              \/ (NoMatch(s) \/ LinkBinding(s)) /\ m = req[s].sms
              \/ CommitTransition(s) /\ req[s].outcome = "verified" /\ m = req[s].sms
  BY WhoWritesInbound
<1>2. ASSUME NEW key \in Keys, NEW from \in Phones, NEW body \in Bodies,
             StoreInbound(s, key, from, body), m = <<req[s].receiver, key>>
      PROVE  /\ ~Exists(inbound[m])
             /\ inbound'[m] = [status |-> "stored", from |-> from, body |-> body,
                               matchedVerificationId |-> None]
  BY <1>2 DEF StoreInbound, TypeInv, DataOK
<1>3. ASSUME m = req[s].sms,
             \/ NoMatch(s) \/ LinkBinding(s)
             \/ CommitTransition(s) /\ req[s].outcome = "verified"
      PROVE  Exists(inbound[m]) /\ inbound[m] \in InboundRow
  <2>1. RowsExistFor(pc[s], req[s])  BY DEF TypeInv, RowsExist
  <2>2. Exists(inbound[m])
    BY <1>3, <2>1 DEF RowsExistFor, NoMatch, LinkBinding, CommitTransition
  <2> QED BY <2>2 DEF TypeInv, DataOK, Exists, NoRow
<1>4. ASSUME NEW x \in VerificationIds \cup BindingIds \cup {None},
             Exists(inbound[m]), inbound[m] \in InboundRow,
             inbound' = [inbound EXCEPT ![m].matchedVerificationId = x]
      PROVE  /\ inbound'[m].status = "stored"
             /\ inbound'[m].from = inbound[m].from /\ inbound'[m].body = inbound[m].body
             /\ inbound'[m].matchedVerificationId = x
  <2>1. inbound'[m] = [inbound[m] EXCEPT !.matchedVerificationId = x]
    BY <1>4 DEF TypeInv, DataOK
  <2> QED BY <1>4, <2>1, LinkedType
<1>5. CASE NoMatch(s) /\ m = req[s].sms
  <2>1. inbound' = [inbound EXCEPT ![m].matchedVerificationId = None]  BY <1>5 DEF NoMatch
  <2> QED BY <1>3, <1>4, <1>5, <2>1
<1>6. CASE LinkBinding(s) /\ m = req[s].sms
  <2>1. inbound' = [inbound EXCEPT ![m].matchedVerificationId = req[s].binding]
    BY <1>6 DEF LinkBinding
  <2>2. req[s].binding \in BindingIds  BY <1>6 DEF LinkBinding, TypeInv, SlotsOK, ReqTypeOK
  <2>3. Exists(inbound[m]) /\ inbound[m] \in InboundRow  BY <1>3, <1>6
  <2>4. /\ inbound'[m].status = "stored"
        /\ inbound'[m].from = inbound[m].from /\ inbound'[m].body = inbound[m].body
        /\ inbound'[m].matchedVerificationId = req[s].binding
    BY <1>4, <2>1, <2>2, <2>3
  <2> QED BY <1>6, <2>3, <2>4
<1>7. CASE CommitTransition(s) /\ req[s].outcome = "verified" /\ m = req[s].sms
  <2>1. inbound' = [inbound EXCEPT ![m].matchedVerificationId = req[s].verification]
    BY <1>7 DEF CommitTransition
  <2>2. req[s].verification \in VerificationIds
    BY <1>7 DEF CommitTransition, TypeInv, SlotsOK, ReqTypeOK, TransitionReq
  <2>3. Exists(inbound[m]) /\ inbound[m] \in InboundRow  BY <1>3, <1>7
  <2>4. /\ inbound'[m].status = "stored"
        /\ inbound'[m].from = inbound[m].from /\ inbound'[m].body = inbound[m].body
        /\ inbound'[m].matchedVerificationId = req[s].verification
    BY <1>4, <2>1, <2>2, <2>3
  <2> QED BY <1>7, <2>3, <2>4
<1> QED BY <1>1, <1>2, <1>5, <1>6, <1>7

\* A stored SMS stays stored, with its sender and its body.
LEMMA SmsStays ==
    ASSUME TypeInv, [Next]_vars, NEW m \in SmsIds, Exists(inbound[m])
    PROVE  /\ Exists(inbound'[m]) /\ inbound'[m].status = "stored"
           /\ inbound'[m].from = inbound[m].from /\ inbound'[m].body = inbound[m].body
<1>1. inbound[m].status = "stored"  BY DEF TypeInv, DataOK, Exists, NoRow, InboundRow
<1> QED BY <1>1, SmsChange DEF Exists

\* A binding is written by its insert, by the nonce's consumption and by its
\* revocation, and no statement writes two.
LEMMA WhoWritesBinding ==
    ASSUME TypeInv, [Next]_vars, NEW b \in BindingIds, bindings'[b] # bindings[b]
    PROVE  /\ \A c \in BindingIds : c # b => bindings'[c] = bindings[c]
           /\ \/ \E s \in Slots : \/ InsertBinding(s) /\ b = req[s].id
                                  \/ ConsumeBindNonce(s) /\ b = inbound[req[s].sms].body.tail
              \/ RevokeBinding(b)
<1> DEFINE Others == \A c \in BindingIds : c # b => bindings'[c] = bindings[c]
<1>1. ASSUME NEW s \in Slots, SlotStep(s) PROVE InsertBinding(s) \/ ConsumeBindNonce(s)
  BY <1>1, SlotWrites
     DEF InsertVerification, AnswerRead, StoreInbound, RefuseDuplicate, NoMatch, RefuseBindNonce,
         LinkBinding, InsertEndpoint, CommitTransition, tables
<1>2. ASSUME NEW s \in Slots, InsertBinding(s) PROVE b = req[s].id /\ Others
  <2>1. ASSUME NEW id, NEW row, bindings' = [bindings EXCEPT ![id] = row] PROVE id = b /\ Others
    BY <2>1 DEF TypeInv, DataOK
  <2>2. \E row : bindings' = [bindings EXCEPT ![req[s].id] = row]  BY <1>2 DEF InsertBinding
  <2> QED BY <2>1, <2>2
<1>3. ASSUME NEW s \in Slots, ConsumeBindNonce(s)
      PROVE  b = inbound[req[s].sms].body.tail /\ Others
  <2>1. ASSUME NEW c, NEW now, bindings' = [bindings EXCEPT ![c].status = "verified", ![c].boundAt = now]
        PROVE  c = b /\ Others
    BY <2>1 DEF TypeInv, DataOK
  <2>2. \E now : bindings' = [bindings EXCEPT ![inbound[req[s].sms].body.tail].status = "verified",
                                              ![inbound[req[s].sms].body.tail].boundAt = now]
    BY <1>3 DEF ConsumeBindNonce
  <2> QED BY <2>1, <2>2
<1>4. ASSUME NEW c \in BindingIds, RevokeBinding(c) PROVE c = b /\ Others
  BY <1>4 DEF RevokeBinding, TypeInv, DataOK
<1>5. ASSUME NEW r \in Receivers, Heartbeat(r) \/ \E flag \in BOOLEAN : SetReceiverEnabled(r, flag)
      PROVE FALSE
  BY <1>5 DEF Heartbeat, SetReceiverEnabled
<1>6. ASSUME NEW e \in EndpointIds, DeleteEndpoint(e) PROVE FALSE  BY <1>6 DEF DeleteEndpoint
<1>7. ~Tick /\ ~UNCHANGED vars  BY DEF Tick, tables, vars
<1> QED BY <1>1, <1>2, <1>3, <1>4, <1>5, <1>6, <1>7 DEF Next, SlotStep

\* An endpoint is written by its insert and by its deletion.
LEMMA WhoWritesEndpoint ==
    ASSUME TypeInv, [Next]_vars, NEW e \in EndpointIds, endpoints'[e] # endpoints[e]
    PROVE  (\E s \in Slots : InsertEndpoint(s) /\ e = req[s].id) \/ DeleteEndpoint(e)
<1>1. ASSUME NEW id, NEW row, endpoints' = [endpoints EXCEPT ![id] = row] PROVE id = e
  BY <1>1 DEF TypeInv, DataOK
<1>2. ASSUME NEW s \in Slots, SlotStep(s) PROVE InsertEndpoint(s)
  BY <1>2, SlotWrites
     DEF InsertVerification, AnswerRead, StoreInbound, RefuseDuplicate, NoMatch, RefuseBindNonce,
         LinkBinding, InsertBinding, ConsumeBindNonce, CommitTransition, tables
<1>3. ASSUME NEW s \in Slots, InsertEndpoint(s) PROVE e = req[s].id
  <2>1. \E row : endpoints' = [endpoints EXCEPT ![req[s].id] = row]  BY <1>3 DEF InsertEndpoint
  <2> QED BY <1>1, <2>1
<1>4. ASSUME NEW c \in EndpointIds, DeleteEndpoint(c) PROVE c = e
  BY <1>1, <1>4 DEF DeleteEndpoint
<1>5. ASSUME NEW r \in Receivers, Heartbeat(r) \/ \E flag \in BOOLEAN : SetReceiverEnabled(r, flag)
      PROVE FALSE
  BY <1>5 DEF Heartbeat, SetReceiverEnabled
<1>6. ASSUME NEW b \in BindingIds, RevokeBinding(b) PROVE FALSE  BY <1>6 DEF RevokeBinding
<1>7. ~Tick /\ ~UNCHANGED vars  BY DEF Tick, tables, vars
<1> QED BY <1>2, <1>3, <1>4, <1>5, <1>6, <1>7 DEF Next, SlotStep

-----------------------------------------------------------------------------
(* startVerification counts the pending rows of an (app, phone) and only   *)
(* later inserts one more.  The proof that the cap holds all the same: the *)
(* advisory lock is exclusive, so between the count and the insert no      *)
(* other start of that (app, phone) inserts, and every other step can only *)
(* make the set of pending rows smaller.                                   *)

CapInv == LockIsExclusive /\ RoomIsKept /\ PendingCap

\* PendingFor after the step, with its arguments taken before it.
NextPending(a, p) ==
    {v \in VerificationIds : /\ verifications'[v].status = "pending"
                             /\ verifications'[v].app = a
                             /\ verifications'[v].phone = p}

PendingShrinks ==
    \A a \in Apps, p \in Phones : NextPending(a, p) \subseteq PendingFor(a, p)

\* The sets that the cap is about are finite.
LEMMA PendingFinite ==
    ASSUME NEW a, NEW p
    PROVE  IsFiniteSet(PendingFor(a, p)) /\ Cardinality(PendingFor(a, p)) \in Nat
<1>1. PendingFor(a, p) \subseteq VerificationIds  BY DEF PendingFor
<1>2. IsFiniteSet(PendingFor(a, p))  BY <1>1, FiniteAssumption, FS_Subset
<1> QED BY <1>2, FS_CardinalityType

\* A smaller set of pending rows has no more elements.
LEMMA ShrinksCount ==
    ASSUME NEW a, NEW p, NextPending(a, p) \subseteq PendingFor(a, p)
    PROVE  /\ Cardinality(NextPending(a, p)) \in Nat
           /\ Cardinality(NextPending(a, p)) <= Cardinality(PendingFor(a, p))
<1>1. IsFiniteSet(PendingFor(a, p))  BY PendingFinite
<1>2. IsFiniteSet(NextPending(a, p)) /\ Cardinality(NextPending(a, p)) <= Cardinality(PendingFor(a, p))
  BY <1>1, FS_Subset
<1> QED BY <1>2, FS_CardinalityType

\* One more row adds at most one.
LEMMA GrowsByOne ==
    ASSUME NEW a, NEW p, NEW v, NextPending(a, p) \subseteq PendingFor(a, p) \cup {v}
    PROVE  /\ Cardinality(NextPending(a, p)) \in Nat
           /\ Cardinality(NextPending(a, p)) <= Cardinality(PendingFor(a, p)) + 1
<1>1. IsFiniteSet(PendingFor(a, p)) /\ Cardinality(PendingFor(a, p)) \in Nat  BY PendingFinite
<1>2. IsFiniteSet(PendingFor(a, p) \cup {v})
      /\ Cardinality(PendingFor(a, p) \cup {v}) <= Cardinality(PendingFor(a, p)) + 1
  BY <1>1, FS_AddElement
<1>3. IsFiniteSet(NextPending(a, p))
      /\ Cardinality(NextPending(a, p)) <= Cardinality(PendingFor(a, p) \cup {v})
  BY <1>2, FS_Subset
<1>4. Cardinality(NextPending(a, p)) \in Nat /\ Cardinality(PendingFor(a, p) \cup {v}) \in Nat
  BY <1>2, <1>3, FS_CardinalityType
<1> QED BY <1>1, <1>2, <1>3, <1>4

\* A step that writes no verification makes no row pending.
LEMMA UnchangedShrinks ==
    ASSUME verifications' = verifications PROVE PendingShrinks
BY DEF PendingShrinks, NextPending, PendingFor, IsPending

\* Settling a row makes no row pending.
LEMMA CommitShrinks ==
    ASSUME TypeInv, NEW s \in Slots, CommitTransition(s) PROVE PendingShrinks
<1> DEFINE r == req[s]
           v == r.verification
           row == Settled(verifications[v], r)
<1>1. r \in TransitionReq /\ (r.outcome = "verified" => r.sms \in SmsIds /\ r.now \in Nat)
  BY DEF CommitTransition, TypeInv, SlotsOK, ReqTypeOK
<1>2. v \in VerificationIds /\ r.outcome \in Terminal  BY <1>1 DEF TransitionReq
<1>3. verifications[v] \in VerificationRow
  BY <1>2 DEF CommitTransition, TypeInv, DataOK, RowsExist, RowsExistFor, Exists, NoRow
<1>4. row.status # "pending"  BY <1>1, <1>2, <1>3, SettledType DEF Terminal
<1>5. verifications' = [verifications EXCEPT ![v] = row]  BY DEF CommitTransition
<1> HIDE DEF row, v, r
<1> QED BY <1>2, <1>4, <1>5 DEF PendingShrinks, NextPending, PendingFor, IsPending, TypeInv, DataOK

-----------------------------------------------------------------------------

\* Steps of requests that are not, or no longer, in the critical section.
LEMMA CapKeptOutside ==
    ASSUME TypeInv, CapInv, PendingShrinks, NEW s \in Slots, NEW label, NEW r,
           GoTo(s, label, r), label \notin LockPcs
    PROVE  CapInv'
<1>1. ASSUME NEW t \in Slots, pc'[t] \in LockPcs
      PROVE  t # s /\ pc'[t] = pc[t] /\ req'[t] = req[t] /\ req[t].app \in Apps /\ req[t].phone \in Phones
  <2>1. t # s /\ pc'[t] = pc[t] /\ req'[t] = req[t]  BY <1>1 DEF GoTo, TypeInv, SlotsOK
  <2>2. req[t] \in StartReq  BY <1>1, <2>1, StartReqAt DEF LockPcs, StartPcs
  <2> QED BY <2>1, <2>2 DEF StartReq
<1>2. LockIsExclusive'  BY <1>1 DEF LockIsExclusive, CapInv
<1>3. ASSUME NEW t \in Slots, pc'[t] \in {"pick", "insert"}
      PROVE  Cardinality(NextPending(req'[t].app, req'[t].phone)) < MAX_PENDING_PER_PHONE
  <2>1. pc'[t] = pc[t] /\ req'[t] = req[t] /\ req[t].app \in Apps /\ req[t].phone \in Phones
    BY <1>1, <1>3 DEF LockPcs
  <2>2. Cardinality(PendingFor(req[t].app, req[t].phone)) < MAX_PENDING_PER_PHONE
    BY <1>3, <2>1 DEF CapInv, RoomIsKept
  <2>3. NextPending(req[t].app, req[t].phone) \subseteq PendingFor(req[t].app, req[t].phone)
    BY <2>1 DEF PendingShrinks
  <2>4. Cardinality(NextPending(req[t].app, req[t].phone)) \in Nat
        /\ Cardinality(NextPending(req[t].app, req[t].phone))
              <= Cardinality(PendingFor(req[t].app, req[t].phone))
        /\ Cardinality(PendingFor(req[t].app, req[t].phone)) \in Nat
    BY <2>3, ShrinksCount, PendingFinite
  <2> QED BY <2>1, <2>2, <2>4, NumbersAssumption
<1>4. RoomIsKept'  BY <1>3 DEF RoomIsKept, NextPending, PendingFor, IsPending
<1>5. ASSUME NEW a \in Apps, NEW p \in Phones
      PROVE  Cardinality(NextPending(a, p)) <= MAX_PENDING_PER_PHONE
  <2>1. Cardinality(PendingFor(a, p)) <= MAX_PENDING_PER_PHONE  BY DEF CapInv, PendingCap
  <2>2. NextPending(a, p) \subseteq PendingFor(a, p)  BY DEF PendingShrinks
  <2> QED BY <2>1, <2>2, ShrinksCount, PendingFinite, NumbersAssumption
<1>6. PendingCap'  BY <1>5 DEF PendingCap, NextPending, PendingFor, IsPending
<1> QED BY <1>2, <1>4, <1>6 DEF CapInv

\* Steps that change neither the slots nor the verifications.
LEMMA CapKeptUnchanged ==
    ASSUME CapInv, UNCHANGED <<pc, req, verifications>> PROVE CapInv'
BY DEF CapInv, LockIsExclusive, RoomIsKept, PendingCap, PendingFor, IsPending

\* Steps into and inside the critical section, up to the insert.
LEMMA CapKeptInside ==
    ASSUME TypeInv, CapInv, verifications' = verifications, NEW s \in Slots,
           NEW label \in LockPcs, NEW r, GoTo(s, label, r),
           \A t \in Slots \ {s} : pc[t] \in LockPcs =>
               <<req[t].app, req[t].phone>> # <<r.app, r.phone>>,
           label \in {"pick", "insert"} =>
               Cardinality(PendingFor(r.app, r.phone)) < MAX_PENDING_PER_PHONE
    PROVE  CapInv'
<1>1. pc'[s] = label /\ req'[s] = r  BY DEF GoTo, TypeInv, SlotsOK
<1>2. \A t \in Slots \ {s} : pc'[t] = pc[t] /\ req'[t] = req[t]  BY DEF GoTo, TypeInv, SlotsOK
<1>3. LockIsExclusive'  BY <1>1, <1>2 DEF LockIsExclusive, CapInv
<1>4. RoomIsKept'
  <2>1. \A a, p : PendingFor(a, p) = NextPending(a, p)  BY DEF PendingFor, NextPending, IsPending
  <2>2. ASSUME NEW t \in Slots, pc'[t] \in {"pick", "insert"}
        PROVE  Cardinality(NextPending(req'[t].app, req'[t].phone)) < MAX_PENDING_PER_PHONE
    <3>1. CASE t = s  BY <1>1, <2>1, <2>2, <3>1
    <3>2. CASE t # s  BY <1>2, <2>1, <2>2, <3>2 DEF CapInv, RoomIsKept
    <3> QED BY <3>1, <3>2
  <2> QED BY <2>2 DEF RoomIsKept, NextPending, PendingFor, IsPending
<1>5. PendingCap'  BY DEF CapInv, PendingCap, PendingFor, IsPending
<1> QED BY <1>3, <1>4, <1>5 DEF CapInv

\* pg_advisory_xact_lock is granted only when no other transaction holds the
\* lock of that (app, phone).
LEMMA AcquireLockCap ==
    ASSUME TypeInv, CapInv, NEW s \in Slots, AcquireLock(s) PROVE CapInv'
<1>1. \A t \in Slots : pc[t] \in LockPcs => ~(req[t].app = req[s].app /\ req[t].phone = req[s].phone)
  BY DEF AcquireLock, LockHeld, LockPcs
<1>2. verifications' = verifications /\ GoTo(s, "count", req[s])  BY DEF AcquireLock, tables
<1>3. "count" \in LockPcs /\ "count" \notin {"pick", "insert"}  BY DEF LockPcs
<1> QED BY <1>1, <1>2, <1>3, CapKeptInside

\* The lock of a transaction in the critical section is its own.
LEMMA OwnLock ==
    ASSUME CapInv, NEW s \in Slots, pc[s] \in LockPcs
    PROVE  \A t \in Slots \ {s} : pc[t] \in LockPcs =>
               <<req[t].app, req[t].phone>> # <<req[s].app, req[s].phone>>
BY DEF CapInv, LockIsExclusive

\* A start that goes on past the count has found room.
LEMMA CountPendingCap ==
    ASSUME TypeInv, CapInv, NEW s \in Slots, CountPending(s) PROVE CapInv'
<1>1. verifications' = verifications /\ pc[s] \in LockPcs  BY DEF CountPending, tables, LockPcs
<1>2. CASE Done(s)
  <2>1. GoTo(s, "idle", NoReq) /\ "idle" \notin LockPcs  BY <1>2 DEF Done, LockPcs
  <2> QED BY <1>1, <2>1, UnchangedShrinks, CapKeptOutside
<1>3. CASE GoTo(s, "pick", req[s])
           /\ ~(Cardinality(PendingFor(req[s].app, req[s].phone)) >= MAX_PENDING_PER_PHONE)
  <2>1. Cardinality(PendingFor(req[s].app, req[s].phone)) < MAX_PENDING_PER_PHONE
    BY <1>3, PendingFinite, NumbersAssumption
  <2>2. "pick" \in LockPcs  BY DEF LockPcs
  <2> QED BY <1>1, <1>3, <2>1, <2>2, OwnLock, CapKeptInside
<1> QED BY <1>2, <1>3 DEF CountPending

\* Choosing the receiver keeps the (app, phone), hence the lock and the room.
LEMMA ChooseReceiverCap ==
    ASSUME TypeInv, CapInv, NEW s \in Slots, ChooseReceiver(s) PROVE CapInv'
<1>1. verifications' = verifications /\ pc[s] = "pick"  BY DEF ChooseReceiver, tables
<1>2. CASE Done(s)
  <2>1. GoTo(s, "idle", NoReq) /\ "idle" \notin LockPcs  BY <1>2 DEF Done, LockPcs
  <2> QED BY <1>1, <2>1, UnchangedShrinks, CapKeptOutside
<1>3. ASSUME NEW x \in Receivers, GoTo(s, "insert", [req[s] EXCEPT !.receiver = x])
      PROVE  CapInv'
  <2> DEFINE r == [req[s] EXCEPT !.receiver = x]
  <2>1. req[s] \in StartReq  BY <1>1, StartReqAt DEF StartPcs
  <2>2. r.app = req[s].app /\ r.phone = req[s].phone  BY <2>1 DEF StartReq
  <2>3. GoTo(s, "insert", r)  BY <1>3
  <2> HIDE DEF r
  <2>4. "insert" \in LockPcs /\ pc[s] \in LockPcs  BY <1>1 DEF LockPcs
  <2>5. Cardinality(PendingFor(r.app, r.phone)) < MAX_PENDING_PER_PHONE
    BY <1>1, <2>2 DEF CapInv, RoomIsKept
  <2>6. \A t \in Slots \ {s} : pc[t] \in LockPcs =>
               <<req[t].app, req[t].phone>> # <<r.app, r.phone>>
    BY <2>2, <2>4, OwnLock
  <2> QED BY <1>1, <2>3, <2>4, <2>5, <2>6, CapKeptInside
<1> QED BY <1>2, <1>3, PickReceiverType DEF ChooseReceiver

\* The insert: its own phone gains one row, of which there was room; every
\* other transaction in the critical section is of another phone.
LEMMA InsertVerificationCap ==
    ASSUME TypeInv, CapInv, NEW s \in Slots, InsertVerification(s) PROVE CapInv'
<1> DEFINE a == req[s].app
           p == req[s].phone
           id == req[s].id
<1>1. pc[s] = "insert" /\ req[s] \in StartReq
  BY StartReqAt DEF InsertVerification, StartPcs
<1>2. PICK code \in Codes : verifications' = [verifications EXCEPT ![id] =
                [app |-> a, phone |-> p, receiver |-> req[s].receiver,
                 code |-> code, status |-> "pending", expiresAt |-> req[s].expiresAt,
                 verifiedAt |-> None, matchedInboundId |-> None]]
  BY DEF InsertVerification
<1>3. a \in Apps /\ p \in Phones /\ id \in VerificationIds  BY <1>1 DEF StartReq
<1> DEFINE row == [app |-> a, phone |-> p, receiver |-> req[s].receiver,
                   code |-> code, status |-> "pending", expiresAt |-> req[s].expiresAt,
                   verifiedAt |-> None, matchedInboundId |-> None]
<1>4. verifications' = [verifications EXCEPT ![id] = row] /\ row.app = a /\ row.phone = p
  BY <1>2
<1> HIDE DEF a, p, id, row
<1>5. NextPending(a, p) \subseteq PendingFor(a, p) \cup {id}
  BY <1>3, <1>4 DEF NextPending, PendingFor, IsPending, TypeInv, DataOK
<1>6. ASSUME NEW b \in Apps, NEW q \in Phones, <<b, q>> # <<a, p>>
      PROVE  NextPending(b, q) \subseteq PendingFor(b, q)
  BY <1>3, <1>4, <1>6 DEF NextPending, PendingFor, IsPending, TypeInv, DataOK
<1>7. pc'[s] = "idle" /\ \A t \in Slots \ {s} : pc'[t] = pc[t] /\ req'[t] = req[t]
  BY DEF InsertVerification, Done, GoTo, TypeInv, SlotsOK
<1>8. LockIsExclusive'  BY <1>7 DEF LockIsExclusive, CapInv, LockPcs
<1>9. ASSUME NEW t \in Slots, pc'[t] \in {"pick", "insert"}
      PROVE  Cardinality(NextPending(req'[t].app, req'[t].phone)) < MAX_PENDING_PER_PHONE
  <2>1. t # s /\ pc'[t] = pc[t] /\ req'[t] = req[t]  BY <1>7, <1>9
  <2>2. req[t] \in StartReq  BY <1>9, <2>1, StartReqAt DEF StartPcs
  <2>3. req[t].app \in Apps /\ req[t].phone \in Phones  BY <2>2 DEF StartReq
  <2>4. <<req[t].app, req[t].phone>> # <<a, p>>
    BY <1>1, <1>9, <2>1 DEF CapInv, LockIsExclusive, LockPcs, a, p
  <2>5. NextPending(req[t].app, req[t].phone) \subseteq PendingFor(req[t].app, req[t].phone)
    BY <1>6, <2>3, <2>4
  <2>6. Cardinality(PendingFor(req[t].app, req[t].phone)) < MAX_PENDING_PER_PHONE
    BY <1>9, <2>1 DEF CapInv, RoomIsKept
  <2>7. Cardinality(NextPending(req[t].app, req[t].phone)) \in Nat
        /\ Cardinality(NextPending(req[t].app, req[t].phone))
              <= Cardinality(PendingFor(req[t].app, req[t].phone))
        /\ Cardinality(PendingFor(req[t].app, req[t].phone)) \in Nat
    BY <2>5, ShrinksCount, PendingFinite
  <2> QED BY <2>1, <2>6, <2>7, NumbersAssumption
<1>10. RoomIsKept'  BY <1>9 DEF RoomIsKept, NextPending, PendingFor, IsPending
<1>11. ASSUME NEW b \in Apps, NEW q \in Phones
       PROVE  Cardinality(NextPending(b, q)) <= MAX_PENDING_PER_PHONE
  <2>1. CASE <<b, q>> = <<a, p>>
    <3>1. Cardinality(PendingFor(a, p)) < MAX_PENDING_PER_PHONE
      BY <1>1 DEF CapInv, RoomIsKept, a, p
    <3>2. Cardinality(NextPending(a, p)) <= MAX_PENDING_PER_PHONE
      <4>1. Cardinality(NextPending(a, p)) \in Nat
            /\ Cardinality(NextPending(a, p)) <= Cardinality(PendingFor(a, p)) + 1
        BY <1>5, GrowsByOne
      <4>2. Cardinality(PendingFor(a, p)) \in Nat  BY PendingFinite
      <4> QED BY <3>1, <4>1, <4>2, NumbersAssumption
    <3> QED BY <2>1, <3>2
  <2>2. CASE <<b, q>> # <<a, p>>
    <3>1. Cardinality(PendingFor(b, q)) <= MAX_PENDING_PER_PHONE  BY DEF CapInv, PendingCap
    <3> QED BY <1>6, <2>2, <3>1, ShrinksCount, PendingFinite, NumbersAssumption
  <2> QED BY <2>1, <2>2
<1>12. PendingCap'  BY <1>11 DEF PendingCap, NextPending, PendingFor, IsPending
<1> QED BY <1>8, <1>10, <1>12 DEF CapInv

-----------------------------------------------------------------------------

\* Every other step of a request leaves the critical section, or was never
\* in it, and leaves the verifications alone.
Quiet(s) ==
    /\ verifications' = verifications
    /\ \E label, r : GoTo(s, label, r) /\ label \notin LockPcs

\* Quiet steps keep the cap and the room that others have counted on.
LEMMA QuietCap ==
    ASSUME TypeInv, CapInv, NEW s \in Slots, Quiet(s) PROVE CapInv'
BY UnchangedShrinks, CapKeptOutside DEF Quiet

\* A request that ends without writing a verification is quiet.
LEMMA DoneQuiet == ASSUME NEW s, Done(s), verifications' = verifications PROVE Quiet(s)
BY DEF Done, Quiet, LockPcs

\* No request begins inside the critical section of startVerification.
LEMMA RequestQuiet == ASSUME NEW s \in Slots, Request(s) PROVE Quiet(s)
<1>1. ASSUME NEW a \in Apps, NEW p \in Phones, NEW o \in Operators \cup {None},
             StartVerification(s, a, p, o) PROVE Quiet(s)
  BY <1>1 DEF StartVerification, Quiet, LockPcs, tables
<1>2. ASSUME NEW v \in VerificationIds, ReadVerification(s, v) PROVE Quiet(s)
  BY <1>2 DEF ReadVerification, Quiet, LockPcs, tables
<1>3. ASSUME NEW v \in VerificationIds, CancelVerification(s, v) PROVE Quiet(s)
  BY <1>3 DEF CancelVerification, BeginTransition, Quiet, LockPcs, tables
<1>4. ASSUME NEW r \in Receivers, ReceiveInbound(s, r) PROVE Quiet(s)
  BY <1>4 DEF ReceiveInbound, Quiet, LockPcs, tables
<1>5. ASSUME NEW a \in Apps, NEW r \in Receivers, NEW p \in Phones, StartBinding(s, a, r, p)
      PROVE Quiet(s)
  BY <1>5 DEF StartBinding, Quiet, LockPcs, tables
<1>6. ASSUME NEW a \in Apps, CheckEndpointCap(s, a) PROVE Quiet(s)
  BY <1>6 DEF CheckEndpointCap, Quiet, LockPcs, tables
<1> QED BY <1>1, <1>2, <1>3, <1>4, <1>5, <1>6 DEF Request

\* processInbound and consumeBindNonce never enter that critical section.
LEMMA InboundQuiet ==
    ASSUME NEW s \in Slots,
           \/ \E key \in Keys : \/ \E from \in Phones, body \in Bodies : StoreInbound(s, key, from, body)
                                \/ RefuseDuplicate(s, key)
           \/ ClaimVerification(s) \/ NoMatch(s)
           \/ ConsumeBindNonce(s) \/ RefuseBindNonce(s) \/ LinkBinding(s)
    PROVE  Quiet(s)
<1>1. ASSUME NEW key \in Keys, NEW from \in Phones, NEW body \in Bodies,
             StoreInbound(s, key, from, body) PROVE Quiet(s)
  BY <1>1 DEF StoreInbound, Done, Quiet, LockPcs
<1>2. ASSUME NEW key \in Keys, RefuseDuplicate(s, key) PROVE Quiet(s)
  BY <1>2, DoneQuiet DEF RefuseDuplicate, tables
<1>3. CASE ClaimVerification(s)
  BY <1>3 DEF ClaimVerification, BeginTransition, Quiet, LockPcs, tables
<1>4. CASE NoMatch(s)  BY <1>4, DoneQuiet DEF NoMatch
<1>5. CASE ConsumeBindNonce(s)
  <2>1. verifications' = verifications  BY <1>5 DEF ConsumeBindNonce
  <2>2. Done(s) \/ \E r : GoTo(s, "link", r)  BY <1>5, Zenon DEF ConsumeBindNonce
  <2> QED BY <2>1, <2>2, DoneQuiet DEF Quiet, LockPcs
<1>6. CASE RefuseBindNonce(s)  BY <1>6, DoneQuiet DEF RefuseBindNonce, tables
<1>7. CASE LinkBinding(s)  BY <1>7, DoneQuiet DEF LinkBinding
<1> QED BY <1>1, <1>2, <1>3, <1>4, <1>5, <1>6, <1>7

\* Nor do the reads, the ceremonies, the endpoints or the settling transactions.
LEMMA OtherQuiet ==
    ASSUME NEW s \in Slots,
           \/ CodeCollision(s) \/ AnswerRead(s) \/ LazyExpire(s)
           \/ CheckUnbound(s) \/ InsertBinding(s) \/ InsertEndpoint(s)
           \/ SelectEndpoints(s) \/ AbortTransition(s) \/ Fail(s)
    PROVE  Quiet(s)
<1>1. CASE CodeCollision(s)  BY <1>1 DEF CodeCollision, Done, Quiet, LockPcs, tables
<1>2. CASE AnswerRead(s)  BY <1>2 DEF AnswerRead, Done, Quiet, LockPcs, tables
<1>3. CASE LazyExpire(s)  BY <1>3 DEF LazyExpire, BeginTransition, Done, Quiet, LockPcs, tables
<1>4. CASE CheckUnbound(s)  BY <1>4 DEF CheckUnbound, Done, Quiet, LockPcs, tables
<1>5. CASE InsertBinding(s)  BY <1>5, DoneQuiet DEF InsertBinding
<1>6. CASE InsertEndpoint(s)  BY <1>6, DoneQuiet DEF InsertEndpoint
<1>7. CASE SelectEndpoints(s)  BY <1>7 DEF SelectEndpoints, Quiet, LockPcs, tables
<1>8. CASE AbortTransition(s)  BY <1>8, DoneQuiet DEF AbortTransition, tables
<1>9. CASE Fail(s)  BY <1>9, DoneQuiet DEF Fail, tables
<1> QED BY <1>1, <1>2, <1>3, <1>4, <1>5, <1>6, <1>7, <1>8, <1>9

\* A commit settles a row, so it can only make room.
LEMMA CommitTransitionCap ==
    ASSUME TypeInv, CapInv, NEW s \in Slots, CommitTransition(s) PROVE CapInv'
<1>1. GoTo(s, "idle", NoReq) /\ "idle" \notin LockPcs  BY DEF CommitTransition, Done, LockPcs
<1> QED BY <1>1, CommitShrinks, CapKeptOutside

\* The empty database is under every cap.
LEMMA CapInit == Init => CapInv
<1> SUFFICES ASSUME Init PROVE CapInv  OBVIOUS
<1>1. LockIsExclusive /\ RoomIsKept  BY DEF Init, InitRest, LockIsExclusive, RoomIsKept, LockPcs
<1>2. \A a, p : PendingFor(a, p) = {}  BY DEF Init, InitRest, PendingFor, IsPending, NoRow
<1>3. PendingCap  BY <1>2, FS_EmptySet, NumbersAssumption DEF PendingCap
<1> QED BY <1>1, <1>3 DEF CapInv

\* Every step keeps CapInv.
LEMMA CapStep == TypeInv /\ CapInv /\ [Next]_vars => CapInv'
<1> SUFFICES ASSUME TypeInv, CapInv, [Next]_vars PROVE CapInv'  OBVIOUS
<1>1. ASSUME NEW s \in Slots, Continue(s) PROVE CapInv'
  BY <1>1, AcquireLockCap, CountPendingCap, ChooseReceiverCap, InsertVerificationCap,
     CommitTransitionCap, InboundQuiet, OtherQuiet, QuietCap DEF Continue
<1>2. ASSUME NEW s \in Slots, Request(s) \/ Fail(s) PROVE CapInv'
  BY <1>2, RequestQuiet, OtherQuiet, QuietCap
<1>3. ASSUME UNCHANGED <<pc, req, verifications>> PROVE CapInv'
  BY <1>3, CapKeptUnchanged
<1>4. ASSUME NEW r \in Receivers, Heartbeat(r) \/ \E flag \in BOOLEAN : SetReceiverEnabled(r, flag)
      PROVE CapInv'
  BY <1>3, <1>4 DEF Heartbeat, SetReceiverEnabled
<1>5. ASSUME NEW b \in BindingIds, RevokeBinding(b) PROVE CapInv'
  BY <1>3, <1>5 DEF RevokeBinding
<1>6. ASSUME NEW e \in EndpointIds, DeleteEndpoint(e) PROVE CapInv'
  BY <1>3, <1>6 DEF DeleteEndpoint
<1>7. CASE Tick  BY <1>3, <1>7 DEF Tick, tables
<1>8. CASE UNCHANGED vars  BY <1>3, <1>8 DEF vars, tables
<1> QED BY <1>1, <1>2, <1>4, <1>5, <1>6, <1>7, <1>8 DEF Next

\* However many starts of one phone run at once, on however many processes,
\* and wherever they fail: an (app, phone) never has more pending
\* verifications than MAX_PENDING_PER_PHONE.
THEOREM PendingCapHolds == Spec => []PendingCap
<1>1. CapInv => PendingCap  BY DEF CapInv
<1> QED BY <1>1, TypeInit, TypeStep, CapInit, CapStep, PTL DEF Spec

-----------------------------------------------------------------------------
(* A verification is settled once, with one event.  The three settling     *)
(* transactions read a pending row, and write it and its event two         *)
(* statements later.  The proof: the row lock is exclusive, so the row is  *)
(* still pending when the transaction commits, and a start inserts under   *)
(* an id that no row, no event and no other start has.                     *)

TxPcs == {"emit", "commit"}

SettleInv == IdsAreFresh /\ RowLockIsExclusive /\ EventMatchesStatus

\* What a start in flight, or a settling transaction, must find so that the
\* step which makes it one keeps SettleInv.
FreshFor(s, r) ==
    /\ ~Exists(verifications[r.id])
    /\ \A t \in Slots \ {s} : pc[t] \in StartPcs => req[t].id # r.id

LockedFor(s, r) ==
    /\ IsPending(r.verification)
    /\ \A t \in Slots \ {s} : pc[t] \in TxPcs => req[t].verification # r.verification

\* Steps that change no verification and log no event.
LEMMA SettleKept ==
    ASSUME TypeInv, SettleInv, UNCHANGED <<verifications, events>>,
           NEW s \in Slots, NEW label, NEW r, GoTo(s, label, r),
           label \in StartPcs => FreshFor(s, r),
           label \in TxPcs => LockedFor(s, r)
    PROVE  SettleInv'
<1>1. pc'[s] = label /\ req'[s] = r  BY DEF GoTo, TypeInv, SlotsOK
<1>2. \A t \in Slots \ {s} : pc'[t] = pc[t] /\ req'[t] = req[t]  BY DEF GoTo, TypeInv, SlotsOK
<1>3. IdsAreFresh'
  <2>1. ASSUME NEW t \in Slots, pc'[t] \in StartPcs
        PROVE  /\ ~Exists(verifications[req'[t].id])
               /\ \A u \in Slots : t # u /\ pc'[u] \in StartPcs => req'[u].id # req'[t].id
    <3>1. CASE t = s  BY <1>1, <1>2, <2>1, <3>1 DEF FreshFor
    <3>2. CASE t # s
      <4>1. pc[t] \in StartPcs /\ req'[t] = req[t]  BY <1>2, <2>1, <3>2
      <4>2. /\ ~Exists(verifications[req[t].id])
            /\ \A u \in Slots : t # u /\ pc[u] \in StartPcs => req[u].id # req[t].id
        BY <4>1 DEF SettleInv, IdsAreFresh
      <4>3. pc'[s] \in StartPcs => req'[s].id # req[t].id
        BY <1>1, <3>2, <4>1 DEF FreshFor
      <4> QED BY <1>2, <3>2, <4>1, <4>2, <4>3
    <3> QED BY <3>1, <3>2
  <2> QED BY <2>1 DEF IdsAreFresh, Exists
<1>4. RowLockIsExclusive'
  <2>1. ASSUME NEW t \in Slots, pc'[t] \in TxPcs
        PROVE  /\ IsPending(req'[t].verification)
               /\ \A u \in Slots : t # u /\ pc'[u] \in TxPcs =>
                     req'[u].verification # req'[t].verification
    <3>1. CASE t = s  BY <1>1, <1>2, <2>1, <3>1 DEF LockedFor
    <3>2. CASE t # s
      <4>1. pc[t] \in TxPcs /\ req'[t] = req[t]  BY <1>2, <2>1, <3>2
      <4>2. /\ IsPending(req[t].verification)
            /\ \A u \in Slots : t # u /\ pc[u] \in TxPcs => req[u].verification # req[t].verification
        BY <4>1 DEF SettleInv, RowLockIsExclusive, TxPcs
      <4>3. pc'[s] \in TxPcs => req'[s].verification # req[t].verification
        BY <1>1, <3>2, <4>1 DEF LockedFor
      <4> QED BY <1>2, <3>2, <4>1, <4>2, <4>3
    <3> QED BY <3>1, <3>2
  <2> QED BY <2>1 DEF RowLockIsExclusive, IsPending, TxPcs
<1>5. EventMatchesStatus'  BY DEF EventMatchesStatus, SettleInv
<1> QED BY <1>3, <1>4, <1>5 DEF SettleInv

\* Steps that change neither the slots nor the verifications nor the events.
LEMMA SettleKeptUnchanged ==
    ASSUME SettleInv, UNCHANGED <<pc, req, verifications, events>> PROVE SettleInv'
BY DEF SettleInv, IdsAreFresh, RowLockIsExclusive, EventMatchesStatus, IsPending, Exists

\* A start in flight keeps its id.
LEMMA StartKept ==
    ASSUME TypeInv, SettleInv, UNCHANGED <<verifications, events>>, NEW s \in Slots,
           pc[s] \in StartPcs, NEW label \in StartPcs, NEW r, r.id = req[s].id, GoTo(s, label, r)
    PROVE  SettleInv'
<1>1. FreshFor(s, r)  BY DEF FreshFor, SettleInv, IdsAreFresh
<1>2. label \notin TxPcs  BY DEF StartPcs, TxPcs
<1> QED BY <1>1, <1>2, SettleKept

\* Steps that make a slot neither a start nor a settling transaction.
Calm(s) ==
    /\ UNCHANGED <<verifications, events>>
    /\ \E label, r : GoTo(s, label, r) /\ label \notin StartPcs \cup TxPcs

\* Calm steps keep SettleInv.
LEMMA CalmKept ==
    ASSUME TypeInv, SettleInv, NEW s \in Slots, Calm(s) PROVE SettleInv'
BY SettleKept DEF Calm

\* A request that ends without writing a verification or an event is calm.
LEMMA DoneCalm ==
    ASSUME NEW s, Done(s), UNCHANGED <<verifications, events>> PROVE Calm(s)
BY DEF Done, Calm, StartPcs, TxPcs

-----------------------------------------------------------------------------
(* Starts                                                                  *)

\* newId gives a start an id that no row and no other start has.
LEMMA StartVerificationSettle ==
    ASSUME TypeInv, SettleInv, NEW s \in Slots, NEW a, NEW p, NEW o, StartVerification(s, a, p, o)
    PROVE  SettleInv'
<1>1. PICK v \in FreshIds :
          GoTo(s, "lock", [id |-> v, app |-> a, phone |-> p, operator |-> o,
                           expiresAt |-> clock + VERIFICATION_TTL_SECONDS,
                           txNow |-> clock, tries |-> 0, receiver |-> None])
  BY DEF StartVerification
<1> DEFINE r == [id |-> v, app |-> a, phone |-> p, operator |-> o,
                 expiresAt |-> clock + VERIFICATION_TTL_SECONDS,
                 txNow |-> clock, tries |-> 0, receiver |-> None]
<1>2. r.id = v /\ GoTo(s, "lock", r)  BY <1>1
<1> HIDE DEF r
<1>3. FreshFor(s, r)  BY <1>1, <1>2 DEF FreshFor, FreshIds
<1>4. UNCHANGED <<verifications, events>>  BY DEF StartVerification, tables
<1>5. "lock" \notin TxPcs  BY DEF TxPcs
<1> QED BY <1>2, <1>3, <1>4, <1>5, SettleKept

\* Waiting for the advisory lock keeps the id.
LEMMA AcquireLockSettle ==
    ASSUME TypeInv, SettleInv, NEW s \in Slots, AcquireLock(s) PROVE SettleInv'
<1>1. pc[s] \in StartPcs /\ "count" \in StartPcs  BY DEF AcquireLock, StartPcs
<1> QED BY <1>1, StartKept DEF AcquireLock, tables

\* The count keeps the id, or ends the start.
LEMMA CountPendingSettle ==
    ASSUME TypeInv, SettleInv, NEW s \in Slots, CountPending(s) PROVE SettleInv'
<1>1. pc[s] \in StartPcs /\ "pick" \in StartPcs  BY DEF CountPending, StartPcs
<1>2. UNCHANGED <<verifications, events>>  BY DEF CountPending, tables
<1>3. CASE Done(s)  BY <1>2, <1>3, DoneCalm, CalmKept
<1>4. CASE GoTo(s, "pick", req[s])  BY <1>1, <1>2, <1>4, StartKept
<1> QED BY <1>3, <1>4 DEF CountPending

\* Choosing the receiver keeps the id, or ends the start.
LEMMA ChooseReceiverSettle ==
    ASSUME TypeInv, SettleInv, NEW s \in Slots, ChooseReceiver(s) PROVE SettleInv'
<1>1. pc[s] \in StartPcs /\ "insert" \in StartPcs  BY DEF ChooseReceiver, StartPcs
<1>2. UNCHANGED <<verifications, events>>  BY DEF ChooseReceiver, tables
<1>3. CASE Done(s)  BY <1>2, <1>3, DoneCalm, CalmKept
<1>4. ASSUME NEW x, GoTo(s, "insert", [req[s] EXCEPT !.receiver = x]) PROVE SettleInv'
  <2>1. req[s] \in StartReq  BY <1>1, StartReqAt
  <2>2. [req[s] EXCEPT !.receiver = x].id = req[s].id  BY <2>1 DEF StartReq
  <2> QED BY <1>1, <1>2, <1>4, <2>2, StartKept
<1> QED BY <1>3, <1>4 DEF ChooseReceiver

\* The retry after a code collision keeps the id, or ends the start.
LEMMA CodeCollisionSettle ==
    ASSUME TypeInv, SettleInv, NEW s \in Slots, CodeCollision(s) PROVE SettleInv'
<1>1. pc[s] \in StartPcs /\ "lock" \in StartPcs  BY DEF CodeCollision, StartPcs
<1>2. UNCHANGED <<verifications, events>>  BY DEF CodeCollision, tables
<1>3. CASE Done(s)  BY <1>2, <1>3, DoneCalm, CalmKept
<1>4. CASE GoTo(s, "lock", Retry(req[s]))
  <2>1. ASSUME NEW r \in StartReq PROVE Retry(r).id = r.id  BY DEF Retry, StartReq
  <2>2. Retry(req[s]).id = req[s].id  BY <1>1, <2>1, StartReqAt
  <2> QED BY <1>1, <1>2, <1>4, <2>2, StartKept
<1> QED BY <1>3, <1>4 DEF CodeCollision

\* The insert: a fresh id becomes pending and has no event; it is the id of
\* no other start, and the row of no settling transaction, for those exist.
LEMMA InsertVerificationSettle ==
    ASSUME TypeInv, SettleInv, NEW s \in Slots, InsertVerification(s) PROVE SettleInv'
<1> DEFINE id == req[s].id
<1>1. pc[s] \in StartPcs /\ req[s] \in StartReq
  BY StartReqAt DEF InsertVerification, StartPcs
<1>2. PICK row : verifications' = [verifications EXCEPT ![id] = row] /\ row.status = "pending"
  <2>1. PICK code \in Codes : verifications' = [verifications EXCEPT ![id] =
                [app |-> req[s].app, phone |-> req[s].phone, receiver |-> req[s].receiver,
                 code |-> code, status |-> "pending", expiresAt |-> req[s].expiresAt,
                 verifiedAt |-> None, matchedInboundId |-> None]]
    BY DEF InsertVerification
  <2> DEFINE x == [app |-> req[s].app, phone |-> req[s].phone, receiver |-> req[s].receiver,
                   code |-> code, status |-> "pending", expiresAt |-> req[s].expiresAt,
                   verifiedAt |-> None, matchedInboundId |-> None]
  <2>2. verifications' = [verifications EXCEPT ![id] = x] /\ x.status = "pending"  BY <2>1
  <2> HIDE DEF x
  <2> QED BY <2>2
<1>3. id \in VerificationIds  BY <1>1 DEF StartReq
<1>4. ~Exists(verifications[id])  BY <1>1 DEF SettleInv, IdsAreFresh
<1>5. \A t \in Slots \ {s} : pc[t] \in StartPcs => req[t].id # id
  BY <1>1 DEF SettleInv, IdsAreFresh
<1>6. pc'[s] = "idle" /\ \A t \in Slots \ {s} : pc'[t] = pc[t] /\ req'[t] = req[t]
  BY DEF InsertVerification, Done, GoTo, TypeInv, SlotsOK
<1>7. events' = events  BY DEF InsertVerification
<1> HIDE DEF id
<1>8. \A v \in VerificationIds : v # id => verifications'[v] = verifications[v]
  BY <1>2 DEF TypeInv, DataOK
<1>9. verifications'[id].status = "pending"  BY <1>2, <1>3 DEF TypeInv, DataOK
<1>10. ASSUME NEW t \in Slots, pc'[t] \in StartPcs
       PROVE  /\ ~Exists(verifications'[req'[t].id])
              /\ \A u \in Slots : t # u /\ pc'[u] \in StartPcs => req'[u].id # req'[t].id
  <2>1. t # s /\ pc[t] \in StartPcs /\ req'[t] = req[t]  BY <1>6, <1>10 DEF StartPcs
  <2>2. req[t].id \in VerificationIds  BY <2>1, StartReqAt DEF StartReq
  <2>3. /\ ~Exists(verifications[req[t].id])
        /\ \A u \in Slots : t # u /\ pc[u] \in StartPcs => req[u].id # req[t].id
    BY <2>1 DEF SettleInv, IdsAreFresh
  <2>4. verifications'[req[t].id] = verifications[req[t].id]  BY <1>5, <1>8, <2>1, <2>2
  <2>5. \A u \in Slots : pc'[u] \in StartPcs => pc[u] \in StartPcs /\ req'[u] = req[u]
    BY <1>6 DEF StartPcs
  <2> QED BY <2>1, <2>3, <2>4, <2>5
<1>11. IdsAreFresh'  BY <1>10 DEF IdsAreFresh, Exists
<1>12. ASSUME NEW t \in Slots, pc'[t] \in TxPcs
       PROVE  /\ verifications'[req'[t].verification].status = "pending"
              /\ \A u \in Slots : t # u /\ pc'[u] \in TxPcs =>
                    req'[u].verification # req'[t].verification
  <2>1. t # s /\ pc[t] \in TxPcs /\ req'[t] = req[t]  BY <1>6, <1>12 DEF TxPcs
  <2>2. req[t].verification \in VerificationIds
    BY <2>1 DEF TypeInv, SlotsOK, ReqTypeOK, TransitionReq, TxPcs
  <2>3. /\ IsPending(req[t].verification)
        /\ \A u \in Slots : t # u /\ pc[u] \in TxPcs => req[u].verification # req[t].verification
    BY <2>1 DEF SettleInv, RowLockIsExclusive, TxPcs
  <2>4. req[t].verification # id  BY <1>4, <2>3 DEF IsPending, Exists
  <2>5. \A u \in Slots : pc'[u] \in TxPcs => pc[u] \in TxPcs /\ req'[u] = req[u]
    BY <1>6 DEF TxPcs
  <2> QED BY <1>8, <2>1, <2>2, <2>3, <2>4, <2>5 DEF IsPending
<1>13. RowLockIsExclusive'  BY <1>12 DEF RowLockIsExclusive, IsPending, TxPcs
<1>14. ASSUME NEW v \in VerificationIds
       PROVE  events'[v] = IF verifications'[v].status \in Terminal
                             THEN <<verifications'[v].status>> ELSE <<>>
  <2>1. events[v] = IF verifications[v].status \in Terminal
                      THEN <<verifications[v].status>> ELSE <<>>
    BY DEF SettleInv, EventMatchesStatus
  <2>2. CASE v = id  BY <1>4, <1>7, <1>9, <2>1, <2>2 DEF Exists, Terminal
  <2>3. CASE v # id  BY <1>7, <1>8, <2>1, <2>3
  <2> QED BY <2>2, <2>3
<1>15. EventMatchesStatus'  BY <1>14 DEF EventMatchesStatus
<1> QED BY <1>11, <1>13, <1>15 DEF SettleInv

-----------------------------------------------------------------------------
(* Settling transactions                                                   *)

\* A transaction begins with an UPDATE of a pending row that nobody locks.
LEMMA BeginTransitionSettle ==
    ASSUME TypeInv, SettleInv, UNCHANGED <<verifications, events>>, NEW s \in Slots,
           NEW v, NEW outcome, NEW sms, NEW now,
           IsPending(v), ~RowLocked(v), BeginTransition(s, v, outcome, sms, now)
    PROVE  SettleInv'
<1> DEFINE r == [verification |-> v, outcome |-> outcome, sms |-> sms,
                 now |-> now, targets |-> {}]
<1>1. GoTo(s, "emit", r) /\ r.verification = v  BY DEF BeginTransition
<1> HIDE DEF r
<1>2. LockedFor(s, r)  BY <1>1 DEF LockedFor, RowLocked, TxPcs
<1>3. "emit" \notin StartPcs  BY DEF StartPcs
<1> QED BY <1>1, <1>2, <1>3, SettleKept

\* cancelVerification, lazyExpireAndEmit and the claim begin such a one.
LEMMA BeginsSettle ==
    ASSUME TypeInv, SettleInv, NEW s \in Slots,
           \/ \E v \in VerificationIds : CancelVerification(s, v)
           \/ LazyExpire(s)
           \/ ClaimVerification(s)
    PROVE  SettleInv'
<1>1. ASSUME NEW v \in VerificationIds, CancelVerification(s, v) PROVE SettleInv'
  BY <1>1, BeginTransitionSettle DEF CancelVerification, tables
<1>2. CASE LazyExpire(s)
  <2>1. UNCHANGED <<verifications, events>>  BY <1>2 DEF LazyExpire, tables
  <2>2. CASE Done(s)  BY <2>1, <2>2, DoneCalm, CalmKept
  <2>3. CASE ~Done(s)
    <3>1. /\ IsPending(req[s].verification) /\ ~RowLocked(req[s].verification)
          /\ BeginTransition(s, req[s].verification, "expired", None, None)
      BY <1>2, <2>3 DEF LazyExpire
    <3> QED BY <2>1, <3>1, BeginTransitionSettle
  <2> QED BY <2>2, <2>3
<1>3. CASE ClaimVerification(s)
  <2>1. UNCHANGED <<verifications, events>>  BY <1>3 DEF ClaimVerification, tables
  <2>2. PICK now, v : /\ v \in Claimable(req[s].sms, now)
                      /\ BeginTransition(s, v, "verified", req[s].sms, now)
    BY <1>3 DEF ClaimVerification
  <2>3. IsPending(v) /\ ~RowLocked(v)  BY <2>2 DEF Claimable
  <2> QED BY <2>1, <2>2, <2>3, BeginTransitionSettle
<1> QED BY <1>1, <1>2, <1>3

\* Reading the endpoints keeps the row the transaction has locked.
LEMMA SelectEndpointsSettle ==
    ASSUME TypeInv, SettleInv, NEW s \in Slots, SelectEndpoints(s) PROVE SettleInv'
<1>1. req[s] \in TransitionReq /\ pc[s] \in TxPcs
  BY DEF SelectEndpoints, TypeInv, SlotsOK, ReqTypeOK, TxPcs
<1>2. PICK x : GoTo(s, "commit", [req[s] EXCEPT !.targets = x])  BY DEF SelectEndpoints
<1> DEFINE r == [req[s] EXCEPT !.targets = x]
<1>3. r.verification = req[s].verification  BY <1>1 DEF TransitionReq
<1>4. GoTo(s, "commit", r)  BY <1>2
<1> HIDE DEF r
<1>5. LockedFor(s, r)  BY <1>1, <1>3 DEF LockedFor, SettleInv, RowLockIsExclusive, TxPcs
<1>6. UNCHANGED <<verifications, events>> /\ "commit" \notin StartPcs
  BY DEF SelectEndpoints, tables, StartPcs
<1> QED BY <1>4, <1>5, <1>6, SettleKept

\* The columns the settling UPDATE sets, and those it leaves alone.
LEMMA SettledColumns ==
    ASSUME NEW row \in VerificationRow, NEW r \in TransitionReq
    PROVE  LET new == Settled(row, r)
           IN  /\ new.app = row.app /\ new.phone = row.phone /\ new.receiver = row.receiver
               /\ new.code = row.code /\ new.expiresAt = row.expiresAt
               /\ r.outcome = "verified" => new.verifiedAt = r.now /\ new.matchedInboundId = r.sms
               /\ r.outcome # "verified" => new.matchedInboundId = row.matchedInboundId
<1>1. CASE r.outcome = "verified"
  <2>1. \A y, z :
           LET new == [row EXCEPT !.status = "verified", !.verifiedAt = y, !.matchedInboundId = z]
           IN  /\ new.app = row.app /\ new.phone = row.phone /\ new.receiver = row.receiver
               /\ new.code = row.code /\ new.expiresAt = row.expiresAt
               /\ new.verifiedAt = y /\ new.matchedInboundId = z
    BY DEF VerificationRow
  <2> QED BY <1>1, <2>1 DEF Settled
<1>2. CASE r.outcome # "verified"
  <2>1. \A x :
           LET new == [row EXCEPT !.status = x]
           IN  /\ new.app = row.app /\ new.phone = row.phone /\ new.receiver = row.receiver
               /\ new.code = row.code /\ new.expiresAt = row.expiresAt
               /\ new.matchedInboundId = row.matchedInboundId
    BY DEF VerificationRow
  <2> QED BY <1>2, <2>1 DEF Settled
<1> QED BY <1>1, <1>2

\* What a commit does to the verifications, to their events and to the slots.
LEMMA CommitFacts ==
    ASSUME TypeInv, SettleInv, NEW s \in Slots, CommitTransition(s)
    PROVE  \E v \in VerificationIds, outcome \in Terminal :
              /\ pc[s] \in TxPcs /\ req[s].verification = v
              /\ IsPending(v)
              /\ verifications'[v].status = outcome
              /\ verifications'[v].code = verifications[v].code
              /\ verifications'[v].receiver = verifications[v].receiver
              /\ verifications'[v].expiresAt = verifications[v].expiresAt
              /\ events'[v] = <<outcome>>
              /\ \A w \in VerificationIds \ {v} : verifications'[w] = verifications[w]
                                                  /\ events'[w] = events[w]
<1> DEFINE r == req[s]
           v == r.verification
           row == Settled(verifications[v], r)
<1>1. pc[s] \in TxPcs /\ r \in TransitionReq
      /\ (r.outcome = "verified" => r.sms \in SmsIds /\ r.now \in Nat)
  BY DEF CommitTransition, TypeInv, SlotsOK, ReqTypeOK, TxPcs
<1>2. v \in VerificationIds /\ r.outcome \in Terminal  BY <1>1 DEF TransitionReq
<1>3. IsPending(v)  BY <1>1 DEF SettleInv, RowLockIsExclusive, TxPcs
<1>4. verifications[v] \in VerificationRow
  BY <1>2, <1>3 DEF TypeInv, DataOK, IsPending, NoRow
<1>5. row.status = r.outcome  BY <1>1, <1>4, SettledType
<1>6. row.code = verifications[v].code /\ row.receiver = verifications[v].receiver
      /\ row.expiresAt = verifications[v].expiresAt
  BY <1>1, <1>4, SettledColumns
<1>7. verifications' = [verifications EXCEPT ![v] = row]
      /\ events' = [events EXCEPT ![v] = Append(events[v], r.outcome)]
  BY DEF CommitTransition
<1>8. events[v] = <<>>
  BY <1>2, <1>3 DEF SettleInv, EventMatchesStatus, IsPending, Terminal
<1>9. Append(events[v], r.outcome) = <<r.outcome>>  BY <1>2, <1>8
<1>10. req[s].verification = v  OBVIOUS
<1> DEFINE o == r.outcome
<1>11. o \in Terminal /\ row.status = o /\ events' = [events EXCEPT ![v] = <<o>>]
  BY <1>2, <1>5, <1>7, <1>9
<1> HIDE DEF row, v, r, o
<1>12. verifications'[v] = row /\ events'[v] = <<o>>
  BY <1>2, <1>7, <1>11 DEF TypeInv, DataOK
<1>13. \A w \in VerificationIds \ {v} : verifications'[w] = verifications[w] /\ events'[w] = events[w]
  BY <1>7, <1>11 DEF TypeInv, DataOK
<1> QED BY <1>1, <1>2, <1>3, <1>6, <1>10, <1>11, <1>12, <1>13

\* The commit: the row was pending and had no event; now it has the outcome
\* and one event, and no other transaction has it locked.
LEMMA CommitTransitionSettle ==
    ASSUME TypeInv, SettleInv, NEW s \in Slots, CommitTransition(s) PROVE SettleInv'
<1>1. PICK v \in VerificationIds, outcome \in Terminal :
              /\ pc[s] \in TxPcs /\ req[s].verification = v
              /\ IsPending(v)
              /\ verifications'[v].status = outcome
              /\ events'[v] = <<outcome>>
              /\ \A w \in VerificationIds \ {v} : verifications'[w] = verifications[w]
                                                  /\ events'[w] = events[w]
  BY CommitFacts
<1>2. pc'[s] = "idle" /\ \A t \in Slots \ {s} : pc'[t] = pc[t] /\ req'[t] = req[t]
  BY DEF CommitTransition, Done, GoTo, TypeInv, SlotsOK
<1>3. ASSUME NEW t \in Slots, pc'[t] \in StartPcs
      PROVE  /\ ~Exists(verifications'[req'[t].id])
             /\ \A u \in Slots : t # u /\ pc'[u] \in StartPcs => req'[u].id # req'[t].id
  <2>1. t # s /\ pc[t] \in StartPcs /\ req'[t] = req[t]  BY <1>2, <1>3 DEF StartPcs
  <2>2. req[t].id \in VerificationIds  BY <2>1, StartReqAt DEF StartReq
  <2>3. /\ ~Exists(verifications[req[t].id])
        /\ \A u \in Slots : t # u /\ pc[u] \in StartPcs => req[u].id # req[t].id
    BY <2>1 DEF SettleInv, IdsAreFresh
  <2>4. req[t].id # v  BY <1>1, <2>3 DEF Exists, IsPending
  <2>5. verifications'[req[t].id] = verifications[req[t].id]  BY <1>1, <2>2, <2>4
  <2>6. \A u \in Slots : pc'[u] \in StartPcs => pc[u] \in StartPcs /\ req'[u] = req[u]
    BY <1>2 DEF StartPcs
  <2> QED BY <2>1, <2>3, <2>5, <2>6
<1>4. IdsAreFresh'  BY <1>3 DEF IdsAreFresh, Exists
<1>5. ASSUME NEW t \in Slots, pc'[t] \in TxPcs
      PROVE  /\ verifications'[req'[t].verification].status = "pending"
             /\ \A u \in Slots : t # u /\ pc'[u] \in TxPcs =>
                   req'[u].verification # req'[t].verification
  <2>1. t # s /\ pc[t] \in TxPcs /\ req'[t] = req[t]  BY <1>2, <1>5 DEF TxPcs
  <2>2. req[t].verification \in VerificationIds
    BY <2>1 DEF TypeInv, SlotsOK, ReqTypeOK, TransitionReq, TxPcs
  <2>3. /\ IsPending(req[t].verification)
        /\ \A u \in Slots : t # u /\ pc[u] \in TxPcs => req[u].verification # req[t].verification
    BY <2>1 DEF SettleInv, RowLockIsExclusive, TxPcs
  <2>4. req[t].verification # v  BY <1>1, <2>1, <2>3
  <2>5. \A u \in Slots : pc'[u] \in TxPcs => pc[u] \in TxPcs /\ req'[u] = req[u]
    BY <1>2 DEF TxPcs
  <2> QED BY <1>1, <2>1, <2>2, <2>3, <2>4, <2>5 DEF IsPending
<1>6. RowLockIsExclusive'  BY <1>5 DEF RowLockIsExclusive, IsPending, TxPcs
<1>7. EventMatchesStatus'  BY <1>1 DEF EventMatchesStatus, SettleInv
<1> QED BY <1>4, <1>6, <1>7 DEF SettleInv

-----------------------------------------------------------------------------
(* Every other step                                                        *)

\* The other requests begin neither a start nor a settling transaction.
LEMMA RequestCalm ==
    ASSUME NEW s \in Slots,
           \/ \E v \in VerificationIds : ReadVerification(s, v)
           \/ \E r \in Receivers : ReceiveInbound(s, r)
           \/ \E a \in Apps, r \in Receivers, p \in Phones : StartBinding(s, a, r, p)
           \/ \E a \in Apps : CheckEndpointCap(s, a)
    PROVE  Calm(s)
<1>1. ASSUME NEW v \in VerificationIds, ReadVerification(s, v) PROVE Calm(s)
  BY <1>1 DEF ReadVerification, Calm, StartPcs, TxPcs, tables
<1>2. ASSUME NEW r \in Receivers, ReceiveInbound(s, r) PROVE Calm(s)
  BY <1>2 DEF ReceiveInbound, Calm, StartPcs, TxPcs, tables
<1>3. ASSUME NEW a \in Apps, NEW r \in Receivers, NEW p \in Phones, StartBinding(s, a, r, p)
      PROVE Calm(s)
  BY <1>3 DEF StartBinding, Calm, StartPcs, TxPcs, tables
<1>4. ASSUME NEW a \in Apps, CheckEndpointCap(s, a) PROVE Calm(s)
  BY <1>4 DEF CheckEndpointCap, Calm, StartPcs, TxPcs, tables
<1> QED BY <1>1, <1>2, <1>3, <1>4

\* The steps of processInbound other than the claim.
LEMMA InboundCalm ==
    ASSUME NEW s \in Slots,
           \/ \E key \in Keys : \/ \E from \in Phones, body \in Bodies : StoreInbound(s, key, from, body)
                                \/ RefuseDuplicate(s, key)
           \/ NoMatch(s)
           \/ ConsumeBindNonce(s) \/ RefuseBindNonce(s) \/ LinkBinding(s)
    PROVE  Calm(s)
<1>1. ASSUME NEW key \in Keys, NEW from \in Phones, NEW body \in Bodies,
             StoreInbound(s, key, from, body) PROVE Calm(s)
  BY <1>1 DEF StoreInbound, Done, Calm, StartPcs, TxPcs
<1>2. ASSUME NEW key \in Keys, RefuseDuplicate(s, key) PROVE Calm(s)
  BY <1>2, DoneCalm DEF RefuseDuplicate, tables
<1>3. CASE NoMatch(s)  BY <1>3, DoneCalm DEF NoMatch
<1>4. CASE ConsumeBindNonce(s)
  <2>1. UNCHANGED <<verifications, events>>  BY <1>4 DEF ConsumeBindNonce
  <2>2. Done(s) \/ \E r : GoTo(s, "link", r)  BY <1>4, Zenon DEF ConsumeBindNonce
  <2> QED BY <2>1, <2>2, DoneCalm DEF Calm, StartPcs, TxPcs
<1>5. CASE RefuseBindNonce(s)  BY <1>5, DoneCalm DEF RefuseBindNonce, tables
<1>6. CASE LinkBinding(s)  BY <1>6, DoneCalm DEF LinkBinding
<1> QED BY <1>1, <1>2, <1>3, <1>4, <1>5, <1>6

\* The remaining steps of requests, and their failure.
LEMMA OtherCalm ==
    ASSUME NEW s \in Slots,
           \/ AnswerRead(s) \/ CheckUnbound(s) \/ InsertBinding(s) \/ InsertEndpoint(s)
           \/ AbortTransition(s) \/ Fail(s)
    PROVE  Calm(s)
<1>1. CASE AnswerRead(s)
  <2>1. UNCHANGED <<verifications, events>>  BY <1>1 DEF AnswerRead, tables
  <2>2. Done(s) \/ \E r : GoTo(s, "expire", r)  BY <1>1, Zenon DEF AnswerRead
  <2> QED BY <2>1, <2>2, DoneCalm DEF Calm, StartPcs, TxPcs
<1>2. CASE CheckUnbound(s)  BY <1>2 DEF CheckUnbound, Done, Calm, StartPcs, TxPcs, tables
<1>3. CASE InsertBinding(s)  BY <1>3, DoneCalm DEF InsertBinding
<1>4. CASE InsertEndpoint(s)  BY <1>4, DoneCalm DEF InsertEndpoint
<1>5. CASE AbortTransition(s)  BY <1>5, DoneCalm DEF AbortTransition, tables
<1>6. CASE Fail(s)  BY <1>6, DoneCalm DEF Fail, tables
<1> QED BY <1>1, <1>2, <1>3, <1>4, <1>5, <1>6

\* The initial database has no verification, no event and no request.
LEMMA SettleInit == Init => SettleInv
BY DEF Init, InitRest, SettleInv, IdsAreFresh, RowLockIsExclusive, EventMatchesStatus,
       StartPcs, NoRow, Terminal

\* Every step keeps SettleInv.
LEMMA SettleStep == TypeInv /\ SettleInv /\ [Next]_vars => SettleInv'
<1> SUFFICES ASSUME TypeInv, SettleInv, [Next]_vars PROVE SettleInv'  OBVIOUS
<1>1. ASSUME NEW s \in Slots, Continue(s) PROVE SettleInv'
  BY <1>1, AcquireLockSettle, CountPendingSettle, ChooseReceiverSettle, InsertVerificationSettle,
     CodeCollisionSettle, BeginsSettle, SelectEndpointsSettle, CommitTransitionSettle,
     InboundCalm, OtherCalm, CalmKept DEF Continue
<1>2. ASSUME NEW s \in Slots, Request(s) PROVE SettleInv'
  <2>1. ASSUME NEW a, NEW p, NEW o, StartVerification(s, a, p, o) PROVE SettleInv'
    BY <2>1, StartVerificationSettle
  <2> QED BY <1>2, <2>1, BeginsSettle, RequestCalm, CalmKept DEF Request
<1>3. ASSUME NEW s \in Slots, Fail(s) PROVE SettleInv'
  BY <1>3, OtherCalm, CalmKept
<1>4. ASSUME UNCHANGED <<pc, req, verifications, events>> PROVE SettleInv'
  BY <1>4, SettleKeptUnchanged
<1>5. ASSUME NEW r \in Receivers, Heartbeat(r) \/ \E flag \in BOOLEAN : SetReceiverEnabled(r, flag)
      PROVE SettleInv'
  BY <1>4, <1>5 DEF Heartbeat, SetReceiverEnabled
<1>6. ASSUME NEW b \in BindingIds, RevokeBinding(b) PROVE SettleInv'
  BY <1>4, <1>6 DEF RevokeBinding
<1>7. ASSUME NEW e \in EndpointIds, DeleteEndpoint(e) PROVE SettleInv'
  BY <1>4, <1>7 DEF DeleteEndpoint
<1>8. CASE Tick  BY <1>4, <1>8 DEF Tick, tables
<1>9. CASE UNCHANGED vars  BY <1>4, <1>9 DEF vars, tables
<1> QED BY <1>1, <1>2, <1>3, <1>5, <1>6, <1>7, <1>8, <1>9 DEF Next

\* Whatever claims, cancels and expiries race for a verification, and wherever
\* they fail, it has exactly one webhook event, of its own status, once it is
\* settled, and none before.
THEOREM EventsMatch == Spec => []EventMatchesStatus
<1>1. SettleInv => EventMatchesStatus  BY DEF SettleInv
<1> QED BY <1>1, TypeInit, TypeStep, SettleInit, SettleStep, PTL DEF Spec

-----------------------------------------------------------------------------
(* The action property                                                     *)

\* The insert writes a row that did not exist.
LEMMA InsertKeepsRows ==
    ASSUME TypeInv, SettleInv, NEW s \in Slots, InsertVerification(s) PROVE RowsKept
<1> DEFINE id == req[s].id
<1>1. pc[s] \in StartPcs  BY DEF InsertVerification, StartPcs
<1>2. ~Exists(verifications[id])  BY <1>1 DEF SettleInv, IdsAreFresh
<1>3. \E row : verifications' = [verifications EXCEPT ![id] = row]  BY DEF InsertVerification
<1> HIDE DEF id
<1>4. \A v \in VerificationIds : v # id => verifications'[v] = verifications[v]
  BY <1>3 DEF TypeInv, DataOK
<1> QED BY <1>2, <1>4 DEF RowsKept, Exists, Terminal

\* The commit writes a row that is still pending.
LEMMA CommitKeepsRows ==
    ASSUME TypeInv, SettleInv, NEW s \in Slots, CommitTransition(s) PROVE RowsKept
<1>1. PICK v \in VerificationIds, outcome \in Terminal :
              /\ IsPending(v)
              /\ verifications'[v].status = outcome
              /\ verifications'[v].code = verifications[v].code
              /\ verifications'[v].receiver = verifications[v].receiver
              /\ verifications'[v].expiresAt = verifications[v].expiresAt
              /\ \A w \in VerificationIds \ {v} : verifications'[w] = verifications[w]
  BY CommitFacts
<1>2. ASSUME NEW w \in VerificationIds
      PROVE  /\ verifications[w].status \in Terminal => verifications'[w] = verifications[w]
             /\ verifications[w].status = "pending" =>
                   /\ verifications'[w].status # "none"
                   /\ verifications'[w].code = verifications[w].code
                   /\ verifications'[w].receiver = verifications[w].receiver
                   /\ verifications'[w].expiresAt = verifications[w].expiresAt
  <2>1. CASE w = v  BY <1>1, <2>1 DEF IsPending, Terminal
  <2>2. CASE w # v  BY <1>1, <2>2
  <2> QED BY <2>1, <2>2
<1> QED BY <1>2 DEF RowsKept

\* A step that writes no verification keeps the rows.
LEMMA UnchangedKeepsRows == ASSUME verifications' = verifications PROVE RowsKept
BY DEF RowsKept

\* Every step of the server keeps the rows.
LEMMA RowsStep == TypeInv /\ SettleInv /\ [Next]_vars => [RowsKept]_vars
<1> SUFFICES ASSUME TypeInv, SettleInv, [Next]_vars PROVE RowsKept  OBVIOUS
<1>1. ASSUME NEW s \in Slots, Calm(s) PROVE RowsKept
  BY <1>1, UnchangedKeepsRows DEF Calm
<1>2. ASSUME NEW s \in Slots, Continue(s) PROVE RowsKept
  <2>1. CASE AcquireLock(s) \/ CountPending(s) \/ ChooseReceiver(s) \/ CodeCollision(s)
             \/ LazyExpire(s) \/ ClaimVerification(s) \/ SelectEndpoints(s)
    BY <2>1, UnchangedKeepsRows
       DEF AcquireLock, CountPending, ChooseReceiver, CodeCollision, LazyExpire,
           ClaimVerification, SelectEndpoints, tables
  <2> QED BY <1>1, <1>2, <2>1, InsertKeepsRows, CommitKeepsRows, InboundCalm, OtherCalm DEF Continue
<1>3. ASSUME NEW s \in Slots, Request(s) PROVE RowsKept
  <2>1. ASSUME NEW a, NEW p, NEW o, StartVerification(s, a, p, o) PROVE RowsKept
    BY <2>1, UnchangedKeepsRows DEF StartVerification, tables
  <2>2. ASSUME NEW v, CancelVerification(s, v) PROVE RowsKept
    BY <2>2, UnchangedKeepsRows DEF CancelVerification, tables
  <2> QED BY <1>1, <1>3, <2>1, <2>2, RequestCalm DEF Request
<1>4. ASSUME NEW s \in Slots, Fail(s) PROVE RowsKept  BY <1>1, <1>4, OtherCalm
<1>5. ASSUME NEW r \in Receivers, Heartbeat(r) \/ \E flag \in BOOLEAN : SetReceiverEnabled(r, flag)
      PROVE RowsKept
  BY <1>5, UnchangedKeepsRows DEF Heartbeat, SetReceiverEnabled
<1>6. ASSUME NEW b \in BindingIds, RevokeBinding(b) PROVE RowsKept
  BY <1>6, UnchangedKeepsRows DEF RevokeBinding
<1>7. ASSUME NEW e \in EndpointIds, DeleteEndpoint(e) PROVE RowsKept
  BY <1>7, UnchangedKeepsRows DEF DeleteEndpoint
<1>8. CASE Tick  BY <1>8, UnchangedKeepsRows DEF Tick, tables
<1>9. CASE UNCHANGED vars  BY <1>9, UnchangedKeepsRows DEF vars, tables
<1> QED BY <1>2, <1>3, <1>4, <1>5, <1>6, <1>7, <1>8, <1>9 DEF Next

\* No interleaving of the handlers changes a settled verification, or the
\* receiver, the code or the expiry of a pending one.
THEOREM RowsStable == Spec => RowsAreStable
BY TypeInit, TypeStep, SettleInit, SettleStep, RowsStep, PTL DEF Spec, RowsAreStable

-----------------------------------------------------------------------------
(* What a step does to a verification, for the proofs that build on these  *)

\* What was fixed when the verification was started.
SameVerification(v) ==
    /\ verifications'[v].app = verifications[v].app
    /\ verifications'[v].phone = verifications[v].phone
    /\ verifications'[v].receiver = verifications[v].receiver
    /\ verifications'[v].code = verifications[v].code
    /\ verifications'[v].expiresAt = verifications[v].expiresAt

\* The request in slot s starts v, or settles it.
StartedBy(v, s) ==
    /\ InsertVerification(s) /\ req[s].id = v
    /\ ~Exists(verifications[v])
    /\ verifications'[v].status = "pending"
    /\ verifications'[v].app = req[s].app
    /\ verifications'[v].phone = req[s].phone
    /\ verifications'[v].matchedInboundId = None

SettledBy(v, s) ==
    /\ CommitTransition(s) /\ req[s].verification = v
    /\ IsPending(v)
    /\ verifications'[v].status = req[s].outcome
    /\ SameVerification(v)
    /\ req[s].outcome = "verified" => /\ verifications'[v].verifiedAt = req[s].now
                                     /\ verifications'[v].matchedInboundId = req[s].sms
    /\ req[s].outcome # "verified" =>
          verifications'[v].matchedInboundId = verifications[v].matchedInboundId

\* A commit settles the row its transaction has locked.
LEMMA CommitSettles ==
    ASSUME TypeInv, SettleInv, NEW s \in Slots, CommitTransition(s)
    PROVE  req[s].verification \in VerificationIds /\ SettledBy(req[s].verification, s)
<1> DEFINE r == req[s]
           v == r.verification
           row == Settled(verifications[v], r)
<1>1. pc[s] \in TxPcs /\ r \in TransitionReq
      /\ (r.outcome = "verified" => r.sms \in SmsIds /\ r.now \in Nat)
  BY DEF CommitTransition, TypeInv, SlotsOK, ReqTypeOK, TxPcs
<1>2. v \in VerificationIds  BY <1>1 DEF TransitionReq
<1>3. IsPending(v)  BY <1>1 DEF SettleInv, RowLockIsExclusive, TxPcs
<1>4. verifications[v] \in VerificationRow
  BY <1>2, <1>3 DEF TypeInv, DataOK, IsPending, NoRow
<1>5. row.status = r.outcome  BY <1>1, <1>4, SettledType
<1>6. /\ row.app = verifications[v].app /\ row.phone = verifications[v].phone
      /\ row.receiver = verifications[v].receiver /\ row.code = verifications[v].code
      /\ row.expiresAt = verifications[v].expiresAt
      /\ r.outcome = "verified" => row.verifiedAt = r.now /\ row.matchedInboundId = r.sms
      /\ r.outcome # "verified" => row.matchedInboundId = verifications[v].matchedInboundId
  BY <1>1, <1>4, SettledColumns
<1>7. verifications' = [verifications EXCEPT ![v] = row]  BY DEF CommitTransition
<1> HIDE DEF row
<1>8. verifications'[v] = row  BY <1>2, <1>7 DEF TypeInv, DataOK
<1> QED BY <1>2, <1>3, <1>5, <1>6, <1>8 DEF SettledBy, SameVerification

\* An insert starts the verification whose id its request was given.
LEMMA InsertStarts ==
    ASSUME TypeInv, SettleInv, NEW s \in Slots, InsertVerification(s)
    PROVE  StartedBy(req[s].id, s)
<1>1. pc[s] \in StartPcs  BY DEF InsertVerification, StartPcs
<1>2. ~Exists(verifications[req[s].id]) /\ req[s].id \in VerificationIds
  BY <1>1, StartReqAt DEF SettleInv, IdsAreFresh, StartReq
<1>3. PICK code \in Codes : verifications'[req[s].id] =
                [app |-> req[s].app, phone |-> req[s].phone, receiver |-> req[s].receiver,
                 code |-> code, status |-> "pending", expiresAt |-> req[s].expiresAt,
                 verifiedAt |-> None, matchedInboundId |-> None]
  BY <1>2 DEF InsertVerification, TypeInv, DataOK
<1> QED BY <1>2, <1>3 DEF StartedBy

\* A verification that changes is started or settled.
LEMMA VerificationChange ==
    ASSUME TypeInv, SettleInv, [Next]_vars, NEW v \in VerificationIds,
           verifications'[v] # verifications[v]
    PROVE  \E s \in Slots : StartedBy(v, s) \/ SettledBy(v, s)
BY WhoWritesVerification, InsertStarts, CommitSettles

\* A verification that exists stays what it was started as.
LEMMA VerificationStays ==
    ASSUME TypeInv, SettleInv, [Next]_vars, NEW v \in VerificationIds, Exists(verifications[v])
    PROVE  /\ Exists(verifications'[v])
           /\ SameVerification(v)
           /\ verifications[v].status # "pending" => verifications'[v] = verifications[v]
<1>1. CASE verifications'[v] = verifications[v]  BY <1>1 DEF SameVerification, Exists
<1>2. CASE verifications'[v] # verifications[v]
  <2>1. PICK s \in Slots : SettledBy(v, s)  BY <1>2, VerificationChange DEF StartedBy
  <2>2. req[s].outcome \in Terminal
    BY <2>1 DEF SettledBy, CommitTransition, TypeInv, SlotsOK, ReqTypeOK, TransitionReq
  <2> QED BY <2>1, <2>2 DEF SettledBy, IsPending, Exists, Terminal
<1> QED BY <1>1, <1>2

=============================================================================
