--------------------------- MODULE WebAuthnProofs ---------------------------
(***************************************************************************)
(* Proofs about WebAuthn: a challenge serves one ceremony, a login needs a *)
(* registration, and the stored counter is the highest one shown, for any  *)
(* number of apps, clients, authenticators and overlapping requests.       *)
(***************************************************************************)
EXTENDS WebAuthn, TLAPS

Verifying == {"consume", "mark", "register", "insert", "login", "assert"}

\* The requests that a challenge was given to, and those about to get one.
Given == {"register", "insert", "login", "assert"}
Holding == {"mark"} \cup Given

OptionsReq == [purpose : Purposes, app : Apps, client : Clients]
VerifyReq == [purpose : Purposes, app : Apps, client : Clients, response : Response, now : Nat,
              challenge : ChallengeIds \cup {None}, row : RowIds \cup {None}, floor : Nat]
Ceremony == [purpose : Purposes, challenge : ChallengeIds, app : Apps, client : Clients,
             key : Keys, count : Nat, wrote : BOOLEAN]

RequestsOK ==
    /\ pc \in [Slots -> {"idle", "create"} \cup Verifying]
    /\ req \in [Slots -> OptionsReq \cup VerifyReq \cup {NoReq}]
    /\ \A s \in Slots : /\ pc[s] = "create" => req[s] \in OptionsReq
                        /\ pc[s] \in Verifying => req[s] \in VerifyReq

TablesOK ==
    /\ clock \in Nat
    /\ challenges \in [ChallengeIds -> Challenge \cup {NoRow}]
    /\ credentials \in [RowIds -> Credential \cup {NoCredential}]
    /\ uses \in [ChallengeIds -> Nat]

SignedOK ==
    /\ counter \in [Keys -> Nat]
    /\ responses \subseteq Response

CeremoniesOK == ceremonies \subseteq Ceremony

TypeOK == RequestsOK /\ TablesOK /\ SignedOK /\ CeremoniesOK

-----------------------------------------------------------------------------
(* The inductive invariant.                                                *)

\* The request holds a challenge of its own app, client_ref and purpose.
Holds(s) ==
    LET c == req[s].challenge
    IN  /\ c \in ChallengeIds
        /\ Stored(c)
        /\ challenges[c].app = req[s].app
        /\ challenges[c].client = req[s].client
        /\ challenges[c].purpose = req[s].purpose

Purpose(s) == IF pc[s] \in {"register", "insert"} THEN "register" ELSE "login"

HeldRight ==
    \A s \in Slots :
        /\ pc[s] = "mark" => Holds(s) /\ ~challenges[req[s].challenge].used
        /\ pc[s] \in Given => /\ Holds(s)
                              /\ challenges[req[s].challenge].used
                              /\ req[s].purpose = Purpose(s)

HeldByOne ==
    \A s, t \in Slots : pc[s] \in Holding /\ pc[t] \in Holding /\ s # t
        => req[s].challenge # req[t].challenge

UsesCounted ==
    \A c \in ChallengeIds : uses[c] \in {0, 1} /\ (uses[c] = 1 => Stored(c) /\ challenges[c].used)

\* A ceremony that succeeded had a challenge that no request holds any more.
CeremonyRight(x) ==
    /\ Stored(x.challenge)
    /\ challenges[x.challenge].used
    /\ x.app = challenges[x.challenge].app
    /\ x.client = challenges[x.challenge].client
    /\ x.purpose = challenges[x.challenge].purpose
    /\ \A s \in Slots : pc[s] \in Holding => req[s].challenge # x.challenge

CeremoniesRight ==
    /\ \A x \in ceremonies : CeremonyRight(x)
    /\ \A x, y \in ceremonies : x.challenge = y.challenge => x = y

\* A login that is being checked has found a row of its own client_ref.
RowRight ==
    \A s \in Slots : pc[s] = "assert" =>
        /\ req[s].row \in RowIds
        /\ Registered(req[s].row)
        /\ credentials[req[s].row].app = req[s].app
        /\ credentials[req[s].row].client = req[s].client
        /\ credentials[req[s].row].key = req[s].response.key

StoredOnce ==
    \A q, r \in RowIds :
        Registered(q) /\ HasKey(r, credentials[q].app, credentials[q].key) => q = r

RegisteredBy(app, client, key) ==
    \E y \in ceremonies : /\ y.purpose = "register" /\ y.wrote
                          /\ y.app = app /\ y.client = client /\ y.key = key

RowsRegistered ==
    \A r \in RowIds : Registered(r) =>
        RegisteredBy(credentials[r].app, credentials[r].client, credentials[r].key)

LoginsRegistered ==
    \A x \in ceremonies : x.purpose = "login" => RegisteredBy(x.app, x.client, x.key)

CredentialInv == RowRight /\ StoredOnce /\ RowsRegistered /\ LoginsRegistered

ChallengeInv == HeldRight /\ HeldByOne /\ UsesCounted /\ CeremoniesRight

-----------------------------------------------------------------------------
(* Types.                                                                  *)

LEMMA TypeInit == Init => TypeOK
BY DEF Init, TypeOK, RequestsOK, TablesOK, SignedOK, CeremoniesOK, Verifying

\* A request enters, goes on without new local variables, or ends.
LEMMA RequestTypes ==
    ASSUME TypeOK, NEW s \in Slots, NEW p, NEW q,
           pc' = [pc EXCEPT ![s] = p], req' = [req EXCEPT ![s] = q],
           \/ p = "idle" /\ q = NoReq
           \/ p = "create" /\ q \in OptionsReq
           \/ p \in Verifying /\ q \in VerifyReq
    PROVE  RequestsOK'
<1>1. p \in {"idle", "create"} \cup Verifying /\ q \in OptionsReq \cup VerifyReq \cup {NoReq}
  OBVIOUS
<1>2. pc' \in [Slots -> {"idle", "create"} \cup Verifying]
  BY <1>1 DEF TypeOK, RequestsOK
<1>3. req' \in [Slots -> OptionsReq \cup VerifyReq \cup {NoReq}]
  BY <1>1 DEF TypeOK, RequestsOK
<1>4. ASSUME NEW t \in Slots
      PROVE  /\ pc'[t] = "create" => req'[t] \in OptionsReq
             /\ pc'[t] \in Verifying => req'[t] \in VerifyReq
  BY <1>4 DEF TypeOK, RequestsOK, Verifying
<1>5. QED
  BY <1>2, <1>3, <1>4 DEF RequestsOK

LEMMA SameRequests ==
    ASSUME RequestsOK, UNCHANGED <<pc, req>> PROVE RequestsOK'
BY DEF RequestsOK

LEMMA DoneTypes ==
    ASSUME TypeOK, NEW s \in Slots, Done(s) PROVE RequestsOK'
BY RequestTypes DEF Done

LEMMA EnterTypes ==
    ASSUME TypeOK, NEW s \in Slots, Request(s) PROVE TypeOK'
<1>1. ASSUME NEW next, NEW r, Enter(s, next, r),
             (next = "create" /\ r \in OptionsReq) \/ (next = "consume" /\ r \in VerifyReq)
      PROVE  TypeOK'
  <2>1. \/ UNCHANGED <<pc, req>>
        \/ pc' = [pc EXCEPT ![s] = next] /\ req' = [req EXCEPT ![s] = r]
    BY <1>1 DEF Enter
  <2>2. \/ next = "create" /\ r \in OptionsReq
        \/ next \in Verifying /\ r \in VerifyReq
    BY <1>1 DEF Verifying
  <2>3. RequestsOK'
    <3>1. CASE UNCHANGED <<pc, req>>
      BY <3>1, SameRequests DEF TypeOK
    <3>2. CASE pc' = [pc EXCEPT ![s] = next] /\ req' = [req EXCEPT ![s] = r]
      BY <3>2, <2>2, RequestTypes
    <3>3. QED
      BY <2>1, <3>1, <3>2
  <2>4. QED
    BY <1>1, <2>3 DEF Enter, TypeOK, TablesOK, SignedOK, CeremoniesOK, history
<1>2. ASSUME NEW app \in Apps, NEW client \in Clients, NEW purpose \in Purposes,
             OptionsRequest(s, app, client, purpose)
      PROVE  TypeOK'
  <2>1. [purpose |-> purpose, app |-> app, client |-> client] \in OptionsReq
    BY DEF OptionsReq
  <2>2. QED
    BY <1>1, <1>2, <2>1 DEF OptionsRequest
<1>3. ASSUME NEW app \in Apps, NEW client \in Clients, NEW response \in responses,
             VerifyRequest(s, app, client, response)
      PROVE  TypeOK'
  <2>1. response \in Response /\ clock \in Nat
    BY DEF TypeOK, SignedOK, TablesOK
  <2>2. [purpose |-> response.purpose, app |-> app, client |-> client,
         response |-> response, now |-> clock, challenge |-> None,
         row |-> None, floor |-> 0] \in VerifyReq
    BY <2>1 DEF VerifyReq, Response
  <2>3. QED
    BY <1>1, <1>3, <2>2 DEF VerifyRequest
<1>4. QED
  BY <1>2, <1>3 DEF Request

LEMMA RefusedTypes ==
    ASSUME TypeOK, NEW s \in Slots, Refused(s) PROVE TypeOK'
BY DoneTypes DEF Refused, TypeOK, TablesOK, SignedOK, CeremoniesOK, history

LEMMA CreateChallengeTypes ==
    ASSUME TypeOK, NEW s \in Slots, NEW c \in ChallengeIds, CreateChallenge(s, c) PROVE TypeOK'
<1>1. req[s] \in OptionsReq /\ clock \in Nat
  BY DEF CreateChallenge, TypeOK, RequestsOK, TablesOK
<1>2. NewChallenge(s) \in Challenge
  BY <1>1, WebAuthnAssumption DEF NewChallenge, Challenge, OptionsReq
<1>3. TablesOK'
  BY <1>2 DEF CreateChallenge, TypeOK, TablesOK, history
<1>4. RequestsOK'
  BY DoneTypes DEF CreateChallenge
<1>5. QED
  BY <1>3, <1>4 DEF CreateChallenge, TypeOK, SignedOK, CeremoniesOK, history

LEMMA SelectChallengeTypes ==
    ASSUME TypeOK, NEW s \in Slots, NEW c \in ChallengeIds, SelectChallenge(s, c) PROVE TypeOK'
<1>1. req[s] \in VerifyReq
  BY DEF SelectChallenge, TypeOK, RequestsOK, Verifying
<1>2. [req[s] EXCEPT !.challenge = c] \in VerifyReq
  BY <1>1 DEF VerifyReq
<1>3. req' = [req EXCEPT ![s] = [req[s] EXCEPT !.challenge = c]]
  BY DEF SelectChallenge
<1>4. RequestsOK'
  BY <1>2, <1>3, RequestTypes DEF SelectChallenge, Verifying
<1>5. QED
  BY <1>4 DEF SelectChallenge, TypeOK, TablesOK, SignedOK, CeremoniesOK, history

\* A request that goes on as it is.
LEMMA GoOnTypes ==
    ASSUME TypeOK, NEW s \in Slots, pc[s] \in Verifying, NEW p \in Verifying,
           pc' = [pc EXCEPT ![s] = p], UNCHANGED req
    PROVE  RequestsOK'
<1>1. req[s] \in VerifyReq /\ req' = [req EXCEPT ![s] = req[s]]
  BY DEF TypeOK, RequestsOK
<1>2. QED
  BY <1>1, RequestTypes

LEMMA MarkUsedTypes ==
    ASSUME TypeOK, HeldRight, NEW s \in Slots, MarkUsed(s) PROVE TypeOK'
<1> DEFINE c == req[s].challenge
<1>1. c \in ChallengeIds /\ challenges[c] \in Challenge /\ req[s].purpose \in Purposes
  <2>1. c \in ChallengeIds /\ challenges[c] # NoRow
    BY DEF MarkUsed, HeldRight, Holds, Stored
  <2>2. req[s] \in VerifyReq
    BY DEF MarkUsed, TypeOK, RequestsOK, Verifying
  <2>3. QED
    BY <2>1, <2>2 DEF TypeOK, TablesOK, VerifyReq
<1>2. [challenges[c] EXCEPT !.used = TRUE] \in Challenge
  BY <1>1 DEF Challenge
<1>3. TablesOK'
  <2>1. challenges' = [challenges EXCEPT ![c] = [challenges[c] EXCEPT !.used = TRUE]]
    BY DEF MarkUsed
  <2>2. challenges' \in [ChallengeIds -> Challenge \cup {NoRow}]
    BY <2>1, <1>2 DEF TypeOK, TablesOK
  <2>3. uses' \in [ChallengeIds -> Nat]
    BY <1>1 DEF MarkUsed, TypeOK, TablesOK
  <2>4. QED
    BY <2>2, <2>3 DEF MarkUsed, TypeOK, TablesOK
<1>4. RequestsOK'
  <2>1. req[s].purpose \in Verifying /\ pc[s] \in Verifying
    BY <1>1 DEF MarkUsed, Verifying, Purposes
  <2>2. QED
    BY <2>1, GoOnTypes DEF MarkUsed
<1>5. QED
  BY <1>3, <1>4 DEF MarkUsed, TypeOK, SignedOK, CeremoniesOK

\* What a ceremony that succeeds leaves in the history.
LEMMA CeremonyType ==
    ASSUME TypeOK, NEW s \in Slots, pc[s] \in Given, Holds(s), NEW p \in Purposes, NEW w \in BOOLEAN
    PROVE  req[s] \in VerifyReq /\ Success(s, p, w) \in Ceremony
<1>1. req[s] \in VerifyReq
  BY DEF TypeOK, RequestsOK, Verifying, Given
<1>2. req[s].challenge \in ChallengeIds
  BY DEF Holds
<1>3. QED
  BY <1>1, <1>2 DEF VerifyReq, Response, Ceremony, Success

LEMMA SelectExistingTypes ==
    ASSUME TypeOK, HeldRight, NEW s \in Slots, SelectExisting(s) PROVE TypeOK'
<1>1. CASE Done(s) /\ ceremonies' = ceremonies \cup {Success(s, "register", FALSE)}
  <2>1. pc[s] \in Given /\ Holds(s) /\ "register" \in Purposes
    BY DEF SelectExisting, HeldRight, Given, Purposes
  <2>2. CeremoniesOK'
    BY <1>1, <2>1, CeremonyType DEF TypeOK, CeremoniesOK
  <2>3. RequestsOK'
    BY <1>1, DoneTypes
  <2>4. QED
    BY <2>2, <2>3 DEF SelectExisting, TypeOK, TablesOK, SignedOK
<1>2. CASE pc' = [pc EXCEPT ![s] = "insert"] /\ UNCHANGED <<req, ceremonies>>
  <2>1. RequestsOK'
    BY <1>2, GoOnTypes DEF SelectExisting, Verifying
  <2>2. QED
    BY <1>2, <2>1 DEF SelectExisting, TypeOK, TablesOK, SignedOK, CeremoniesOK
<1>3. QED
  BY <1>1, <1>2 DEF SelectExisting

LEMMA InsertCredentialTypes ==
    ASSUME TypeOK, HeldRight, NEW s \in Slots, NEW r \in RowIds, InsertCredential(s, r) PROVE TypeOK'
<1>1. pc[s] \in Given /\ Holds(s) /\ "register" \in Purposes
  BY DEF InsertCredential, HeldRight, Given, Purposes
<1>2. req[s] \in VerifyReq
  BY <1>1, CeremonyType
<1>3. [app |-> req[s].app, client |-> req[s].client, key |-> req[s].response.key,
       signCount |-> req[s].response.count] \in Credential
  BY <1>2 DEF VerifyReq, Response, Credential
<1>4. credentials' \in [RowIds -> Credential \cup {NoCredential}]
  BY <1>3 DEF InsertCredential, TypeOK, TablesOK
<1>5. CeremoniesOK'
  BY <1>1, CeremonyType DEF InsertCredential, TypeOK, CeremoniesOK
<1>6. RequestsOK'
  BY DoneTypes DEF InsertCredential
<1>7. QED
  BY <1>4, <1>5, <1>6 DEF InsertCredential, TypeOK, TablesOK, SignedOK

LEMMA SelectCredentialTypes ==
    ASSUME TypeOK, NEW s \in Slots, NEW r \in RowIds, SelectCredential(s, r) PROVE TypeOK'
<1>1. req[s] \in VerifyReq
  BY DEF SelectCredential, TypeOK, RequestsOK, Verifying
<1>2. credentials[r].signCount \in Nat
  <2>1. credentials[r] \in Credential
    BY DEF SelectCredential, IsCredentialOf, HasKey, Registered, TypeOK, TablesOK
  <2>2. QED
    BY <2>1 DEF Credential
<1>3. [req[s] EXCEPT !.row = r, !.floor = credentials[r].signCount] \in VerifyReq
  BY <1>1, <1>2 DEF VerifyReq
<1>4. req' = [req EXCEPT ![s] = [req[s] EXCEPT !.row = r, !.floor = credentials[r].signCount]]
  BY DEF SelectCredential, TypeOK, RequestsOK
<1>5. RequestsOK'
  BY <1>3, <1>4, RequestTypes DEF SelectCredential, Verifying
<1>6. QED
  BY <1>5 DEF SelectCredential, TypeOK, TablesOK, SignedOK, CeremoniesOK, history

LEMMA UpdateCounterTypes ==
    ASSUME TypeOK, HeldRight, RowRight, NEW s \in Slots, UpdateCounter(s) PROVE TypeOK'
<1> DEFINE r == req[s].row
<1>1. pc[s] \in Given /\ Holds(s) /\ "login" \in Purposes
  BY DEF UpdateCounter, HeldRight, Given, Purposes
<1>2. req[s] \in VerifyReq
  BY <1>1, CeremonyType
<1>3. r \in RowIds /\ credentials[r] \in Credential /\ req[s].response.count \in Nat
  <2>1. r \in RowIds /\ credentials[r] # NoCredential
    BY DEF UpdateCounter, RowRight, Registered
  <2>2. QED
    BY <1>2, <2>1 DEF TypeOK, TablesOK, VerifyReq, Response
<1>4. [credentials[r] EXCEPT !.signCount = req[s].response.count] \in Credential
  BY <1>3 DEF Credential
<1>5. credentials' = [credentials EXCEPT ![r] = [credentials[r] EXCEPT !.signCount = req[s].response.count]]
  BY DEF UpdateCounter, NewCounter
<1>6. credentials' \in [RowIds -> Credential \cup {NoCredential}]
  BY <1>4, <1>5 DEF TypeOK, TablesOK
<1>7. CeremoniesOK'
  BY <1>1, CeremonyType DEF UpdateCounter, TypeOK, CeremoniesOK
<1>8. RequestsOK'
  BY DoneTypes DEF UpdateCounter
<1>9. QED
  BY <1>6, <1>7, <1>8 DEF UpdateCounter, TypeOK, TablesOK, SignedOK

LEMMA SignTypes ==
    ASSUME TypeOK, NEW c \in ChallengeIds, NEW key \in Keys, Sign(c, key) PROVE TypeOK'
<1>1. challenges[c] \in Challenge
  BY DEF Sign, Stored, TypeOK, TablesOK
<1>2. PICK n \in {counter[key], counter[key] + 1} :
          /\ counter' = [counter EXCEPT ![key] = n]
          /\ responses' = responses \cup
                {[purpose |-> challenges[c].purpose, challenge |-> c, key |-> key, count |-> n]}
  BY DEF Sign
<1>3. n \in Nat
  BY <1>2 DEF TypeOK, SignedOK
<1>4. [purpose |-> challenges[c].purpose, challenge |-> c, key |-> key, count |-> n] \in Response
  BY <1>1, <1>3 DEF Challenge, Response
<1>5. SignedOK'
  BY <1>2, <1>3, <1>4 DEF TypeOK, SignedOK
<1>6. RequestsOK'
  BY SameRequests DEF Sign, TypeOK
<1>7. QED
  BY <1>5, <1>6 DEF Sign, TypeOK, TablesOK, CeremoniesOK, history

LEMMA TypeStep ==
    ASSUME TypeOK, HeldRight, RowRight, [Next]_vars PROVE TypeOK'
<1>1. ASSUME NEW s \in Slots, Request(s) PROVE TypeOK'
  BY <1>1, EnterTypes
<1>2. ASSUME NEW s \in Slots, Continue(s) PROVE TypeOK'
  <2>1. ASSUME NEW c \in ChallengeIds, CreateChallenge(s, c) \/ SelectChallenge(s, c) PROVE TypeOK'
    BY <2>1, CreateChallengeTypes, SelectChallengeTypes
  <2>2. CASE MarkUsed(s)
    BY <2>2, MarkUsedTypes
  <2>3. CASE \/ NoChallenge(s) \/ RefuseAttestation(s) \/ InsertRefused(s)
             \/ NoSuchCredential(s) \/ RefuseAssertion(s)
    BY <2>3, RefusedTypes
       DEF NoChallenge, RefuseAttestation, InsertRefused, NoSuchCredential, RefuseAssertion, Refused
  <2>4. CASE SelectExisting(s)
    BY <2>4, SelectExistingTypes
  <2>5. CASE UpdateCounter(s)
    BY <2>5, UpdateCounterTypes
  <2>6. ASSUME NEW r \in RowIds, InsertCredential(s, r) \/ SelectCredential(s, r) PROVE TypeOK'
    BY <2>6, InsertCredentialTypes, SelectCredentialTypes
  <2>7. QED
    BY <1>2, <2>1, <2>2, <2>3, <2>4, <2>5, <2>6 DEF Continue
<1>3. ASSUME NEW s \in Slots, Fail(s) PROVE TypeOK'
  BY <1>3, RefusedTypes DEF Fail, Refused
<1>4. ASSUME NEW c \in ChallengeIds, NEW key \in Keys, Sign(c, key) PROVE TypeOK'
  BY <1>4, SignTypes
<1>5. CASE Tick
  BY <1>5, SameRequests DEF Tick, TypeOK, TablesOK, SignedOK, CeremoniesOK, history
<1>6. CASE UNCHANGED vars
  BY <1>6, SameRequests DEF vars, TypeOK, TablesOK, SignedOK, CeremoniesOK
<1>7. QED
  BY <1>1, <1>2, <1>3, <1>4, <1>5, <1>6 DEF Next

-----------------------------------------------------------------------------
(* The steps that leave the tables alone.                                  *)

\* No request comes to hold a challenge: one begins, or ends without success.
LEMMA CalmKept ==
    ASSUME ChallengeInv, CredentialInv, UNCHANGED <<challenges, credentials, uses, ceremonies>>,
           \A t \in Slots : pc'[t] \in Holding => pc'[t] = pc[t] /\ req'[t] = req[t]
    PROVE  ChallengeInv' /\ CredentialInv'
<1>2. HeldRight'
  BY DEF ChallengeInv, HeldRight, Holds, Purpose, Stored, Holding
<1>3. HeldByOne' /\ UsesCounted'
  BY DEF ChallengeInv, HeldByOne, UsesCounted, Stored
<1>4. CeremoniesRight'
  BY DEF ChallengeInv, CeremoniesRight, CeremonyRight, Stored
<1>5. RowRight'
  BY DEF CredentialInv, RowRight, Registered, Holding, Given
<1>6. StoredOnce' /\ RowsRegistered' /\ LoginsRegistered'
  BY DEF CredentialInv, StoredOnce, RowsRegistered, LoginsRegistered, RegisteredBy,
         Registered, HasKey
<1>7. QED
  BY <1>2, <1>3, <1>4, <1>5, <1>6 DEF ChallengeInv, CredentialInv

LEMMA RefusedKept ==
    ASSUME TypeOK, ChallengeInv, CredentialInv, NEW s \in Slots, Refused(s)
    PROVE  ChallengeInv' /\ CredentialInv'
<1>1. UNCHANGED <<challenges, credentials, uses, ceremonies>>
  BY DEF Refused, history
<1>2. \A t \in Slots : pc'[t] \in Holding => pc'[t] = pc[t] /\ req'[t] = req[t]
  BY DEF Refused, Done, TypeOK, RequestsOK, Holding, Given
<1>3. QED
  BY <1>1, <1>2, CalmKept

LEMMA RequestKept ==
    ASSUME TypeOK, ChallengeInv, CredentialInv, NEW s \in Slots, Request(s)
    PROVE  ChallengeInv' /\ CredentialInv'
<1>1. ASSUME NEW next \in {"create", "consume"}, NEW r, Enter(s, next, r)
      PROVE  ChallengeInv' /\ CredentialInv'
  <2>1. UNCHANGED <<challenges, credentials, uses, ceremonies>>
    BY <1>1 DEF Enter, history
  <2>2. \/ UNCHANGED <<pc, req>>
        \/ pc' = [pc EXCEPT ![s] = next] /\ req' = [req EXCEPT ![s] = r]
    BY <1>1 DEF Enter
  <2>3. \A t \in Slots : pc'[t] \in Holding => pc'[t] = pc[t] /\ req'[t] = req[t]
    BY <2>2 DEF TypeOK, RequestsOK, Holding, Given
  <2>4. QED
    BY <2>1, <2>3, CalmKept
<1>2. QED
  BY <1>1 DEF Request, OptionsRequest, VerifyRequest

-----------------------------------------------------------------------------
(* The steps that change them.                                             *)

\* Nobody holds, has used or has counted a challenge that is not stored.
LEMMA CreateChallengeKept ==
    ASSUME TypeOK, ChallengeInv, CredentialInv, NEW s \in Slots, NEW c \in ChallengeIds,
           CreateChallenge(s, c)
    PROVE  ChallengeInv' /\ CredentialInv'
<1>1. \A t \in Slots : pc'[t] \in Holding =>
          pc'[t] = pc[t] /\ req'[t] = req[t] /\ req[t].challenge # c
  BY DEF CreateChallenge, Done, TypeOK, RequestsOK, Holding, Given, ChallengeInv, HeldRight, Holds
<1>2. /\ \A d \in ChallengeIds : d # c => challenges'[d] = challenges[d]
      /\ \A d \in ChallengeIds : Stored(d) => d # c
  BY DEF CreateChallenge, TypeOK, TablesOK
<1>3. HeldRight'
  BY <1>1, <1>2 DEF ChallengeInv, HeldRight, Holds, Purpose, Stored, Holding
<1>4. HeldByOne'
  BY <1>1 DEF ChallengeInv, HeldByOne
<1>5. UsesCounted'
  BY <1>2 DEF ChallengeInv, UsesCounted, Stored, CreateChallenge, history
<1>6. CeremoniesRight'
  <2>1. ceremonies' = ceremonies /\ \A x \in ceremonies : x.challenge \in ChallengeIds
    BY DEF CreateChallenge, history, TypeOK, CeremoniesOK, Ceremony
  <2>2. QED
    BY <1>1, <1>2, <2>1 DEF ChallengeInv, CeremoniesRight, CeremonyRight, Stored
<1>7. CredentialInv'
  <2>1. RowRight'
    BY <1>1 DEF CredentialInv, RowRight, Registered, Holding, Given, CreateChallenge
  <2>2. QED
    BY <2>1 DEF CredentialInv, StoredOnce, RowsRegistered, LoginsRegistered, RegisteredBy,
                Registered, HasKey, CreateChallenge, history
<1>8. QED
  BY <1>3, <1>4, <1>5, <1>6, <1>7 DEF ChallengeInv

\* The credentials' part of the invariant does not look at challenges.
LEMMA CredentialsKept ==
    ASSUME TypeOK, CredentialInv, UNCHANGED <<credentials, ceremonies>>,
           \A t \in Slots : pc'[t] = "assert" =>
               /\ pc[t] = "assert"
               /\ req'[t].row = req[t].row /\ req'[t].app = req[t].app
               /\ req'[t].client = req[t].client /\ req'[t].response = req[t].response
    PROVE  CredentialInv'
<1>1. RowRight'
  BY DEF CredentialInv, RowRight, Registered
<1>2. QED
  BY <1>1 DEF CredentialInv, StoredOnce, RowsRegistered, LoginsRegistered, RegisteredBy,
              Registered, HasKey

\* FOR UPDATE: the challenge is not used, and no open transaction has it.
LEMMA SelectChallengeKept ==
    ASSUME TypeOK, ChallengeInv, CredentialInv, NEW s \in Slots, NEW c \in ChallengeIds,
           SelectChallenge(s, c)
    PROVE  ChallengeInv' /\ CredentialInv'
<1>0. req[s] \in VerifyReq /\ pc[s] = "consume"
  BY DEF SelectChallenge, TypeOK, RequestsOK, Verifying
<1>1. /\ pc'[s] = "mark" /\ req'[s] = [req[s] EXCEPT !.challenge = c]
      /\ \A t \in Slots : t # s => pc'[t] = pc[t] /\ req'[t] = req[t]
  BY DEF SelectChallenge, TypeOK, RequestsOK
<1>2. /\ req'[s].challenge = c /\ req'[s].app = req[s].app
      /\ req'[s].client = req[s].client /\ req'[s].purpose = req[s].purpose
  BY <1>0, <1>1 DEF VerifyReq
<1>3. Stored(c) /\ ~challenges[c].used /\ ~Locked(c)
  BY DEF SelectChallenge, Active
<1>4. \A t \in Slots : t # s /\ pc[t] \in Holding => req[t].challenge # c
  BY <1>3 DEF ChallengeInv, HeldRight, Locked, Holding
<1>5. UNCHANGED <<challenges, uses, ceremonies, credentials>>
  BY DEF SelectChallenge, history
<1>6. HeldRight'
  <2>1. Holds(s)'
    BY <1>2, <1>3, <1>5 DEF Holds, Stored, SelectChallenge, Active
  <2>2. \A t \in Slots : t # s => (Holds(t) => Holds(t)') /\ Purpose(t)' = Purpose(t)
    BY <1>1, <1>5 DEF Holds, Stored, Purpose
  <2>3. QED
    BY <1>1, <1>2, <1>3, <1>5, <2>1, <2>2 DEF ChallengeInv, HeldRight, Given
<1>7. HeldByOne'
  <2>1. HeldByOne
    BY DEF ChallengeInv
  <2>2. ASSUME NEW t \in Slots, NEW u \in Slots, pc'[t] \in Holding, pc'[u] \in Holding, t # u
        PROVE  req'[t].challenge # req'[u].challenge
    <3>1. CASE t = s
      BY <1>1, <1>2, <1>4, <2>2, <3>1
    <3>2. CASE u = s
      BY <1>1, <1>2, <1>4, <2>2, <3>2
    <3>3. CASE t # s /\ u # s
      BY <1>1, <2>1, <2>2, <3>3 DEF HeldByOne
    <3>4. QED
      BY <3>1, <3>2, <3>3
  <2>3. QED
    BY <2>2 DEF HeldByOne
<1>8. UsesCounted'
  <2>1. UsesCounted
    BY DEF ChallengeInv
  <2>2. QED
    BY <1>5, <2>1 DEF UsesCounted, Stored
<1>9. CeremoniesRight'
  <2>1. CeremoniesRight
    BY DEF ChallengeInv
  <2>2. ASSUME NEW x \in ceremonies PROVE CeremonyRight(x)'
    <3>1. CeremonyRight(x) /\ x.challenge # c
      BY <1>3, <2>1 DEF CeremoniesRight, CeremonyRight
    <3>2. \A t \in Slots : pc'[t] \in Holding => req'[t].challenge # x.challenge
      BY <1>1, <1>2, <3>1 DEF CeremonyRight
    <3>3. QED
      BY <1>5, <3>1, <3>2 DEF CeremonyRight, Stored
  <2>3. QED
    BY <1>5, <2>1, <2>2 DEF CeremoniesRight
<1>10. CredentialInv'
  BY <1>1, <1>5, CredentialsKept
<1>11. QED
  BY <1>6, <1>7, <1>8, <1>9, <1>10 DEF ChallengeInv

\* The challenge was not used, hence not counted; it is now, for this request.
LEMMA MarkUsedKept ==
    ASSUME TypeOK, ChallengeInv, CredentialInv, NEW s \in Slots, MarkUsed(s)
    PROVE  ChallengeInv' /\ CredentialInv'
<1> DEFINE c == req[s].challenge
<1>1. HeldRight /\ HeldByOne /\ UsesCounted /\ CeremoniesRight /\ pc[s] = "mark"
  BY DEF ChallengeInv, MarkUsed
<1>2. c \in ChallengeIds /\ challenges[c] \in Challenge /\ ~challenges[c].used /\ Holds(s)
  BY <1>1 DEF HeldRight, Holds, Stored, TypeOK, TablesOK
<1>3. req[s].purpose \in Purposes
  <2>1. req[s] \in VerifyReq
    BY <1>1 DEF TypeOK, RequestsOK, Verifying
  <2>2. QED
    BY <2>1 DEF VerifyReq
<1>4. /\ pc'[s] = req[s].purpose /\ req' = req
      /\ \A t \in Slots : t # s => pc'[t] = pc[t]
      /\ UNCHANGED <<ceremonies, credentials>>
  BY DEF MarkUsed, TypeOK, RequestsOK
<1>5. /\ \A d \in ChallengeIds : d # c => challenges'[d] = challenges[d] /\ uses'[d] = uses[d]
      /\ challenges'[c] = [challenges[c] EXCEPT !.used = TRUE]
      /\ uses'[c] = uses[c] + 1
  BY <1>2 DEF MarkUsed, TypeOK, TablesOK
<1>6. /\ challenges'[c].used = TRUE
      /\ challenges'[c] \in Challenge
      /\ challenges'[c].app = challenges[c].app
      /\ challenges'[c].client = challenges[c].client
      /\ challenges'[c].purpose = challenges[c].purpose
  BY <1>2, <1>5 DEF Challenge
<1>7. \A d \in ChallengeIds : Stored(d) => Stored(d)'
  <2>1. challenges'[c] # NoRow
    <3>1. challenges[c].app \in Apps /\ DOMAIN challenges'[c] = DOMAIN challenges[c]
      BY <1>2, <1>5 DEF Challenge
    <3>2. DOMAIN challenges[c] # DOMAIN NoRow
      BY <1>2 DEF Challenge, NoRow
    <3>3. QED
      BY <3>1, <3>2
  <2>2. QED
    BY <1>5, <2>1 DEF Stored
<1>8. ASSUME NEW t \in Slots, Holds(t) PROVE Holds(t)'
  <2> DEFINE d == req[t].challenge
  <2>1. d \in ChallengeIds /\ Stored(d) /\ req'[t] = req[t]  BY <1>4, <1>8 DEF Holds
  <2>2. /\ challenges'[d].app = challenges[d].app
        /\ challenges'[d].client = challenges[d].client
        /\ challenges'[d].purpose = challenges[d].purpose
    BY <1>5, <1>6, <2>1
  <2>3. Stored(d)'  BY <1>4, <1>7, <2>1
  <2> QED BY <1>8, <2>1, <2>2, <2>3 DEF Holds
<1>9. \A t \in Slots : t # s /\ pc[t] \in Holding => req[t].challenge # c
  BY <1>1 DEF HeldByOne, Holding
<1>10. HeldRight'
  <2>1. Purpose(s)' = req'[s].purpose
    BY <1>3, <1>4 DEF Purpose, Purposes
  <2>2. pc'[s] \in Given
    BY <1>3, <1>4 DEF Given, Purposes
  <2>3. ASSUME NEW t \in Slots, t # s, pc'[t] \in Holding
        PROVE  /\ Holds(t)
               /\ challenges'[req'[t].challenge] = challenges[req[t].challenge]
               /\ pc'[t] = pc[t] /\ Purpose(t)' = Purpose(t)
    <3>1. pc'[t] = pc[t]
      BY <1>4, <2>3
    <3>2. Holds(t)
      BY <1>1, <2>3, <3>1 DEF HeldRight, Holding
    <3>3. QED
      BY <1>4, <1>5, <1>9, <2>3, <3>1, <3>2 DEF Holds, Purpose
  <2>4. ASSUME NEW t \in Slots
        PROVE  /\ pc'[t] = "mark" => Holds(t)' /\ ~challenges'[req'[t].challenge].used
               /\ pc'[t] \in Given => /\ Holds(t)'
                                      /\ challenges'[req'[t].challenge].used
                                      /\ req'[t].purpose = Purpose(t)'
    <3>1. CASE t = s
      BY <1>2, <1>4, <1>6, <1>8, <2>1, <2>2, <3>1 DEF Given
    <3>2. CASE t # s
      BY <1>1, <1>4, <1>8, <2>3, <3>2 DEF HeldRight, Holding
    <3>3. QED
      BY <3>1, <3>2
  <2>5. QED
    BY <2>4 DEF HeldRight
<1>11. HeldByOne'
  <2>1. pc[s] \in Holding
    BY <1>1 DEF Holding
  <2>2. ASSUME NEW t \in Slots, pc'[t] \in Holding PROVE pc[t] \in Holding
    <3>1. CASE t = s
      BY <2>1, <3>1
    <3>2. CASE t # s
      BY <1>4, <2>2, <3>2
    <3>3. QED
      BY <3>1, <3>2
  <2>3. ASSUME NEW t \in Slots, NEW u \in Slots, pc'[t] \in Holding, pc'[u] \in Holding, t # u
        PROVE  req'[t].challenge # req'[u].challenge
    <3>1. pc[t] \in Holding /\ pc[u] \in Holding
      BY <2>2, <2>3
    <3>2. QED
      BY <1>1, <1>4, <2>3, <3>1 DEF HeldByOne
  <2>4. QED
    BY <2>3 DEF HeldByOne
<1>12. UsesCounted'
  <2>1. uses[c] = 0
    BY <1>1, <1>2 DEF UsesCounted
  <2>2. uses'[c] = 1
    BY <1>5, <2>1
  <2>3. challenges'[c] # NoRow
    BY <1>2, <1>7 DEF Holds, Stored
  <2>4. ASSUME NEW d \in ChallengeIds
        PROVE  uses'[d] \in {0, 1} /\ (uses'[d] = 1 => Stored(d)' /\ challenges'[d].used)
    <3>1. CASE d = c
      BY <1>6, <2>2, <2>3, <3>1 DEF Stored
    <3>2. CASE d # c
      BY <1>1, <1>5, <1>7, <3>2 DEF UsesCounted
    <3>3. QED
      BY <3>1, <3>2
  <2>5. QED
    BY <2>4 DEF UsesCounted
<1>13. CeremoniesRight'
  <2>1. ASSUME NEW x \in ceremonies PROVE CeremonyRight(x)'
    <3>1. CeremonyRight(x) /\ x.challenge \in ChallengeIds /\ x.challenge # c
      BY <1>1, <1>2 DEF CeremoniesRight, CeremonyRight, TypeOK, CeremoniesOK, Ceremony
    <3>2. challenges'[x.challenge] = challenges[x.challenge] /\ Stored(x.challenge)'
      BY <1>5, <1>7, <3>1 DEF CeremonyRight
    <3>3. \A t \in Slots : pc'[t] \in Holding => req'[t].challenge # x.challenge
      BY <1>4, <3>1 DEF CeremonyRight
    <3>4. QED
      BY <3>1, <3>2, <3>3 DEF CeremonyRight
  <2>2. QED
    BY <1>1, <1>4, <2>1 DEF CeremoniesRight
<1>14. CredentialInv'
  <2>1. \A t \in Slots : pc'[t] = "assert" => pc[t] = "assert"
    BY <1>3, <1>4 DEF Purposes
  <2>2. QED
    BY <1>4, <2>1, CredentialsKept
<1>15. QED
  BY <1>10, <1>11, <1>12, <1>13, <1>14 DEF ChallengeInv

\* The request keeps its challenge and goes on within its ceremony.
LEMMA GoOnKept ==
    ASSUME TypeOK, ChallengeInv, NEW s \in Slots, pc[s] \in Given, NEW p \in Given,
           Purpose(s) = (IF p \in {"register", "insert"} THEN "register" ELSE "login"),
           pc' = [pc EXCEPT ![s] = p],
           \A t \in Slots : /\ req'[t].challenge = req[t].challenge /\ req'[t].app = req[t].app
                            /\ req'[t].client = req[t].client /\ req'[t].purpose = req[t].purpose,
           UNCHANGED <<challenges, uses, ceremonies>>
    PROVE  ChallengeInv'
<1>1. HeldRight /\ HeldByOne /\ UsesCounted /\ CeremoniesRight
  BY DEF ChallengeInv
<1>2. \A t \in Slots : (Holds(t) => Holds(t)') /\ Purpose(t)' = Purpose(t)
  BY DEF Holds, Stored, Purpose, TypeOK, RequestsOK
<1>3. \A t \in Slots : /\ pc'[t] \in Given <=> pc[t] \in Given
                       /\ pc'[t] = "mark" <=> pc[t] = "mark"
  BY DEF TypeOK, RequestsOK, Given
<1>4. HeldRight'
  BY <1>1, <1>2, <1>3 DEF HeldRight
<1>5. HeldByOne'
  BY <1>1, <1>3 DEF HeldByOne, Holding
<1>6. UsesCounted'
  BY <1>1 DEF UsesCounted, Stored
<1>7. CeremoniesRight'
  BY <1>1, <1>3 DEF CeremoniesRight, CeremonyRight, Stored, Holding
<1>8. QED
  BY <1>4, <1>5, <1>6, <1>7 DEF ChallengeInv

LEMMA SelectCredentialKept ==
    ASSUME TypeOK, ChallengeInv, CredentialInv, NEW s \in Slots, NEW r \in RowIds,
           SelectCredential(s, r)
    PROVE  ChallengeInv' /\ CredentialInv'
<1>1. req[s] \in VerifyReq /\ pc[s] = "login"
  BY DEF SelectCredential, TypeOK, RequestsOK, Verifying
<1>2. /\ req'[s] = [req[s] EXCEPT !.row = r, !.floor = credentials[r].signCount]
      /\ \A t \in Slots : t # s => req'[t] = req[t] /\ pc'[t] = pc[t]
  BY DEF SelectCredential, TypeOK, RequestsOK
<1>3. /\ req'[s].row = r /\ req'[s].challenge = req[s].challenge /\ req'[s].app = req[s].app
      /\ req'[s].client = req[s].client /\ req'[s].purpose = req[s].purpose
      /\ req'[s].response = req[s].response
  BY <1>1, <1>2 DEF VerifyReq
<1>4. UNCHANGED <<challenges, uses, ceremonies, credentials>>
  BY DEF SelectCredential, history
<1>5. ChallengeInv'
  <2>1. pc[s] \in Given /\ "assert" \in Given /\ Purpose(s) = "login"
    BY <1>1 DEF Given, Purpose
  <2>2. \A t \in Slots : /\ req'[t].challenge = req[t].challenge /\ req'[t].app = req[t].app
                         /\ req'[t].client = req[t].client /\ req'[t].purpose = req[t].purpose
    BY <1>2, <1>3
  <2>3. pc' = [pc EXCEPT ![s] = "assert"]
    BY DEF SelectCredential
  <2>4. QED
    BY <1>4, <2>1, <2>2, <2>3, GoOnKept
<1>6. RowRight'
  <2>1. RowRight
    BY DEF CredentialInv
  <2>2. ASSUME NEW t \in Slots, pc'[t] = "assert"
        PROVE  /\ req'[t].row \in RowIds
               /\ Registered(req'[t].row)
               /\ credentials[req'[t].row].app = req'[t].app
               /\ credentials[req'[t].row].client = req'[t].client
               /\ credentials[req'[t].row].key = req'[t].response.key
    <3>1. CASE t = s
      BY <1>3, <3>1 DEF SelectCredential, IsCredentialOf, HasKey
    <3>2. CASE t # s
      BY <1>2, <2>1, <2>2, <3>2 DEF RowRight
    <3>3. QED
      BY <3>1, <3>2
  <2>3. QED
    BY <1>4, <2>2 DEF RowRight, Registered
<1>7. CredentialInv'
  BY <1>4, <1>6 DEF CredentialInv, StoredOnce, RowsRegistered, LoginsRegistered, RegisteredBy,
                    Registered, HasKey
<1>8. QED
  BY <1>5, <1>7

\* The ceremony that a request ends with joins the history: the challenge is
\* its own, and no other request holds it.
LEMMA SuccessKept ==
    ASSUME TypeOK, ChallengeInv, NEW s \in Slots, pc[s] \in Given, Done(s),
           UNCHANGED <<challenges, uses>>, NEW w,
           ceremonies' = ceremonies \cup {Success(s, req[s].purpose, w)}
    PROVE  ChallengeInv'
<1> DEFINE c == req[s].challenge
<1> DEFINE new == Success(s, req[s].purpose, w)
<1>1. HeldRight /\ HeldByOne /\ UsesCounted /\ CeremoniesRight
  BY DEF ChallengeInv
<1>2. \A t \in Slots : pc'[t] \in Holding => pc'[t] = pc[t] /\ req'[t] = req[t] /\ t # s
  BY DEF Done, TypeOK, RequestsOK, Holding, Given
<1>3. HeldRight'
  BY <1>1, <1>2 DEF HeldRight, Holds, Purpose, Stored, Holding
<1>4. HeldByOne'
  BY <1>1, <1>2 DEF HeldByOne
<1>5. UsesCounted'
  BY <1>1 DEF UsesCounted, Stored
<1>6. CeremoniesRight'
  <2>1. Holds(s) /\ challenges[c].used /\ pc[s] \in Holding
    BY <1>1 DEF HeldRight, Holding
  <2>2. ASSUME NEW x \in ceremonies PROVE CeremonyRight(x)' /\ x.challenge # c
    BY <1>1, <1>2, <2>1 DEF CeremoniesRight, CeremonyRight, Stored
  <2>3. \A t \in Slots : pc'[t] \in Holding => req'[t].challenge # c
    BY <1>1, <1>2, <2>1 DEF HeldByOne
  <2>4. ASSUME NEW x, x = new PROVE CeremonyRight(x)' /\ x.challenge = c
    <3>1. /\ x.challenge = c /\ x.app = req[s].app /\ x.client = req[s].client
          /\ x.purpose = req[s].purpose
      BY <2>4 DEF Success
    <3>2. QED
      BY <2>1, <2>3, <3>1 DEF CeremonyRight, Holds, Stored
  <2>5. ceremonies' = ceremonies \cup {new}
    OBVIOUS
  <2>6. \A x \in ceremonies' : CeremonyRight(x)'
    BY <2>2, <2>4, <2>5
  <2>7. ASSUME NEW x \in ceremonies', NEW y \in ceremonies', x.challenge = y.challenge PROVE x = y
    <3> HIDE DEF new, c
    <3>1. CASE x \in ceremonies /\ y \in ceremonies
      BY <1>1, <2>7, <3>1 DEF CeremoniesRight
    <3>2. CASE x = new /\ y = new
      BY <3>2
    <3>3. CASE x = new /\ y \in ceremonies
      BY <2>2, <2>4, <2>7, <3>3
    <3>4. CASE x \in ceremonies /\ y = new
      BY <2>2, <2>4, <2>7, <3>4
    <3>5. QED
      BY <2>5, <3>1, <3>2, <3>3, <3>4
  <2>8. QED
    BY <2>6, <2>7 DEF CeremoniesRight
<1>7. QED
  BY <1>3, <1>4, <1>5, <1>6 DEF ChallengeInv

\* It stores nothing, and lets nobody log in.
LEMMA SelectExistingKept ==
    ASSUME TypeOK, ChallengeInv, CredentialInv, NEW s \in Slots, SelectExisting(s)
    PROVE  ChallengeInv' /\ CredentialInv'
<1>1. CASE Done(s) /\ ceremonies' = ceremonies \cup {Success(s, "register", FALSE)}
  <2>1. pc[s] \in Given /\ req[s].purpose = "register"
    BY DEF SelectExisting, Given, ChallengeInv, HeldRight, Purpose
  <2>2. UNCHANGED <<challenges, uses, credentials>>
    BY DEF SelectExisting
  <2>3. ChallengeInv'
    BY <1>1, <2>1, <2>2, SuccessKept
  <2>4. \A t \in Slots : pc'[t] = "assert" => pc[t] = "assert" /\ req'[t] = req[t]
    BY <1>1 DEF Done, TypeOK, RequestsOK
  <2>5. RowRight'
    BY <2>2, <2>4 DEF CredentialInv, RowRight, Registered
  <2>6. StoredOnce'
    BY <2>2 DEF CredentialInv, StoredOnce, Registered, HasKey
  <2>7. ASSUME NEW app, NEW client, NEW key, RegisteredBy(app, client, key)
        PROVE  RegisteredBy(app, client, key)'
    BY <1>1, <2>7 DEF RegisteredBy
  <2>8. RowsRegistered'
    BY <2>2, <2>7 DEF CredentialInv, RowsRegistered, Registered
  <2>9. LoginsRegistered'
    <3>1. Success(s, "register", FALSE).purpose # "login"
      BY DEF Success
    <3>2. QED
      BY <1>1, <2>7, <3>1 DEF CredentialInv, LoginsRegistered
  <2>10. QED
    BY <2>3, <2>5, <2>6, <2>8, <2>9 DEF CredentialInv
<1>2. CASE pc' = [pc EXCEPT ![s] = "insert"] /\ UNCHANGED <<req, ceremonies>>
  <2>1. pc[s] \in Given /\ "insert" \in Given /\ Purpose(s) = "register"
    BY DEF SelectExisting, Given, Purpose
  <2>2. UNCHANGED <<challenges, uses, ceremonies, credentials>>
    BY <1>2 DEF SelectExisting
  <2>3. ChallengeInv'
    BY <1>2, <2>1, <2>2, GoOnKept
  <2>4. \A t \in Slots : pc'[t] = "assert" => pc[t] = "assert"
    BY <1>2 DEF TypeOK, RequestsOK
  <2>5. QED
    BY <1>2, <2>2, <2>3, <2>4, CredentialsKept
<1>3. QED
  BY <1>1, <1>2 DEF SelectExisting

LEMMA InsertCredentialKept ==
    ASSUME TypeOK, ChallengeInv, CredentialInv, NEW s \in Slots, NEW r \in RowIds,
           InsertCredential(s, r)
    PROVE  ChallengeInv' /\ CredentialInv'
<1> DEFINE row == [app |-> req[s].app, client |-> req[s].client, key |-> req[s].response.key,
                   signCount |-> req[s].response.count]
<1> DEFINE new == Success(s, "register", TRUE)
<1>1. pc[s] = "insert" /\ pc[s] \in Given /\ req[s].purpose = "register"
  BY DEF InsertCredential, Given, ChallengeInv, HeldRight, Purpose
<1>2. ceremonies' = ceremonies \cup {new} /\ UNCHANGED <<challenges, uses>> /\ Done(s)
  BY DEF InsertCredential
<1>3. ChallengeInv'
  BY <1>1, <1>2, SuccessKept
<1>4. /\ credentials'[r] = row
      /\ \A q \in RowIds : q # r => credentials'[q] = credentials[q]
  BY DEF InsertCredential, TypeOK, TablesOK
<1>5. /\ ~Registered(r)
      /\ \A q \in RowIds : ~HasKey(q, req[s].app, req[s].response.key)
  BY DEF InsertCredential, Taken
<1>6. /\ row.app = req[s].app /\ row.client = req[s].client /\ row.key = req[s].response.key
      /\ new.purpose = "register" /\ new.wrote /\ new.app = req[s].app
      /\ new.client = req[s].client /\ new.key = req[s].response.key
  BY DEF Success
<1>7. \A t \in Slots : pc'[t] = "assert" => pc[t] = "assert" /\ req'[t] = req[t]
  BY <1>2 DEF Done, TypeOK, RequestsOK
<1>8. RowRight /\ StoredOnce /\ RowsRegistered /\ LoginsRegistered
  BY DEF CredentialInv
<1>9. new \in ceremonies' /\ ceremonies \subseteq ceremonies'
  BY <1>2
<1>10. ASSUME NEW app, NEW client, NEW key, RegisteredBy(app, client, key)
       PROVE  RegisteredBy(app, client, key)'
  BY <1>9, <1>10 DEF RegisteredBy
<1> HIDE DEF row, new
<1>11. RowRight'
  BY <1>4, <1>5, <1>7, <1>8 DEF RowRight, Registered
<1>12. StoredOnce'
  BY <1>4, <1>5, <1>6, <1>8 DEF StoredOnce, HasKey, Registered
<1>13. RowsRegistered'
  <2>1. /\ new \in ceremonies' /\ new.purpose = "register" /\ new.wrote
        /\ new.app = row.app /\ new.client = row.client /\ new.key = row.key
    BY <1>6, <1>9
  <2>2. ASSUME NEW q \in RowIds, Registered(q)'
        PROVE  RegisteredBy(credentials[q].app, credentials[q].client, credentials[q].key)'
    <3>1. CASE q = r
      BY <1>4, <2>1, <3>1 DEF RegisteredBy
    <3>2. CASE q # r
      BY <1>4, <1>8, <1>10, <2>2, <3>2 DEF RowsRegistered, Registered
    <3>3. QED
      BY <3>1, <3>2
  <2>3. QED
    BY <2>2 DEF RowsRegistered
<1>14. LoginsRegistered'
  BY <1>2, <1>6, <1>8, <1>10 DEF LoginsRegistered
<1>15. QED
  BY <1>3, <1>11, <1>12, <1>13, <1>14 DEF CredentialInv

LEMMA UpdateCounterKept ==
    ASSUME TypeOK, ChallengeInv, CredentialInv, NEW s \in Slots, UpdateCounter(s)
    PROVE  ChallengeInv' /\ CredentialInv'
<1> DEFINE r == req[s].row
<1> DEFINE new == Success(s, "login", TRUE)
<1>1. pc[s] = "assert" /\ pc[s] \in Given /\ req[s].purpose = "login"
  BY DEF UpdateCounter, Given, ChallengeInv, HeldRight, Purpose
<1>2. ceremonies' = ceremonies \cup {new} /\ UNCHANGED <<challenges, uses>> /\ Done(s)
  BY DEF UpdateCounter
<1>3. ChallengeInv'
  BY <1>1, <1>2, SuccessKept
<1>4. RowRight /\ StoredOnce /\ RowsRegistered /\ LoginsRegistered
  BY DEF CredentialInv
<1>5. /\ r \in RowIds /\ credentials[r] \in Credential /\ Registered(r)
      /\ credentials[r].app = req[s].app /\ credentials[r].client = req[s].client
      /\ credentials[r].key = req[s].response.key
  BY <1>1, <1>4 DEF RowRight, Registered, TypeOK, TablesOK
<1>6. /\ credentials'[r] = [credentials[r] EXCEPT !.signCount = NewCounter(s)]
      /\ \A q \in RowIds : q # r => credentials'[q] = credentials[q]
  BY <1>5 DEF UpdateCounter, TypeOK, TablesOK
<1>7. /\ credentials'[r].app = credentials[r].app
      /\ credentials'[r].client = credentials[r].client
      /\ credentials'[r].key = credentials[r].key
      /\ credentials'[r] # NoCredential
  <2>1. DOMAIN credentials'[r] = DOMAIN credentials[r]
    BY <1>5, <1>6 DEF Credential
  <2>2. DOMAIN credentials[r] # DOMAIN NoCredential
    BY <1>5 DEF Credential, NoCredential
  <2>3. QED
    BY <1>5, <1>6, <2>1, <2>2 DEF Credential
<1>8. ASSUME NEW q \in RowIds
      PROVE  /\ Registered(q)' <=> Registered(q)
             /\ Registered(q) => /\ credentials'[q].app = credentials[q].app
                                 /\ credentials'[q].client = credentials[q].client
                                 /\ credentials'[q].key = credentials[q].key
  <2>1. CASE q = r
    BY <1>5, <1>7, <2>1 DEF Registered
  <2>2. CASE q # r
    BY <1>6, <2>2 DEF Registered
  <2>3. QED
    BY <2>1, <2>2
<1>9. \A t \in Slots : pc'[t] = "assert" => pc[t] = "assert" /\ req'[t] = req[t]
  BY <1>2 DEF Done, TypeOK, RequestsOK
<1>10. ASSUME NEW app, NEW client, NEW key, RegisteredBy(app, client, key)
       PROVE  RegisteredBy(app, client, key)'
  BY <1>2, <1>10 DEF RegisteredBy
<1>11. RowRight'
  <2>1. ASSUME NEW t \in Slots, pc'[t] = "assert"
        PROVE  /\ req'[t].row \in RowIds
               /\ credentials'[req'[t].row] # NoCredential
               /\ credentials'[req'[t].row].app = req'[t].app
               /\ credentials'[req'[t].row].client = req'[t].client
               /\ credentials'[req'[t].row].key = req'[t].response.key
    <3>1. req'[t] = req[t] /\ req[t].row \in RowIds /\ Registered(req[t].row)
      BY <1>4, <1>9, <2>1 DEF RowRight
    <3>2. QED
      BY <1>4, <1>8, <1>9, <2>1, <3>1 DEF RowRight, Registered
  <2>2. QED
    BY <2>1 DEF RowRight, Registered
<1>12. StoredOnce'
  BY <1>4, <1>8 DEF StoredOnce, HasKey
<1>13. RowsRegistered'
  BY <1>4, <1>8, <1>10 DEF RowsRegistered
<1>14. LoginsRegistered'
  <2>1. RegisteredBy(req[s].app, req[s].client, req[s].response.key)
    BY <1>4, <1>5 DEF RowsRegistered
  <2>2. ASSUME NEW x \in ceremonies', x.purpose = "login" PROVE RegisteredBy(x.app, x.client, x.key)'
    <3>1. CASE x \in ceremonies
      BY <1>4, <1>10, <2>2, <3>1 DEF LoginsRegistered
    <3>2. CASE x = new
      <4>1. x.app = req[s].app /\ x.client = req[s].client /\ x.key = req[s].response.key
        BY <3>2 DEF Success
      <4>2. QED
        BY <1>10, <2>1, <4>1
    <3>3. QED
      BY <1>2, <2>2, <3>1, <3>2
  <2>3. QED
    BY <2>2 DEF LoginsRegistered
<1>15. QED
  BY <1>3, <1>11, <1>12, <1>13, <1>14 DEF CredentialInv

-----------------------------------------------------------------------------
(* The theorems.                                                           *)

IInv == TypeOK /\ ChallengeInv /\ CredentialInv

LEMMA InvInit == Init => IInv
<1> SUFFICES ASSUME Init PROVE IInv
  OBVIOUS
<1>1. TypeOK
  BY TypeInit
<1>2. ChallengeInv
  BY DEF Init, ChallengeInv, HeldRight, HeldByOne, UsesCounted, CeremoniesRight, Given, Holding
<1>3. CredentialInv
  BY DEF Init, CredentialInv, RowRight, StoredOnce, RowsRegistered, LoginsRegistered, Registered
<1>4. QED
  BY <1>1, <1>2, <1>3 DEF IInv

LEMMA InvStep == IInv /\ [Next]_vars => IInv'
<1> SUFFICES ASSUME IInv, [Next]_vars PROVE IInv'
  OBVIOUS
<1> USE DEF IInv
<1>1. TypeOK'
  BY TypeStep DEF ChallengeInv, CredentialInv
<1>2. ASSUME NEW s \in Slots, Request(s) PROVE ChallengeInv' /\ CredentialInv'
  BY <1>2, RequestKept
<1>3. ASSUME NEW s \in Slots, Continue(s) PROVE ChallengeInv' /\ CredentialInv'
  <2>1. ASSUME NEW c \in ChallengeIds, CreateChallenge(s, c) \/ SelectChallenge(s, c)
        PROVE  ChallengeInv' /\ CredentialInv'
    BY <2>1, CreateChallengeKept, SelectChallengeKept
  <2>2. CASE MarkUsed(s)
    BY <2>2, MarkUsedKept
  <2>3. CASE \/ NoChallenge(s) \/ RefuseAttestation(s) \/ InsertRefused(s)
             \/ NoSuchCredential(s) \/ RefuseAssertion(s)
    BY <2>3, RefusedKept
       DEF NoChallenge, RefuseAttestation, InsertRefused, NoSuchCredential, RefuseAssertion, Refused
  <2>4. CASE SelectExisting(s)
    BY <2>4, SelectExistingKept
  <2>5. CASE UpdateCounter(s)
    BY <2>5, UpdateCounterKept
  <2>6. ASSUME NEW r \in RowIds, InsertCredential(s, r) \/ SelectCredential(s, r)
        PROVE  ChallengeInv' /\ CredentialInv'
    BY <2>6, InsertCredentialKept, SelectCredentialKept
  <2>7. QED
    BY <1>3, <2>1, <2>2, <2>3, <2>4, <2>5, <2>6 DEF Continue
<1>4. ASSUME NEW s \in Slots, Fail(s) PROVE ChallengeInv' /\ CredentialInv'
  BY <1>4, RefusedKept DEF Fail, Refused
<1>5. ASSUME NEW c \in ChallengeIds, NEW key \in Keys, Sign(c, key)
      PROVE  ChallengeInv' /\ CredentialInv'
  <2>1. UNCHANGED <<challenges, credentials, uses, ceremonies>> /\ UNCHANGED <<pc, req>>
    BY <1>5 DEF Sign, history
  <2>2. QED
    BY <2>1, CalmKept
<1>6. CASE Tick
  <2>1. UNCHANGED <<challenges, credentials, uses, ceremonies>> /\ UNCHANGED <<pc, req>>
    BY <1>6 DEF Tick, history
  <2>2. QED
    BY <1>1, <2>1, CalmKept
<1>7. CASE UNCHANGED vars
  <2>1. UNCHANGED <<challenges, credentials, uses, ceremonies>> /\ UNCHANGED <<pc, req>>
    BY <1>7 DEF vars
  <2>2. QED
    BY <1>1, <2>1, CalmKept
<1>8. QED
  BY <1>1, <1>2, <1>3, <1>4, <1>5, <1>6, <1>7 DEF Next

\* consumeChallenge and its transaction: a challenge is given to one ceremony at
\* most and at most one succeeds with it, for the app, the client_ref and the
\* purpose it was made for, however requests overlap, repeat and fail.
THEOREM SingleUse == Spec => []ChallengeUsedOnce
<1>1. IInv => ChallengeUsedOnce
  BY DEF IInv, ChallengeInv, UsesCounted, CeremoniesRight, CeremonyRight, ChallengeUsedOnce
<1>2. QED
  BY InvInit, InvStep, <1>1, PTL DEF Spec

\* verifyRegister and verifyLogin: a credential is stored once per app, and who
\* logs in with it has registered it under the same client_ref, in a ceremony that
\* stored it: one that found it stored already lets nobody log in.
THEOREM RegisteredFirst == Spec => []LoginAfterRegister
<1>1. IInv => LoginAfterRegister
  BY DEF IInv, CredentialInv, StoredOnce, LoginsRegistered, RegisteredBy, LoginAfterRegister
<1>2. QED
  BY InvInit, InvStep, <1>1, PTL DEF Spec

-----------------------------------------------------------------------------
(* The signature counters.                                                 *)

\* What a ceremony has shown is a credential that is stored, and stays so.
KeysStored == \A x \in ceremonies : \E r \in RowIds : HasKey(r, x.app, x.key)

\* No count is above its authenticator's own: what was signed, what a request
\* brings and what a ceremony has shown.
Covered(x) == x.count <= counter[x.key]

SignedRight ==
    /\ \A x \in responses : Covered(x)
    /\ \A s \in Slots : pc[s] \in Verifying => Covered(req[s].response)
    /\ \A x \in ceremonies : Covered(x)

\* Unless logins overlapped, the counter that a login has read is still stored.
FloorRight ==
    \A s \in Slots : pc[s] = "assert" /\ req[s].row \notin raced =>
        req[s].floor = credentials[req[s].row].signCount

CounterInv == SignedRight /\ KeysStored /\ FloorRight /\ CounterIsHighest

LEMMA CounterInit == Init => CounterInv
BY DEF Init, CounterInv, SignedRight, Verifying, KeysStored, FloorRight, CounterIsHighest

\* Requests come from what was signed, and counters only grow.
LEMMA SignedCalm ==
    ASSUME SignedRight, UNCHANGED <<counter, responses, ceremonies>>,
           \A t \in Slots : pc'[t] \in Verifying =>
               \/ pc[t] \in Verifying /\ req'[t].response = req[t].response
               \/ req'[t].response \in responses
    PROVE  SignedRight'
BY DEF SignedRight, Covered

\* A request ends with a ceremony that shows what it brought.
LEMMA SignedSuccess ==
    ASSUME TypeOK, SignedRight, NEW s \in Slots, pc[s] \in Given, Done(s),
           UNCHANGED <<counter, responses>>, NEW p, NEW w,
           ceremonies' = ceremonies \cup {Success(s, p, w)}
    PROVE  SignedRight'
<1>1. \A t \in Slots : pc'[t] \in Verifying => pc[t] \in Verifying /\ req'[t] = req[t]
  BY DEF Done, TypeOK, RequestsOK, Verifying
<1>2. ASSUME NEW x, x = Success(s, p, w) PROVE Covered(x)
  <2>1. Covered(req[s].response)  BY DEF SignedRight, Given, Verifying
  <2>2. x.count = req[s].response.count /\ x.key = req[s].response.key  BY <1>2 DEF Success
  <2> QED BY <2>1, <2>2 DEF Covered
<1>3. \A x \in ceremonies' : Covered(x)  BY <1>2 DEF SignedRight
<1> QED BY <1>1, <1>3 DEF SignedRight, Covered

LEMMA SignSigned ==
    ASSUME TypeOK, SignedRight, NEW c \in ChallengeIds, NEW key \in Keys, Sign(c, key)
    PROVE  SignedRight'
<1>1. PICK n \in {counter[key], counter[key] + 1} :
          /\ counter' = [counter EXCEPT ![key] = n]
          /\ responses' = responses \cup
                {[purpose |-> challenges[c].purpose, challenge |-> c, key |-> key, count |-> n]}
  BY DEF Sign
<1>2. counter \in [Keys -> Nat] /\ responses \subseteq Response /\ ceremonies \subseteq Ceremony
  BY DEF TypeOK, SignedOK, CeremoniesOK
<1>3. n \in Nat /\ counter[key] <= n  BY <1>1, <1>2
<1>4. \A k \in Keys : counter[k] \in Nat /\ counter'[k] \in Nat /\ counter[k] <= counter'[k]
  BY <1>1, <1>2, <1>3
<1>5. ASSUME NEW x, x.key \in Keys, x.count \in Nat, Covered(x) PROVE x.count <= counter'[x.key]
  BY <1>4, <1>5 DEF Covered
<1>6. UNCHANGED <<pc, req, ceremonies>>  BY DEF Sign, history
<1>7. \A x \in ceremonies : x.count <= counter'[x.key]
  BY <1>2, <1>5 DEF SignedRight, Ceremony
<1>8. ASSUME NEW s \in Slots, pc[s] \in Verifying
      PROVE  req[s].response.count <= counter'[req[s].response.key]
  <2>1. req[s].response \in Response  BY <1>8 DEF TypeOK, RequestsOK, VerifyReq
  <2>2. Covered(req[s].response)  BY <1>8 DEF SignedRight
  <2> QED BY <1>5, <2>1, <2>2 DEF Response
<1>9. ASSUME NEW x \in responses' PROVE x.count <= counter'[x.key]
  <2>1. CASE x \in responses  BY <1>2, <1>5, <2>1 DEF SignedRight, Response
  <2>2. CASE x = [purpose |-> challenges[c].purpose, challenge |-> c, key |-> key, count |-> n]
    <3>1. x.key = key /\ x.count = n  BY <2>2
    <3> QED BY <1>1, <1>2, <1>3, <3>1
  <2> QED BY <1>1, <2>1, <2>2
<1> QED BY <1>6, <1>7, <1>8, <1>9 DEF SignedRight, Covered

\* A step that writes neither credentials nor ceremonies, and begins no check.
LEMMA CounterCalm ==
    ASSUME CounterInv, SignedRight', UNCHANGED <<credentials, ceremonies, raced>>,
           \A t \in Slots : pc'[t] = "assert" => pc[t] = "assert" /\ req'[t] = req[t]
    PROVE  CounterInv'
<1>1. KeysStored'  BY DEF CounterInv, KeysStored, HasKey, Registered
<1>2. FloorRight'  BY DEF CounterInv, FloorRight
<1>3. CounterIsHighest'  BY DEF CounterInv, CounterIsHighest, Registered
<1> QED BY <1>1, <1>2, <1>3 DEF CounterInv

LEMMA RefusedCounter ==
    ASSUME TypeOK, CounterInv, NEW s \in Slots, Done(s),
           UNCHANGED <<credentials, counter, responses, history>>
    PROVE  CounterInv'
<1>1. \A t \in Slots : /\ pc'[t] = "assert" => pc[t] = "assert" /\ req'[t] = req[t]
                       /\ pc'[t] \in Verifying => pc[t] \in Verifying /\ req'[t] = req[t]
  BY DEF Done, TypeOK, RequestsOK, Verifying
<1>2. SignedRight'  BY <1>1, SignedCalm DEF CounterInv, history
<1> QED BY <1>1, <1>2, CounterCalm DEF history

LEMMA RequestCounter ==
    ASSUME TypeOK, CounterInv, NEW s \in Slots, Request(s)
    PROVE  CounterInv'
<1>1. SUFFICES ASSUME NEW next \in {"create", "consume"}, NEW r, Enter(s, next, r),
                      next = "consume" => r.response \in responses
               PROVE  CounterInv'
  BY DEF Request, OptionsRequest, VerifyRequest
<1>2. UNCHANGED <<credentials, counter, responses, ceremonies, raced>>  BY <1>1 DEF Enter, history
<1>3. \/ UNCHANGED <<pc, req>>
      \/ pc' = [pc EXCEPT ![s] = next] /\ req' = [req EXCEPT ![s] = r]
  BY <1>1 DEF Enter
<1>4. \A t \in Slots : pc'[t] = "assert" => pc[t] = "assert" /\ req'[t] = req[t]
  BY <1>3 DEF TypeOK, RequestsOK
<1>5. \A t \in Slots : pc'[t] \in Verifying =>
          \/ pc[t] \in Verifying /\ req'[t].response = req[t].response
          \/ req'[t].response \in responses
  BY <1>1, <1>3 DEF TypeOK, RequestsOK, Verifying
<1>6. SignedRight'  BY <1>2, <1>5, SignedCalm DEF CounterInv
<1> QED BY <1>2, <1>4, <1>6, CounterCalm

LEMMA SelectCredentialCounter ==
    ASSUME TypeOK, CounterInv, NEW s \in Slots, NEW r \in RowIds, SelectCredential(s, r)
    PROVE  CounterInv'
<1>1. req[s] \in VerifyReq /\ pc[s] \in Verifying
  BY DEF SelectCredential, TypeOK, RequestsOK, Verifying
<1>2. /\ req'[s] = [req[s] EXCEPT !.row = r, !.floor = credentials[r].signCount]
      /\ \A t \in Slots : t # s => req'[t] = req[t] /\ pc'[t] = pc[t]
  BY DEF SelectCredential, TypeOK, RequestsOK
<1>3. /\ req'[s].row = r /\ req'[s].floor = credentials[r].signCount
      /\ req'[s].response = req[s].response
  BY <1>1, <1>2 DEF VerifyReq
<1>4. UNCHANGED <<credentials, counter, responses, ceremonies, raced>>  BY DEF SelectCredential, history
<1>5. FloorRight'
  <2>1. FloorRight  BY DEF CounterInv
  <2>2. ASSUME NEW t \in Slots, pc'[t] = "assert", req'[t].row \notin raced
        PROVE  req'[t].floor = credentials[req'[t].row].signCount
    <3>1. CASE t = s  BY <1>3, <3>1
    <3>2. CASE t # s  BY <1>2, <2>1, <2>2, <3>2 DEF FloorRight
    <3> QED BY <3>1, <3>2
  <2> QED BY <1>4, <2>2 DEF FloorRight
<1>6. KeysStored'  BY <1>4 DEF CounterInv, KeysStored, HasKey, Registered
<1>7. CounterIsHighest'  BY <1>4 DEF CounterInv, CounterIsHighest, Registered
<1>8. SignedRight'
  <2>1. \A t \in Slots : pc'[t] \in Verifying =>
            pc[t] \in Verifying /\ req'[t].response = req[t].response
    BY <1>1, <1>2, <1>3
  <2> QED BY <1>4, <2>1, SignedCalm DEF CounterInv
<1> QED BY <1>5, <1>6, <1>7, <1>8 DEF CounterInv

\* The credential is known, and stays: the counter it has is nobody's concern.
LEMMA SelectExistingCounter ==
    ASSUME TypeOK, HeldRight, CounterInv, NEW s \in Slots, SelectExisting(s)
    PROVE  CounterInv'
<1>1. UNCHANGED <<credentials, counter, responses, raced>>  BY DEF SelectExisting
<1>2. CASE /\ Taken(req[s].app, req[s].response.key) /\ Done(s)
           /\ ceremonies' = ceremonies \cup {Success(s, "register", FALSE)}
  <2> DEFINE new == Success(s, "register", FALSE)
  <2>1. /\ new.wrote = FALSE /\ new.app = req[s].app /\ new.key = req[s].response.key
        /\ ceremonies' = ceremonies \cup {new}
    BY <1>2 DEF Success
  <2> HIDE DEF new
  <2>2. \A t \in Slots : pc'[t] = "assert" => pc[t] = "assert" /\ req'[t] = req[t]
    BY <1>2 DEF Done, TypeOK, RequestsOK
  <2>3. SignedRight'
    <3>1. pc[s] \in Given  BY DEF SelectExisting, Given
    <3> QED BY <1>1, <1>2, <3>1, SignedSuccess DEF CounterInv
  <2>4. KeysStored'
    <3>1. \E r \in RowIds : HasKey(r, new.app, new.key)  BY <1>2, <2>1 DEF Taken
    <3>2. \A x \in ceremonies' : \E r \in RowIds : HasKey(r, x.app, x.key)
      BY <2>1, <3>1 DEF CounterInv, KeysStored
    <3> QED BY <1>1, <3>2 DEF KeysStored, HasKey, Registered
  <2>5. FloorRight'  BY <1>1, <2>2 DEF CounterInv, FloorRight
  <2>6. CounterIsHighest'  BY <1>1, <2>1 DEF CounterInv, CounterIsHighest, Registered
  <2> QED BY <2>3, <2>4, <2>5, <2>6 DEF CounterInv
<1>3. CASE pc' = [pc EXCEPT ![s] = "insert"] /\ UNCHANGED <<req, ceremonies>>
  <2>1. \A t \in Slots : pc'[t] = "assert" => pc[t] = "assert" /\ req'[t] = req[t]
    BY <1>3 DEF TypeOK, RequestsOK
  <2>2. \A t \in Slots : pc'[t] \in Verifying => pc[t] \in Verifying /\ req'[t] = req[t]
    BY <1>3 DEF SelectExisting, TypeOK, RequestsOK, Verifying
  <2>3. SignedRight'  BY <1>1, <1>3, <2>2, SignedCalm DEF CounterInv
  <2> QED BY <1>1, <1>3, <2>1, <2>3, CounterCalm
<1> QED BY <1>2, <1>3 DEF SelectExisting

LEMMA InsertCredentialCounter ==
    ASSUME IInv, CounterInv, NEW s \in Slots, NEW r \in RowIds, InsertCredential(s, r)
    PROVE  CounterInv'
<1> DEFINE row == [app |-> req[s].app, client |-> req[s].client, key |-> req[s].response.key,
                   signCount |-> req[s].response.count]
           new == Success(s, "register", TRUE)
<1>1. TypeOK /\ HeldRight /\ RowRight  BY DEF IInv, ChallengeInv, CredentialInv
<1>2. /\ ceremonies' = ceremonies \cup {new} /\ Done(s) /\ raced' = raced
      /\ ~Registered(r) /\ \A q \in RowIds : ~HasKey(q, req[s].app, req[s].response.key)
  BY DEF InsertCredential, Taken
<1>3. /\ credentials'[r] = row
      /\ \A q \in RowIds : q # r => credentials'[q] = credentials[q]
  BY <1>1 DEF InsertCredential, TypeOK, TablesOK
<1>4. row \in Credential /\ req[s].response.count \in Nat
  <2>1. pc[s] \in Given /\ Holds(s) /\ "register" \in Purposes
    BY <1>1 DEF InsertCredential, HeldRight, Given, Purposes
  <2>2. req[s] \in VerifyReq  BY <1>1, <2>1, CeremonyType
  <2> QED BY <2>2 DEF VerifyReq, Response, Credential
<1>5. row # NoCredential
  <2>1. DOMAIN row # DOMAIN NoCredential  BY DEF NoCredential
  <2> QED BY <2>1
<1>6. /\ row.app = req[s].app /\ row.key = req[s].response.key /\ row.signCount = req[s].response.count
      /\ new.app = req[s].app /\ new.key = req[s].response.key /\ new.count = req[s].response.count
  BY DEF Success
<1>11. SignedRight'
  <2>1. pc[s] \in Given /\ UNCHANGED <<counter, responses>>  BY DEF InsertCredential, Given
  <2> QED BY <1>1, <1>2, <2>1, SignedSuccess DEF CounterInv
<1> HIDE DEF row, new
<1>7. KeysStored /\ FloorRight /\ CounterIsHighest  BY DEF CounterInv
<1>8. KeysStored'
  <2>1. ASSUME NEW x \in ceremonies' PROVE \E q \in RowIds : HasKey(q, x.app, x.key)'
    <3>1. CASE x \in ceremonies
      <4>1. PICK q \in RowIds : HasKey(q, x.app, x.key)  BY <1>7, <3>1 DEF KeysStored
      <4>2. q # r  BY <1>2, <4>1 DEF HasKey
      <4> QED BY <1>3, <4>1, <4>2 DEF HasKey, Registered
    <3>2. CASE x = new  BY <1>3, <1>5, <1>6, <3>2 DEF HasKey, Registered
    <3> QED BY <1>2, <3>1, <3>2
  <2> QED BY <2>1 DEF KeysStored
<1>9. FloorRight'
  <2>1. \A t \in Slots : pc'[t] = "assert" => pc[t] = "assert" /\ req'[t] = req[t]
    BY <1>1, <1>2 DEF Done, TypeOK, RequestsOK
  <2>2. \A t \in Slots : pc[t] = "assert" => req[t].row \in RowIds /\ req[t].row # r
    BY <1>1, <1>2 DEF RowRight
  <2> QED BY <1>2, <1>3, <1>7, <2>1, <2>2 DEF FloorRight
<1>10. CounterIsHighest'
  <2>1. ASSUME NEW q \in RowIds, Registered(q)', q \notin raced, NEW x \in ceremonies',
               x.wrote, x.app = credentials'[q].app, x.key = credentials'[q].key
        PROVE  x.count <= credentials'[q].signCount
    <3>1. CASE q = r
      <4>1. ~(x \in ceremonies)  BY <1>2, <1>3, <1>6, <1>7, <2>1, <3>1 DEF KeysStored
      <4>2. x = new  BY <1>2, <4>1
      <4> QED BY <1>3, <1>4, <1>6, <3>1, <4>2
    <3>2. CASE q # r
      <4>1. Registered(q) /\ credentials'[q] = credentials[q]  BY <1>3, <2>1, <3>2 DEF Registered
      <4>2. x # new
        <5>1. ~HasKey(q, req[s].app, req[s].response.key)  BY <1>2
        <5> QED BY <1>6, <2>1, <4>1, <5>1 DEF HasKey
      <4>3. x \in ceremonies  BY <1>2, <4>2
      <4> QED BY <1>7, <2>1, <4>1, <4>3 DEF CounterIsHighest
    <3> QED BY <3>1, <3>2
  <2> QED BY <1>2, <2>1 DEF CounterIsHighest
<1> QED BY <1>8, <1>9, <1>10, <1>11 DEF CounterInv

LEMMA UpdateCounterCounter ==
    ASSUME IInv, CounterInv, NEW s \in Slots, UpdateCounter(s)
    PROVE  CounterInv'
<1> DEFINE r == req[s].row
           n == req[s].response.count
           new == Success(s, "login", TRUE)
<1>1. TypeOK /\ HeldRight /\ RowRight /\ StoredOnce  BY DEF IInv, ChallengeInv, CredentialInv
<1>2. pc[s] = "assert" /\ ceremonies' = ceremonies \cup {new} /\ Done(s) /\ CounterAccepted(s)
  BY DEF UpdateCounter
<1>3. /\ r \in RowIds /\ credentials[r] \in Credential /\ Registered(r)
      /\ credentials[r].app = req[s].app /\ credentials[r].key = req[s].response.key
  BY <1>1, <1>2 DEF RowRight, Registered, TypeOK, TablesOK
<1>4. n \in Nat /\ req[s].floor \in Nat /\ credentials[r].signCount \in Nat
  <2>1. req[s] \in VerifyReq  BY <1>1, <1>2 DEF TypeOK, RequestsOK, Verifying
  <2> QED BY <1>3, <2>1 DEF VerifyReq, Response, Credential
<1>5. /\ r \notin raced' =>
             /\ \A t \in Slots \ {s} : pc[t] = "assert" => req[t].row # r
             /\ r \notin raced \/ n = counter[req[s].response.key]
      /\ \A q \in RowIds \ {r} : q \in raced => q \in raced'
  <2>1. /\ Overlapped(s) => raced' = raced \cup {r}
        /\ ~Overlapped(s) /\ n = counter[req[s].response.key] => raced' = raced \ {r}
        /\ ~Overlapped(s) /\ n # counter[req[s].response.key] => raced' = raced
    BY DEF UpdateCounter
  <2> QED BY <2>1 DEF Overlapped
<1>6. /\ credentials'[r] = [credentials[r] EXCEPT !.signCount = n]
      /\ \A q \in RowIds : q # r => credentials'[q] = credentials[q]
  BY <1>1, <1>3 DEF UpdateCounter, NewCounter, TypeOK, TablesOK
<1>7. /\ credentials'[r].app = credentials[r].app /\ credentials'[r].key = credentials[r].key
      /\ credentials'[r].signCount = n /\ credentials'[r] # NoCredential
  <2>1. DOMAIN credentials'[r] = DOMAIN credentials[r]  BY <1>3, <1>6 DEF Credential
  <2>2. DOMAIN credentials[r] # DOMAIN NoCredential  BY <1>3 DEF Credential, NoCredential
  <2> QED BY <1>3, <1>6, <2>1, <2>2 DEF Credential
<1>8. new.app = req[s].app /\ new.key = req[s].response.key /\ new.count = n  BY DEF Success
<1>9. \A t \in Slots : pc'[t] = "assert" => t # s /\ pc[t] = "assert" /\ req'[t] = req[t]
  BY <1>1, <1>2 DEF Done, TypeOK, RequestsOK
<1>10. KeysStored /\ FloorRight /\ CounterIsHighest /\ SignedRight  BY DEF CounterInv
<1>15. SignedRight'
  <2>1. pc[s] \in Given /\ UNCHANGED <<counter, responses>>  BY DEF UpdateCounter, Given
  <2> QED BY <1>1, <1>2, <1>10, <2>1, SignedSuccess
<1> HIDE DEF new, r, n
<1>11. r \notin raced => n >= credentials[r].signCount
  BY <1>2, <1>4, <1>10 DEF FloorRight, CounterAccepted, r, n
<1>12. KeysStored'
  <2>1. ASSUME NEW q \in RowIds, NEW app, NEW key, HasKey(q, app, key) PROVE HasKey(q, app, key)'
    <3>1. CASE q = r  BY <1>7, <2>1, <3>1 DEF HasKey, Registered
    <3>2. CASE q # r  BY <1>6, <2>1, <3>2 DEF HasKey, Registered
    <3> QED BY <3>1, <3>2
  <2>2. HasKey(r, new.app, new.key)  BY <1>3, <1>8 DEF HasKey
  <2> QED BY <1>2, <1>3, <1>10, <2>1, <2>2 DEF KeysStored
<1>13. FloorRight'
  <2>1. ASSUME NEW t \in Slots, pc'[t] = "assert", req'[t].row \notin raced'
        PROVE  req'[t].floor = credentials'[req'[t].row].signCount
    <3>1. t \in Slots \ {s} /\ pc[t] = "assert" /\ req'[t] = req[t] /\ req[t].row \in RowIds
      BY <1>1, <1>9, <2>1 DEF RowRight
    <3>2. req[t].row # r  BY <1>5, <2>1, <3>1
    <3>3. req[t].row \notin raced  BY <1>5, <2>1, <3>1, <3>2
    <3> QED BY <1>6, <1>10, <3>1, <3>2, <3>3 DEF FloorRight
  <2> QED BY <2>1 DEF FloorRight
<1>14. CounterIsHighest'
  <2>1. ASSUME NEW q \in RowIds, Registered(q)', q \notin raced', NEW x \in ceremonies',
               x.wrote, x.app = credentials'[q].app, x.key = credentials'[q].key
        PROVE  x.count <= credentials'[q].signCount
    <3>2. CASE q = r
      <4>1. CASE x \in ceremonies
        <5>1. CASE r \notin raced
          <6>1. x.count <= credentials[r].signCount
            BY <1>3, <1>7, <1>10, <2>1, <3>2, <4>1, <5>1 DEF CounterIsHighest
          <6>2. x.count \in Nat  BY <1>1, <4>1 DEF TypeOK, CeremoniesOK, Ceremony
          <6> QED BY <1>4, <1>7, <1>11, <3>2, <5>1, <6>1, <6>2 DEF n
        <5>2. CASE n = counter[req[s].response.key]
          <6>1. Covered(x)  BY <1>10, <4>1 DEF SignedRight
          <6>2. x.key = req[s].response.key  BY <1>3, <1>7, <2>1, <3>2
          <6> QED BY <1>7, <3>2, <5>2, <6>1, <6>2 DEF Covered
        <5> QED BY <1>5, <2>1, <3>2, <5>1, <5>2
      <4>2. CASE x = new  BY <1>4, <1>7, <1>8, <3>2, <4>2 DEF n
      <4> QED BY <1>2, <4>1, <4>2
    <3>3. CASE q # r
      <4>1. Registered(q) /\ credentials'[q] = credentials[q] /\ q \notin raced
        BY <1>5, <1>6, <2>1, <3>3 DEF Registered
      <4>2. x # new
        <5> SUFFICES ASSUME x = new PROVE FALSE
          OBVIOUS
        <5>1. HasKey(r, credentials[q].app, credentials[q].key)
          BY <1>3, <1>8, <2>1, <4>1 DEF HasKey
        <5> QED BY <1>1, <1>3, <3>3, <4>1, <5>1 DEF StoredOnce
      <4>3. x \in ceremonies  BY <1>2, <4>2
      <4> QED BY <1>10, <2>1, <4>1, <4>3 DEF CounterIsHighest
    <3> QED BY <3>2, <3>3
  <2> QED BY <2>1 DEF CounterIsHighest
<1> QED BY <1>12, <1>13, <1>14, <1>15 DEF CounterInv

LEMMA CounterStep == IInv /\ CounterInv /\ [Next]_vars => CounterInv'
<1> SUFFICES ASSUME IInv, CounterInv, [Next]_vars PROVE CounterInv'
  OBVIOUS
<1>1. TypeOK /\ HeldRight  BY DEF IInv, ChallengeInv
<1>2. ASSUME NEW s \in Slots, Request(s) PROVE CounterInv'
  BY <1>1, <1>2, RequestCounter
<1>3. ASSUME NEW s \in Slots, Continue(s) PROVE CounterInv'
  <2>1. ASSUME NEW c \in ChallengeIds, CreateChallenge(s, c) PROVE CounterInv'
    BY <1>1, <2>1, RefusedCounter DEF CreateChallenge
  <2>2. ASSUME NEW c \in ChallengeIds, SelectChallenge(s, c) PROVE CounterInv'
    <3>1. \A t \in Slots : pc'[t] = "assert" => pc[t] = "assert" /\ req'[t] = req[t]
      BY <1>1, <2>2 DEF SelectChallenge, TypeOK, RequestsOK
    <3>2. \A t \in Slots : pc'[t] \in Verifying =>
              pc[t] \in Verifying /\ req'[t].response = req[t].response
      <4>1. req[s] \in VerifyReq /\ pc[s] \in Verifying
        BY <1>1, <2>2 DEF SelectChallenge, TypeOK, RequestsOK, Verifying
      <4>2. /\ req'[s] = [req[s] EXCEPT !.challenge = c]
            /\ \A t \in Slots : t # s => pc'[t] = pc[t] /\ req'[t] = req[t]
        BY <1>1, <2>2 DEF SelectChallenge, TypeOK, RequestsOK
      <4>3. req'[s].response = req[s].response  BY <4>1, <4>2 DEF VerifyReq
      <4> QED BY <4>1, <4>2, <4>3
    <3>3. SignedRight'  BY <2>2, <3>2, SignedCalm DEF CounterInv, SelectChallenge, history
    <3> QED BY <2>2, <3>1, <3>3, CounterCalm DEF SelectChallenge, history
  <2>3. CASE MarkUsed(s)
    <3>1. req[s].purpose # "assert"
      <4>1. req[s] \in VerifyReq  BY <1>1, <2>3 DEF MarkUsed, TypeOK, RequestsOK, Verifying
      <4> QED BY <4>1 DEF VerifyReq, Purposes
    <3>2. \A t \in Slots : pc'[t] = "assert" => pc[t] = "assert" /\ req'[t] = req[t]
      BY <1>1, <2>3, <3>1 DEF MarkUsed, TypeOK, RequestsOK
    <3>3. \A t \in Slots : pc'[t] \in Verifying => pc[t] \in Verifying /\ req'[t] = req[t]
      BY <1>1, <2>3 DEF MarkUsed, TypeOK, RequestsOK, Verifying
    <3>4. SignedRight'  BY <2>3, <3>3, SignedCalm DEF CounterInv, MarkUsed
    <3> QED BY <2>3, <3>2, <3>4, CounterCalm DEF MarkUsed
  <2>4. CASE \/ NoChallenge(s) \/ RefuseAttestation(s) \/ InsertRefused(s)
             \/ NoSuchCredential(s) \/ RefuseAssertion(s)
    BY <1>1, <2>4, RefusedCounter
       DEF NoChallenge, RefuseAttestation, InsertRefused, NoSuchCredential, RefuseAssertion, Refused
  <2>5. CASE SelectExisting(s)  BY <1>1, <2>5, SelectExistingCounter
  <2>6. CASE UpdateCounter(s)  BY <2>6, UpdateCounterCounter
  <2>7. ASSUME NEW r \in RowIds, InsertCredential(s, r) \/ SelectCredential(s, r) PROVE CounterInv'
    BY <1>1, <2>7, InsertCredentialCounter, SelectCredentialCounter
  <2> QED BY <1>3, <2>1, <2>2, <2>3, <2>4, <2>5, <2>6, <2>7 DEF Continue
<1>4. ASSUME NEW s \in Slots, Fail(s) PROVE CounterInv'
  BY <1>1, <1>4, RefusedCounter DEF Fail
<1>5. CASE UNCHANGED <<credentials, counter, responses, ceremonies, raced, pc, req>>
  BY <1>5, CounterCalm, SignedCalm DEF CounterInv
<1>6. ASSUME NEW c \in ChallengeIds, NEW key \in Keys, Sign(c, key) PROVE CounterInv'
  <2>1. SignedRight'  BY <1>1, <1>6, SignSigned DEF CounterInv
  <2> QED BY <1>6, <2>1, CounterCalm DEF Sign, history
<1>7. CASE Tick  BY <1>5, <1>7 DEF Tick, history
<1>8. CASE UNCHANGED vars  BY <1>5, <1>8 DEF vars
<1> QED BY <1>2, <1>3, <1>4, <1>6, <1>7, <1>8 DEF Next

\* verifyLogin reads, checks and writes sign_count in three statements: the stored
\* counter is the highest that a login, or the registration that stored the
\* credential, has shown.  Logins that overlap put a row in doubt, until a login
\* that no other one overlaps brings the newest count of its authenticator.
THEOREM CounterHolds == Spec => []CounterIsHighest
<1>1. CounterInv => CounterIsHighest  BY DEF CounterInv
<1> QED BY <1>1, InvInit, InvStep, CounterInit, CounterStep, PTL DEF Spec

=============================================================================
