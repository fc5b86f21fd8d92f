------------------------------ MODULE WebAuthn ------------------------------
(***************************************************************************)
(* services/webauthn.ts and its routes: passkey ceremonies.  A backend     *)
(* asks for options (a challenge is stored), an authenticator signs the    *)
(* challenge, and the backend posts the signed response, possibly more     *)
(* than once and with requests overlapping.  The library is external: a    *)
(* response verifies if it signs the expected challenge for the expected   *)
(* ceremony and its counter is above the stored one (or both are zero).    *)
(* Options, attestation formats and transports are left out.               *)
(***************************************************************************)
EXTENDS Integers, FiniteSets, RateLimit

CONSTANTS
    Apps, Clients,                      \* client_ref
    Keys,                               \* credential ids of authenticators
    ChallengeIds, RowIds,               \* ids of challenges and credential rows
    Slots,                              \* requests in flight at a time
    RATE_LIMIT_WEBAUTHN_PER_APP_PER_MIN,
    WEBAUTHN_CHALLENGE_TTL_SECONDS,
    Minute,                             \* the rate window, in units of the clock
    MaxCounter, MaxClock,               \* bounds
    None

ASSUME WebAuthnAssumption ==
    /\ RATE_LIMIT_WEBAUTHN_PER_APP_PER_MIN \in Nat
    /\ WEBAUTHN_CHALLENGE_TTL_SECONDS \in Nat
    /\ Minute \in Nat \ {0}
    /\ MaxCounter \in Nat /\ MaxClock \in Nat
    /\ None \notin ChallengeIds /\ None \notin RowIds

Purposes == {"register", "login"}

VARIABLES
    clock,
    challenges,         \* webauthn_challenges
    credentials,        \* webauthn_credentials
    buckets,            \* the rate limit of each app
    counter,            \* the authenticators' signature counters
    responses,          \* what authenticators have signed
    pc, req,            \* the requests in flight
    uses,               \* history: ceremonies that were given this challenge
    ceremonies,         \* history: the ceremonies that succeeded
    raced               \* history: rows whose counter overlapping logins have put in doubt

vars == <<clock, challenges, credentials, buckets, counter, responses, pc, req,
          uses, ceremonies, raced>>
history == <<uses, ceremonies, raced>>

NoRow == [used |-> TRUE]
NoCredential == [key |-> None]
NoReq == [purpose |-> None]

Challenge == [app : Apps, client : Clients, purpose : Purposes, used : BOOLEAN,
              expiresAt : Nat, createdAt : Nat]
Credential == [app : Apps, client : Clients, key : Keys, signCount : Nat]
Response == [purpose : Purposes, challenge : ChallengeIds, key : Keys, count : Nat]

Stored(c) == challenges[c] # NoRow
Registered(r) == credentials[r] # NoCredential

-----------------------------------------------------------------------------
(* routes/webauthn.ts                                                      *)

\* requireKey, webauthnRateLimit: one bucket for all four routes.  Redis may
\* give no reply, and the request passes.
Enter(s, next, r) ==
    /\ LET bucket == Hit(buckets[r.app], clock, Minute, RATE_LIMIT_WEBAUTHN_PER_APP_PER_MIN)
       IN  \/ /\ buckets' = [buckets EXCEPT ![r.app] = bucket]
              /\ IF Allowed(bucket, RATE_LIMIT_WEBAUTHN_PER_APP_PER_MIN)
                   THEN pc' = [pc EXCEPT ![s] = next] /\ req' = [req EXCEPT ![s] = r]
                   ELSE UNCHANGED <<pc, req>>
           \/ /\ pc' = [pc EXCEPT ![s] = next] /\ req' = [req EXCEPT ![s] = r]
              /\ UNCHANGED buckets
    /\ UNCHANGED <<clock, challenges, credentials, counter, responses, history>>

OptionsRequest(s, app, client, purpose) ==
    /\ pc[s] = "idle"
    /\ Enter(s, "create", [purpose |-> purpose, app |-> app, client |-> client])

VerifyRequest(s, app, client, response) ==
    /\ pc[s] = "idle"
    /\ Enter(s, "consume", [purpose |-> response.purpose, app |-> app, client |-> client,
                            response |-> response, now |-> clock, challenge |-> None,
                            row |-> None, floor |-> 0])

Done(s) == pc' = [pc EXCEPT ![s] = "idle"] /\ req' = [req EXCEPT ![s] = NoReq]

-----------------------------------------------------------------------------
(* services/webauthn.ts, the challenge store                               *)

\* createChallenge: the row that is inserted.
NewChallenge(s) ==
    [app |-> req[s].app, client |-> req[s].client, purpose |-> req[s].purpose,
     used |-> FALSE, createdAt |-> clock,
     expiresAt |-> clock + WEBAUTHN_CHALLENGE_TTL_SECONDS]

\* buildRegisterOptions and buildLoginOptions: options are made, stored and
\* answered.
CreateChallenge(s, c) ==
    /\ pc[s] = "create"
    /\ ~Stored(c)
    /\ challenges' = [challenges EXCEPT ![c] = NewChallenge(s)]
    /\ Done(s)
    /\ UNCHANGED <<clock, credentials, buckets, counter, responses, history>>

\* Fault: no FOR UPDATE.
NeverLocked(c) == FALSE

\* A transaction of consumeChallenge that has selected c is open.
Locked(c) == \E t \in Slots : pc[t] = "mark" /\ req[t].challenge = c

\* The WHERE of consumeChallenge; now was read before the transaction.
Active(s, c) ==
    /\ Stored(c)
    /\ challenges[c].app = req[s].app
    /\ challenges[c].client = req[s].client
    /\ challenges[c].purpose = req[s].purpose
    /\ ~challenges[c].used
    /\ challenges[c].expiresAt > req[s].now

\* SELECT ... ORDER BY created_at DESC LIMIT 1 FOR UPDATE SKIP LOCKED.
SelectChallenge(s, c) ==
    /\ pc[s] = "consume"
    /\ Active(s, c) /\ ~Locked(c)
    /\ \A d \in ChallengeIds :
          Active(s, d) /\ ~Locked(d) => challenges[d].createdAt <= challenges[c].createdAt
    /\ pc' = [pc EXCEPT ![s] = "mark"]
    /\ req' = [req EXCEPT ![s].challenge = c]
    /\ UNCHANGED <<clock, challenges, credentials, buckets, counter, responses, history>>

\* 400 challenge_invalid.
NoChallenge(s) ==
    /\ pc[s] = "consume"
    /\ \A c \in ChallengeIds : ~Active(s, c) \/ Locked(c)
    /\ Done(s)
    /\ UNCHANGED <<clock, challenges, credentials, buckets, counter, responses, history>>

\* UPDATE ... SET used_at, and the commit.
MarkUsed(s) ==
    /\ pc[s] = "mark"
    /\ challenges' = [challenges EXCEPT ![req[s].challenge].used = TRUE]
    /\ uses' = [uses EXCEPT ![req[s].challenge] = @ + 1]
    /\ pc' = [pc EXCEPT ![s] = req[s].purpose]
    /\ UNCHANGED <<clock, credentials, buckets, counter, responses, req, ceremonies, raced>>

-----------------------------------------------------------------------------
(* services/webauthn.ts, verifyRegister                                    *)

\* expectedChallenge.
Signs(s) == req[s].response.challenge = req[s].challenge

HasKey(r, app, key) == Registered(r) /\ credentials[r].app = app /\ credentials[r].key = key

Refused(s) ==
    /\ Done(s)
    /\ UNCHANGED <<clock, challenges, credentials, buckets, counter, responses, history>>

\* 400 attestation_failed.
RefuseAttestation(s) == pc[s] = "register" /\ ~Signs(s) /\ Refused(s)

\* webauthn_credentials_lookup_uq.
Taken(app, key) == \E r \in RowIds : HasKey(r, app, key)

\* What a ceremony that succeeds has shown, and whether it wrote a credential.
Success(s, purpose, wrote) ==
    [purpose |-> purpose, challenge |-> req[s].challenge, app |-> req[s].app,
     client |-> req[s].client, key |-> req[s].response.key, count |-> req[s].response.count,
     wrote |-> wrote]

\* The attestation is good; is the credential known to the app, whoever has
\* registered it?  Then the ceremony has succeeded, and nothing is stored.
SelectExisting(s) ==
    /\ pc[s] = "register"
    /\ Signs(s)
    /\ IF Taken(req[s].app, req[s].response.key)
         THEN Done(s) /\ ceremonies' = ceremonies \cup {Success(s, "register", FALSE)}
         ELSE pc' = [pc EXCEPT ![s] = "insert"] /\ UNCHANGED <<req, ceremonies>>
    /\ UNCHANGED <<clock, challenges, credentials, buckets, counter, responses, uses, raced>>

\* The unique index refuses the row: 500.
InsertRefused(s) ==
    /\ pc[s] = "insert"
    /\ Taken(req[s].app, req[s].response.key)
    /\ Refused(s)

InsertCredential(s, r) ==
    /\ pc[s] = "insert"
    /\ ~Registered(r)
    /\ ~Taken(req[s].app, req[s].response.key)
    /\ credentials' = [credentials EXCEPT ![r] =
          [app |-> req[s].app, client |-> req[s].client, key |-> req[s].response.key,
           signCount |-> req[s].response.count]]
    /\ ceremonies' = ceremonies \cup {Success(s, "register", TRUE)}
    /\ Done(s)
    /\ UNCHANGED <<clock, challenges, buckets, counter, responses, uses, raced>>

-----------------------------------------------------------------------------
(* services/webauthn.ts, verifyLogin                                       *)

\* Fault: the credential is looked up without its client_ref.
IsKeyOf(s, r) == HasKey(r, req[s].app, req[s].response.key)

IsCredentialOf(s, r) ==
    /\ HasKey(r, req[s].app, req[s].response.key)
    /\ credentials[r].client = req[s].client

SelectCredential(s, r) ==
    /\ pc[s] = "login"
    /\ IsCredentialOf(s, r)
    /\ pc' = [pc EXCEPT ![s] = "assert"]
    /\ req' = [req EXCEPT ![s].row = r, ![s].floor = credentials[r].signCount]
    /\ UNCHANGED <<clock, challenges, credentials, buckets, counter, responses, history>>

\* 404.
NoSuchCredential(s) ==
    /\ pc[s] = "login"
    /\ \A r \in RowIds : ~IsCredentialOf(s, r)
    /\ Refused(s)

\* The library's check of the signature counter.
CounterAccepted(s) ==
    \/ req[s].response.count > req[s].floor
    \/ req[s].response.count = 0 /\ req[s].floor = 0

\* 400 assertion_failed.
RefuseAssertion(s) == pc[s] = "assert" /\ (~Signs(s) \/ ~CounterAccepted(s)) /\ Refused(s)

\* Fault: the counter that was read is written back.
StoreFloor(s) == req[s].floor

NewCounter(s) == req[s].response.count

\* Another login is between its SELECT and its UPDATE of the row.
Overlapped(s) == \E t \in Slots \ {s} : pc[t] = "assert" /\ req[t].row = req[s].row

\* UPDATE webauthn_credentials SET sign_count.  A counter that overlapping logins
\* have put in doubt is right again when a login that no other one overlaps
\* brings the newest count of its authenticator.
UpdateCounter(s) ==
    LET r == req[s].row
    IN  /\ pc[s] = "assert"
        /\ Signs(s) /\ CounterAccepted(s)
        /\ credentials' = [credentials EXCEPT ![r].signCount = NewCounter(s)]
        /\ ceremonies' = ceremonies \cup {Success(s, "login", TRUE)}
        /\ raced' = CASE Overlapped(s) -> raced \cup {r}
                      [] ~Overlapped(s) /\ req[s].response.count = counter[req[s].response.key] -> raced \ {r}
                      [] OTHER -> raced
        /\ Done(s)
        /\ UNCHANGED <<clock, challenges, buckets, counter, responses, uses>>

-----------------------------------------------------------------------------
\* A statement fails or the process dies: an open transaction is rolled back.
Fail(s) ==
    /\ pc[s] # "idle"
    /\ Done(s)
    /\ UNCHANGED <<clock, challenges, credentials, buckets, counter, responses, history>>

\* An authenticator signs a challenge the browser was given.  Some never count.
Sign(c, key) ==
    /\ Stored(c)
    /\ \A x \in responses : x.challenge # c
    /\ \E n \in {counter[key], counter[key] + 1} :
          /\ n <= MaxCounter
          /\ n = counter[key] => n = 0
          /\ counter' = [counter EXCEPT ![key] = n]
          /\ responses' = responses \cup
                {[purpose |-> challenges[c].purpose, challenge |-> c, key |-> key, count |-> n]}
    /\ UNCHANGED <<clock, challenges, credentials, buckets, pc, req, history>>

Tick ==
    /\ clock < MaxClock
    /\ clock' = clock + 1
    /\ UNCHANGED <<challenges, credentials, buckets, counter, responses, pc, req, history>>

Init ==
    /\ clock = 0
    /\ challenges = [c \in ChallengeIds |-> NoRow]
    /\ credentials = [r \in RowIds |-> NoCredential]
    /\ buckets = [a \in Apps |-> EmptyBucket]
    /\ counter = [k \in Keys |-> 0]
    /\ responses = {}
    /\ pc = [s \in Slots |-> "idle"]
    /\ req = [s \in Slots |-> NoReq]
    /\ uses = [c \in ChallengeIds |-> 0]
    /\ ceremonies = {}
    /\ raced = {}

Request(s) == \E app \in Apps, client \in Clients :
    \/ \E purpose \in Purposes : OptionsRequest(s, app, client, purpose)
    \/ \E response \in responses : VerifyRequest(s, app, client, response)

Continue(s) ==
    \/ \E c \in ChallengeIds : CreateChallenge(s, c) \/ SelectChallenge(s, c)
    \/ NoChallenge(s) \/ MarkUsed(s)
    \/ RefuseAttestation(s) \/ SelectExisting(s) \/ InsertRefused(s)
    \/ NoSuchCredential(s) \/ RefuseAssertion(s) \/ UpdateCounter(s)
    \/ \E r \in RowIds : InsertCredential(s, r) \/ SelectCredential(s, r)

Next ==
    \/ \E s \in Slots : Request(s) \/ Continue(s) \/ Fail(s)
    \/ \E c \in ChallengeIds, key \in Keys : Sign(c, key)
    \/ Tick

Spec == Init /\ [][Next]_vars

-----------------------------------------------------------------------------
\* consumeChallenge: however requests overlap, repeat or fail, at most one
\* ceremony is given a challenge, and at most one succeeds with it, for the
\* app, the client_ref and the purpose it was made for.
ChallengeUsedOnce ==
    /\ \A c \in ChallengeIds : uses[c] <= 1
    /\ \A x, y \in ceremonies : x.challenge = y.challenge => x = y
    /\ \A x \in ceremonies :
          LET c == challenges[x.challenge]
          IN  c.used /\ x.app = c.app /\ x.client = c.client /\ x.purpose = c.purpose

\* verifyRegister and verifyLogin: a credential is stored once per app, and a
\* login succeeds only for the client_ref that registered the credential: a
\* registration that found it stored already, by whomever, lets nobody log in.
LoginAfterRegister ==
    /\ \A q, r \in RowIds : Registered(q) /\ HasKey(r, credentials[q].app, credentials[q].key) => q = r
    /\ \A x \in ceremonies : x.purpose = "login" =>
          \E y \in ceremonies : /\ y.purpose = "register" /\ y.wrote
                                /\ <<y.app, y.client, y.key>> = <<x.app, x.client, x.key>>

\* verifyLogin reads, checks and writes the counter in separate statements: the
\* stored counter is the highest that a login, or the registration that stored the
\* credential, has shown.  Two logins that overlap may leave it too small, and it
\* is right again after the next login with the newest count.
CounterIsHighest ==
    \A r \in RowIds : Registered(r) /\ r \notin raced =>
        \A x \in ceremonies :
            x.wrote /\ x.app = credentials[r].app /\ x.key = credentials[r].key
                => x.count <= credentials[r].signCount

=============================================================================
