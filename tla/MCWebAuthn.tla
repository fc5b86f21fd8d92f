----------------------------- MODULE MCWebAuthn -----------------------------
EXTENDS WebAuthn, TLC

Used == CHOOSE c \in ChallengeIds : TRUE
App == CHOOSE a \in Apps : TRUE
Client == CHOOSE c \in Clients : TRUE
Key == CHOOSE k \in Keys : TRUE
Row == CHOOSE r \in RowIds : TRUE

\* One registration is over when the run begins: its challenge is used, and it
\* has succeeded or failed.
AfterRegistration ==
    /\ clock = 0
    /\ challenges = [c \in ChallengeIds |-> IF c # Used THEN NoRow ELSE
          [app |-> App, client |-> Client, purpose |-> "register", used |-> TRUE,
           expiresAt |-> WEBAUTHN_CHALLENGE_TTL_SECONDS, createdAt |-> 0]]
    /\ counter = [k \in Keys |-> 0]
    /\ responses = {[purpose |-> "register", challenge |-> Used, key |-> Key, count |-> 0]}
    /\ \E succeeded \in BOOLEAN :
          /\ credentials = [r \in RowIds |-> IF r # Row \/ ~succeeded THEN NoCredential ELSE
                [app |-> App, client |-> Client, key |-> Key, signCount |-> 0]]
          /\ ceremonies = IF ~succeeded THEN {} ELSE
                {[purpose |-> "register", challenge |-> Used, app |-> App, client |-> Client,
                  key |-> Key, count |-> 0, wrote |-> TRUE]}
    /\ buckets = [a \in Apps |-> EmptyBucket]
    /\ pc = [s \in Slots |-> "idle"]
    /\ req = [s \in Slots |-> NoReq]
    /\ uses = [c \in ChallengeIds |-> IF c = Used THEN 1 ELSE 0]
    /\ raced = {}

MCSpec == AfterRegistration /\ [][Next]_vars

Symmetry == Permutations(ChallengeIds \ {Used}) \cup Permutations(RowIds \ {Row})
            \cup Permutations(Slots)

=============================================================================
