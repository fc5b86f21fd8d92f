------------------------------ MODULE MCServer ------------------------------
(***************************************************************************)
(* Small instances of Server for TLC.                                      *)
(***************************************************************************)
EXTENDS Server, TLC

MCAppOf == [r \in Receivers |-> CHOOSE a \in Apps : TRUE]
MCOperatorOf == [r \in Receivers |-> IF r = 1 /\ Operators # {} THEN CHOOSE o \in Operators : TRUE ELSE None]
MCAllTypes == {Terminal}

\* A database in which the ceremony of one (app, phone) is over.  Used with a
\* single binding id.
MCApp == CHOOSE a \in Apps : TRUE
MCPhone == CHOOSE p \in Phones : TRUE
MCBound == [app |-> MCApp, receiver |-> 1, phone |-> MCPhone, status |-> "verified",
            expiresAt |-> 1, boundAt |-> 0, revokedAt |-> None]
BoundInit ==
    /\ InitRest
    /\ bindings = [b \in BindingIds |-> MCBound]
    /\ endpoints = [e \in EndpointIds |-> NoRow]

BoundSpec == BoundInit /\ [][Next]_vars

\* For liveness: one more verification, pending since before the clock began,
\* due to expire at its start or later, and one endpoint; receivers stay as they
\* are and the binding is not revoked, because no request waits for either.
MCOld == CHOOSE v \in VerificationIds : TRUE
MCEndpoint == CHOOSE e \in EndpointIds : TRUE
QuietInit ==
    /\ clock = 0
    /\ receivers = [r \in Receivers |-> [enabled |-> TRUE, lastHeartbeatAt |-> 0]]
    /\ \E t \in {0, 1} :
          verifications = [v \in VerificationIds |->
              IF v # MCOld THEN NoRow
              ELSE [app |-> MCApp, phone |-> MCPhone, receiver |-> 1,
                    code |-> CHOOSE c \in Codes : TRUE, status |-> "pending",
                    expiresAt |-> t, verifiedAt |-> None, matchedInboundId |-> None]]
    /\ inbound = [m \in SmsIds |-> NoRow]
    /\ bindings = [b \in BindingIds |-> MCBound]
    /\ endpoints = [e \in EndpointIds |->
          IF e # MCEndpoint THEN NoRow
          ELSE [status |-> "enabled", app |-> MCApp, eventTypes |-> Terminal]]
    /\ events = [v \in VerificationIds |-> <<>>]
    /\ deliveries = {}
    /\ pc = [s \in Slots |-> "idle"]
    /\ req = [s \in Slots |-> NoReq]
    /\ told = [v \in VerificationIds |-> {}]
    /\ answers = [m \in SmsIds |-> {}]

QuietNext ==
    \/ \E s \in Slots : Request(s) \/ Continue(s) \/ Fail(s)
    \/ \E e \in EndpointIds : DeleteEndpoint(e)

LiveSpec == QuietInit /\ [][QuietNext]_vars /\ Fairness

Symmetry == Permutations(Slots) \cup Permutations(VerificationIds)
            \cup Permutations(Codes) \cup Permutations(Keys) \cup Permutations(BindingIds)

=============================================================================
