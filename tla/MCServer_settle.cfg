CONSTANTS
    Apps = {a1}
    Phones = {p1, p2}
    Receivers = {1}
    Operators = {o1, o2}
    Codes = {c1, c2}
    Keys = {k1}
    VerificationIds = {v1, v2}
    BindingIds = {b1}
    EndpointIds = {}
    Slots = {s1, s2}
    MAX_PENDING_PER_PHONE = 1
    MAX_CODE_COLLISION_RETRIES = 2
    MAX_ENDPOINTS_PER_APP = 1
    VERIFICATION_TTL_SECONDS = 1
    PHONE_BINDING_TTL_SECONDS = 1
    RECEIVER_HEARTBEAT_TIMEOUT_SECONDS = 1
    MaxClock = 1
    AppOf <- MCAppOf
    OperatorOf <- MCOperatorOf
    Subscriptions <- MCAllTypes
    None = None
SPECIFICATION BoundSpec
SYMMETRY Symmetry
INVARIANTS
    PendingCap
    StartedOnlyIfBound
    LocksProtect
    TypeOK
    EventMatchesStatus
    VerifiedBySms
    ExpiredAfterTtl
    ToldIsKept
    OneOutcome
PROPERTIES
    RowsAreStable
    ImplementsLifecycle
