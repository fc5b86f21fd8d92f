CONSTANTS
    Apps = {a1}
    Phones = {p1, p2}
    Receivers = {1}
    Operators = {}
    Codes = {c1}
    Keys = {k1, k2}
    VerificationIds = {}
    BindingIds = {b1, b2}
    EndpointIds = {}
    Slots = {s1, s2}
    MAX_PENDING_PER_PHONE = 1
    MAX_CODE_COLLISION_RETRIES = 2
    MAX_ENDPOINTS_PER_APP = 1
    VERIFICATION_TTL_SECONDS = 1
    PHONE_BINDING_TTL_SECONDS = 1
    RECEIVER_HEARTBEAT_TIMEOUT_SECONDS = 1
    MaxClock = 1
    AppOf <- MCAppOf
    OperatorOf <- MCOperatorOf
    Subscriptions <- MCAllTypes
    None = None
SPECIFICATION Spec
SYMMETRY Symmetry
INVARIANTS
    OneVerifiedBinding
    BindingProvedBySms
