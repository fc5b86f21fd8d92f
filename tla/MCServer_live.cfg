CONSTANTS
    Apps = {a1}
    Phones = {p1}
    Receivers = {1}
    Operators = {}
    Codes = {c1}
    Keys = {k1}
    VerificationIds = {v1, v2}
    BindingIds = {b1}
    EndpointIds = {e1, e2, e3}
    Slots = {s1, s2}
    MAX_PENDING_PER_PHONE = 2
    MAX_CODE_COLLISION_RETRIES = 2
    MAX_ENDPOINTS_PER_APP = 1
    VERIFICATION_TTL_SECONDS = 1
    PHONE_BINDING_TTL_SECONDS = 1
    RECEIVER_HEARTBEAT_TIMEOUT_SECONDS = 1
    MaxClock = 0
    AppOf <- MCAppOf
    OperatorOf <- MCOperatorOf
    Subscriptions <- MCAllTypes
    None = None
SPECIFICATION LiveSpec
INVARIANTS
    DeliveriesHaveEvents
    EndpointCapOverrun
PROPERTIES
    RequestsEnd
