CONSTANTS
    Receivers = {r1}
    Messages = {m1, m2}
    Handlers = {h1, h2}
    Commands = {c1}
    INBOUND_TIMESTAMP_SKEW_SECONDS = 1
    RECEIVER_HEARTBEAT_TIMEOUT_SECONDS = 4
    WindowSeconds = 2
    PerIp = 3
    PerReceiver = 2
    PerApp = 1
    PerHeartbeat = 1
    Offsets = {1}
    MaxStall = 1
    MaxArrivals = 2
    MaxRuns = 2
    MaxFaults = 1
SYMMETRY Symmetry
SPECIFICATION Spec
INVARIANTS
    AppWithinLimit
    HeardMeansHealthy
    DisabledIsObeyed
PROPERTIES
    AcceptedApart
