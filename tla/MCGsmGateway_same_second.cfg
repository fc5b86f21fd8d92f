CHECK_DEADLOCK FALSE
CONSTANTS
    Sms = {m1, m2}
    Indices = {1}
    Stamp <- MCOneStamp
    MAX_ATTEMPTS_4XX = 2
    SNAPSHOT_LIMIT = 1
    MaxCrashes = 0
    None = None
SPECIFICATION Spec
INVARIANTS
    NoSmsLost
