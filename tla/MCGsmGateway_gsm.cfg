CHECK_DEADLOCK FALSE
CONSTANTS
    Sms = {m1, m2}
    Indices = {1}
    Stamp <- MCDistinctStamps
    MAX_ATTEMPTS_4XX = 2
    SNAPSHOT_LIMIT = 2
    MaxCrashes = 1
    None = None
SPECIFICATION FairSpec
INVARIANTS
    NoSmsLost
    StoredOnce
PROPERTIES
    EverySmsHandled
