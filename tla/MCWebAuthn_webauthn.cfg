SPECIFICATION MCSpec
CONSTANTS
    Apps = {a1}
    Clients = {c1, c2}
    Keys = {k1}
    ChallengeIds = {h1, h2, h3}
    RowIds = {r1, r2}
    Slots = {s1, s2}
    RATE_LIMIT_WEBAUTHN_PER_APP_PER_MIN = 1
    WEBAUTHN_CHALLENGE_TTL_SECONDS = 1
    Minute = 2
    MaxCounter = 2
    MaxClock = 1
    None = None
SYMMETRY Symmetry
INVARIANTS
    ChallengeUsedOnce
    LoginAfterRegister
    CounterIsHighest
