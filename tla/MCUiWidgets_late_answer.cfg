SPECIFICATION Spec
CONSTANTS
    Kinds = {"element"}
    Ids = {v1, v2}
    Polls = {p1, p2}
    MaxInstances = 2
    MaxErrors = 1
    Second = 2
    ExpiresAt = 2
    Deadline = 2
    MaxClock = 2
    None = None
PROPERTY NeverReopened
CHECK_DEADLOCK FALSE
