SPECIFICATION FairSpec
CONSTANTS
    Total = 2
    Pool = {w1, w2}
    None = None
    Plans <- MCPlans
INVARIANTS
    GreenMeansClean
    MeasuredToTheEnd
    NoFixtureLeft
PROPERTY Terminates
CHECK_DEADLOCK FALSE
