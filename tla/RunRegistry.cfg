CONSTANTS
    Runs = {r1, r2, r3, r4}
    Reverters = {h1, h2}
    MaxRuns = 2
    None = None
    MaxTime = 1
    MaxRestarts = 1
SPECIFICATION Spec
SYMMETRY Symmetry
INVARIANTS
    TypeOK
    LiveRunsAreKept
    RetentionBound
    LeaksAreKnown
PROPERTY EvictsUnderPressure
CHECK_DEADLOCK FALSE
