CONSTANTS
    Runs = {r1, r2, r3, r4}
    Reverters = {}
    MaxRuns = 2
    None = None
    MaxTime = 0
    MaxRestarts = 0
SPECIFICATION Spec
INVARIANT StartReturnsSnapshot
CHECK_DEADLOCK FALSE
