CONSTANTS
    Approvers = {}
    Deciders = {}
    Reverters = {r1, r2}
    Files = {f1, f2}
    Commands = {"node"}
    Category <- MCCategory
    Free = "free"
    Detaching = {}
    None = None
    MaxSteps = 2
    MaxToolCalls = 1
    MaxNudges = 0
    MaxRetries = 0
    FileCap = 2
SPECIFICATION Spec
SYMMETRY Symmetry
CONSTRAINT Untampered
INVARIANTS
    ReportIsFaithful
    RevertRestoresBuild
    StepsInOrder
CHECK_DEADLOCK FALSE
