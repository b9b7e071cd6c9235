CONSTANTS
    Approvers = {}
    Deciders = {}
    Reverters = {}
    Files = {f1}
    Commands = {"node"}
    Category <- MCCategory
    Free = "free"
    Detaching = {}
    None = None
    MaxSteps = 1
    MaxToolCalls = 1
    MaxNudges = 0
    MaxRetries = 0
    FileCap = 1
SPECIFICATION Spec
INVARIANT CompletedRunHasFiles
CHECK_DEADLOCK FALSE
