CONSTANTS
    Approvers = {}
    Deciders = {d1, d2}
    Reverters = {}
    Files = {f1}
    Commands = {"rm", "git"}
    Category <- MCCategory
    Free = "free"
    Detaching = {}
    None = None
    MaxSteps = 1
    MaxToolCalls = 2
    MaxNudges = 0
    MaxRetries = 0
    FileCap = 1
SPECIFICATION Spec
INVARIANT AllowedCommandWasShown
CHECK_DEADLOCK FALSE
