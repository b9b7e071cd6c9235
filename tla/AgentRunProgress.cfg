CONSTANTS
    Approvers = {a1}
    Deciders = {d1}
    Reverters = {}
    Files = {f1}
    Commands = {"rm"}
    Category <- MCCategory
    Free = "free"
    Detaching = {}
    None = None
    MaxSteps = 1
    MaxToolCalls = 3
    MaxNudges = 1
    MaxRetries = 1
    FileCap = 1
SPECIFICATION FairSpec
INVARIANTS
    TypeOK
    NoWorkBeforeApproval
    OneAllowOneCommand
    CancelStopsWork
PROPERTIES
    ImplementsLifecycle
    RunEnds
    DecisionResumes
    ApprovalReleases
CHECK_DEADLOCK FALSE
