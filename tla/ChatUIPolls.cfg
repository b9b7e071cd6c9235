CONSTANTS
    MaxFlows = 1
    MaxErrors = 5
    None = None
SPECIFICATION FairSpec
PROPERTY PollingGivesUp
CHECK_DEADLOCK FALSE
