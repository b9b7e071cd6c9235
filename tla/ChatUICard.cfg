CONSTANTS
    MaxFlows = 2
    MaxErrors = 1
    None = None
SPECIFICATION Spec
INVARIANT CardDrivesItsRun
CHECK_DEADLOCK FALSE
