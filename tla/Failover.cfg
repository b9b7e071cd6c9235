CONSTANTS
    Requests = {r1, r2}
    Size = 2
    Threshold = 2
    Cooldown = 1
    MaxFails = 3
SPECIFICATION FairSpec
INVARIANTS
    TypeOK
    OpenedByConsecutiveFailures
    FreeFirst
    FailsOnlyWhenAllFailed
    CancelBlamesOneUpstream
PROPERTIES
    ProbeReopens
    NotShutOut
    RequestsEnd
CHECK_DEADLOCK FALSE
