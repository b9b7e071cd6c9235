CONSTANTS
    Limit = 2
    Seconds = 2
    Second = 2
    None = None
    MaxTime = 5
    Keys = {k1}
    EnvKey = EnvKey
    Requests = {r1, r2}
SPECIFICATION FairGateway
INVARIANTS
    GatewayTypeOK
    TwiceTheLimit
    WaitSuffices
    ServedIsAuthorised
PROPERTIES
    QuotaIsForWork
    StopsOnSignal
