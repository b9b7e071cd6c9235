CONSTANTS
    MaxFlows = 2
    MaxErrors = 1
    None = None
SPECIFICATION FairSpec
INVARIANTS
    TypeOK
    ConversationAlternates
    FlowIsShown
    UnheardRunIsIdle
PROPERTIES
    PollsEnd
    WorkingEnds
CHECK_DEADLOCK FALSE
