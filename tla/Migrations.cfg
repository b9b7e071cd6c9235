CONSTANTS
    Runners = {r1, r2, r3}
    Size = 2
SPECIFICATION FairSpec
INVARIANTS
    TypeOK
    ExactlyOnceInOrder
    SuccessIsComplete
PROPERTY RunnersEnd
