SPECIFICATION FairSpec
CONSTANTS
    Connections = {c1, c2}
    Requests = {1, 2}
    MaxSpans = 3
INVARIANTS
    TypeOK
    EndsAsItsCommand
    HoldsWhatIsUnderWay
PROPERTIES
    AnsweredIsEnded
CHECK_DEADLOCK FALSE
