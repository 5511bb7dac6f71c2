CONSTANTS
    Requests = {r1, r2}
    MaxSignals = 2
SPECIFICATION FairSpec
INVARIANTS
    TypeOK
    CleanExitCutsNothing
    CleanExitWasAsked
PROPERTIES
    EndsAfterSignal
    EndsWithoutListener
CHECK_DEADLOCK FALSE
