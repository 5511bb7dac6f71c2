SPECIFICATION Spec
CONSTANTS
    Requests <- MCRequests
    MaxIds = 2
INVARIANTS
    UsedWhenAskedIsKept
    ServesTheCaller
    AnswerTellsOutcome
    InternalsStayInside
    AnswersAsDocumented
CHECK_DEADLOCK FALSE
