SPECIFICATION Spec
CONSTANTS
    Requests <- MCRequests
    MaxIds = 2
INVARIANTS
    OnlySentinelsReachTheCaller
CHECK_DEADLOCK FALSE
