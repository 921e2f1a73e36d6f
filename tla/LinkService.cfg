SPECIFICATION FairSpec
CONSTANTS
    c1 = c1
    c2 = c2
    Clients <- MCClients
    MaxAttempts = 2
    MaxHistory = 1
    ProgressStates <- MCProgress
INVARIANT TypeOK
INVARIANT OneLink
INVARIANT CancelReachesRun
INVARIANT EndedLooksEnded
PROPERTY StopReturns
CHECK_DEADLOCK FALSE
