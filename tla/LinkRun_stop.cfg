SPECIFICATION LinkFairSpec
CONSTANTS
    c1 = c1
    Clients <- MCClients
    MaxAttempts = 1
    MaxHistory = 1
    ProgressStates <- MCProgress
    Security = {"wpa2", "open"}
PROPERTY StopEndsRun
CHECK_DEADLOCK FALSE
