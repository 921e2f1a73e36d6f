SPECIFICATION LinkFairSpec
CONSTANTS
    c1 = c1
    Clients <- MCClients
    MaxAttempts = 2
    MaxHistory = 1
    ProgressStates <- MCProgress
    Security = {"wpa2", "open"}
INVARIANT LinkTypeOK
INVARIANT OneResetPerInstance
PROPERTY ImplementsLinkService
PROPERTY ConnectSettles
PROPERTY DropEndsLink
CHECK_DEADLOCK FALSE
