\* Three interfaces on two choices of networks; one change of the network and one refusal, anywhere.
SPECIFICATION FairSpec
CONSTANTS
    Ifaces <- MCIfaces
    Place <- MCPlace
    Wired <- MCWired
    Tunnels <- MCTunnels
    Networks <- MCNetworks
    Guess = "guess"
    Dish = "dish"
    MaxFlaps = 1
    MaxRefusals = 1
INVARIANTS
    TypeOK
PROPERTIES
    FailoverEarned
    FailsOver
CHECK_DEADLOCK FALSE
