\* Three tries a message, three faults, three rekeys, a channel of three frames.
\* The exchange ends: CHECK_DEADLOCK is off.
SPECIFICATION FairSpec
CONSTANTS
    EapolCap = 3
    Tries = 3
    MaxRekeys = 3
    MaxFaults = 3
INVARIANTS
    TypeOK
    KeysAgree
    AckedIsInstalled
    LossSurvived
PROPERTIES
    SupplicantSettles
CHECK_DEADLOCK FALSE
