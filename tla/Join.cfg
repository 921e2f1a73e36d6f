\* Three BSSIDs of ours and one foreign, up to two reports, two servers.
\* The join ends: CHECK_DEADLOCK is off.
SPECIFICATION FairSpec
CONSTANTS
    Bss = {1, 2, 3, 4}
    Ours = {1, 2, 4}
    Asked = {0, 2}
    IndCap = 1
    MaxInds = 2
    Servers = {s1, s2}
    Ips = {1, 2}
    Sends = 2
    Pings = 2
INVARIANTS
    TypeOK
    TriedOnce
    LeaseAgrees
    PathProven
PROPERTIES
    JoinSettles
CHECK_DEADLOCK FALSE
