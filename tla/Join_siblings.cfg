\* A refused BSSID with siblings on the air.
SPECIFICATION Spec
CONSTANTS
    Bss = {1, 2, 3}
    Ours = {1, 2}
    Asked = {2}
    IndCap = 1
    MaxInds = 1
    Servers = {s1}
    Ips = {1}
    Sends = 1
    Pings = 1
INVARIANTS
    SilenceIsDeaf
CHECK_DEADLOCK FALSE
