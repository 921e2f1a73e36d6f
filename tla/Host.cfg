\* Two processes that are killed and started again, three utuns.
SPECIFICATION FairSpec
CONSTANTS
    Pids = {"p1", "p2"}
    Tuns = {"utun1", "utun2", "utun3"}
INVARIANTS
    TypeOK
    UpIsRouted
    RecordIsOwn
PROPERTIES
    DeadForgotten
CHECK_DEADLOCK FALSE
