\* Two histories; one pass that hangs and one that fails, wherever they are.
SPECIFICATION FairSpec
CONSTANTS
    Histories <- MCHistories
    Slots = {s1, s2}
    MaxHung = 1
    MaxFailures = 1
INVARIANTS
    TypeOK
PROPERTIES
    ImplementsObserver
    ViewsSettle
CHECK_DEADLOCK FALSE
