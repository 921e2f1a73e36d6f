\* Every chip, every option, two answers that come after their request expired.
SPECIFICATION FairSpec
CONSTANTS
    Scenarios <- MCScenarios
    ImageLen = 24
    Wall = 8
    Big = 8
    Small = 4
    RegZones <- MCRegZones
    PointZones <- MCPointZones
    Poisons <- NoPoisons
    MaxLate = 2
INVARIANTS
    TypeOK
    ZonesSpared
PROPERTIES
    AnswersMatch
    ImplementsBoot
    LoadReturns
CHECK_DEADLOCK FALSE
