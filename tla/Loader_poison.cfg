\* One chip, one word found to be poisoned, right before a register zone.
SPECIFICATION Spec
CONSTANTS
    Scenarios <- OneScenario
    ImageLen = 24
    Wall = 8
    Big = 8
    Small = 4
    RegZones <- MCRegZones
    PointZones <- MCPointZones
    Poisons <- OnePoison
    MaxLate = 0
INVARIANTS
    PoisonsSpared
CHECK_DEADLOCK FALSE
