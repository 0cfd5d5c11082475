SPECIFICATION Spec
CONSTANTS
    Delay = 2
    Purge = 2
    Ignite = 1
    Cooldown = 1
    Ramp = 10
    Periods = {1}
    Demands = {0, 4, 36}
INVARIANTS
    TypeOK
    BurnsOnlyAfterPurge
    StagesInSequence
PROPERTIES
    NeverRampsOverLimit
    RoundsShareExactly
    StagingSettles
    DemandServed
