SPECIFICATION Spec
CONSTANTS
    Default = "simulation"
    Freeze = 1
    MaxTime = 4
PROPERTIES BlockedUntilAcknowledged
