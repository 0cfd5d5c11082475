SPECIFICATION Spec
CONSTANTS
    Boot = boot
    DryRuns = {dry}
    Handlers = {h1, h2}
    MaxTries = 1
    MaxFaults = 2
    None = none
    Gone = gone
INVARIANTS
    TypeOK
    ReleasedOnce
    ChallengeKept
PROPERTY DataMounted
\* When the volume is mounted and nothing may fail any more, all is done.
CHECK_DEADLOCK FALSE
