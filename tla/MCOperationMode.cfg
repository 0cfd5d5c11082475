SPECIFICATION FairSpec
CONSTANTS
    Default = "simulation"
    Freeze = 1
    MaxTime = 3
INVARIANTS TypeOK OneMode PlantOnlyIfConfirmed
PROPERTIES FrozenPlantRefused LivePlantServed TelemetryFollows
