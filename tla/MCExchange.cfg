SPECIFICATION SpecExchange
CONSTANTS
    MaxOrders = 2
    Tolerance = 0
    Year = 1
    MaxTime = 0
    Requests <- MCRequests
    Commands <- MCCommands
    PromptPlanner = TRUE
INVARIANTS TypeOKExchange AckedMeansServed AcknowledgedStateHolds MatchingPlanIsCurrent
PROPERTIES NoCrossedOperation
VIEW MCView
