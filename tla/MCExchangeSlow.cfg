SPECIFICATION SpecExchange
CONSTANTS
    MaxOrders = 1
    Tolerance = 0
    Year = 1
    MaxTime = 0
    Requests <- MCRequests
    Commands <- MCAdds
    PromptPlanner = FALSE
INVARIANT AckedMeansServed
VIEW MCView
