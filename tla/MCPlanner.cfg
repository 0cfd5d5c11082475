SPECIFICATION Spec
CONSTANTS
    MaxOrders = 2
    Tolerance = 0
    Year = 1
    MaxTime = 2
    Requests <- MCRequests
INVARIANTS QueueWellFormed PublishedConsistent
PROPERTIES AnswerAfterPublish PassLeavesNothingDue ImplementsPlanService
VIEW MCView
