SPECIFICATION FairSpec
CONSTANTS
    MaxOrders = 1
    Tolerance = 0
    Year = 1
    MaxTime = 1
    Requests <- MCFewRequests
PROPERTIES TriggerAnswered PublicationEnds DueOrderLeaves
