SPECIFICATION Spec
CONSTANT
    MaxOrders = 4
INVARIANT
    IdNeverAhead
PROPERTY
    BlockSettles
