SPECIFICATION WsFairSpec
CONSTANTS
    MaxRequests = 2
    MaxBytes = 2
    ChannelCap = 1
    BufferLimit = 3
INVARIANTS BudgetIsExact CallsAreToldTruth
PROPERTY EveryCallEnds
CHECK_DEADLOCK FALSE
