SPECIFICATION FairSpec
CONSTANT MaxRequests = 3
INVARIANTS AnswersAreTrue CleanMeansWhole
PROPERTY EveryWaitEnds
CHECK_DEADLOCK FALSE
