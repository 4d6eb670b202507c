SPECIFICATION FairSpec
CONSTANTS
    w1 = w1
    w2 = w2
    Workers = {w1, w2}
    Main = main
    MaxCalls = 2
INVARIANTS CountsAreHonest CallsCounted PoolIsOrderly
PROPERTY RunEnds
CHECK_DEADLOCK FALSE
