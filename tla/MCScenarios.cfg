SPECIFICATION FairSpec
CONSTANTS
    Sessions = {0, 1, 2}
    Threshold = 1
    Grace = 1
    Forever = 9
    Lateness = 1
    LoadErrors = {"ServerOther", "Json", "Closed"}
    Payloads <- MCPayloads
    Plans <- MCPlans
INVARIANTS SessionsAreKept CountsAgree VerdictIsEarned
PROPERTY DriveReturns
CHECK_DEADLOCK FALSE
