SPECIFICATION FairSpec
CONSTANTS
    Sessions = {"s1", "s2"}
    Scope = {"c", "a"}
    Configured = {"c"}
    Challenges = {{}, {"a"}}
    MaxStepUp = 2
    MaxReauth = 2
    RefreshCap = 2
INVARIANTS SecretsGoHome TokenIsShared StartupIsSound
PROPERTY RequestsEnd
CHECK_DEADLOCK FALSE
