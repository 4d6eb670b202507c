SPECIFICATION FairSpec
CONSTANTS
    Threads = {"t1", "t2"}
    Tools = {"a", "b"}
    MaxCalls = 2
    MaxSamples = 3
    Fleets <- MCFleets
    MaxWorkers = 5
    Width = 4
    Sessions = {1, 2}
    Methods = {"x", "y"}
    MaxRequests <- MCRequests
    Inputs <- MCInputs
    MaxLine = 3
    Runs = {"r1", "r2"}
    RunIds = {1, 2, 3, 4, 5, 6}
    Figures <- MCFigures
    Cohorts = {"c", "d"}
    Window = 3
    MinSamples = 2
    Limit = 4
    Beginnings <- MCBeginnings
    Exporters = {"r1"}
    MaxAttempts = 3
    Formats = {"metrics"}
INVARIANTS FiguresAreTrue EvidenceOfAll ReplayMatches ServerAnswers OneRecordPerRun RegressionIsReal EndingIsEarned
PROPERTIES SamplesAreKept VerdictComes
CHECK_DEADLOCK FALSE
