SPECIFICATION FairSpec
CONSTANTS
    SseCalls = 2
    FrameSizes = {1, 2}
    EventCap = 1
    StashCap = 1
    InboundBudget = 3
    Alphabet = {"CR", "LF", "d", "e", "f", "u"}
    StreamCap = 4
    LineCap = 3
    DataCap = 2
    Tools = {"t"}
    Params = {"p", "q"}
    SkipCap = 1
    Exchanges = 3
    Size <- MCSize
    SendLimit = 3
    MaxFrameBytes = 2
INVARIANTS FramesAreKept SseIsGuarded  HttpIsOwn ChannelIsOrdered
PROPERTY CallsEnd
CHECK_DEADLOCK FALSE
