SPECIFICATION FairSpec
CONSTANTS
    Agent = {a1, a2}
    Signature = {s1}
    MaxSeq = 0
    MaxBeats = 0
    Faults = {"launch", "crash", "link", "timeout", "engine", "policy"}
    NoSig = NoSig
    NoEvidence = NoEvidence
    NoReadiness = NoReadiness
PROPERTY EveryoneEnds
CHECK_DEADLOCK FALSE
