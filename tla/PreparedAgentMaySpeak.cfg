SPECIFICATION Spec
CONSTANTS
    Agent = {a1, a2}
    Signature = {s1}
    MaxSeq = 0
    MaxBeats = 1
    Faults = {}
    NoSig = NoSig
    NoEvidence = NoEvidence
    NoReadiness = NoReadiness
INVARIANT PreparedAgentMaySpeak
CHECK_DEADLOCK FALSE
