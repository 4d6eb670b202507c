SPECIFICATION JobSpec
CONSTANTS
    Agent = {a1, a2}
    Signature = {s1, s2}
    MaxSeq = 1
    NoSig = NoSig
    NoEvidence = NoEvidence
INVARIANT JobInv
PROPERTIES FailureIsFinal SettledIsKept
