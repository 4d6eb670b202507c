SPECIFICATION Spec
CONSTANTS
    Agent = {a1, a2}
    Signature = {s1, s2}
    MaxSeq = 0
    MaxBeats = 1
    Faults = {"launch", "crash", "link", "timeout", "engine", "policy"}
    NoSig = NoSig
    NoEvidence = NoEvidence
    NoReadiness = NoReadiness
SYMMETRY Symmetry
INVARIANT IInv
INVARIANT CohortIsSafe
PROPERTY CohortRefinement
CHECK_DEADLOCK FALSE
