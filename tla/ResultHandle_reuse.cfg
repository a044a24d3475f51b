SPECIFICATION Spec
CONSTANTS
    Calls = {c1, c2, c3}
    Kinds = {"retrieve", "prefetch", "rematerialize", "pin", "unpin"}
    Sweeps = {w1}
    MaxJobs = 2
    MaxFaults = 1
    MaxClashes = 1
    MaxEvictions = 1
SYMMETRY CallSymmetry
INVARIANT TypeOK
INVARIANT OneJobPerSignature
INVARIANT AskedIsKept
INVARIANT PendingIsOwned
CHECK_DEADLOCK FALSE
