SPECIFICATION Spec
CONSTANTS
    Calls = {c1, c2}
    Kinds = {"retrieve", "rematerialize"}
    Sweeps = {w1}
    MaxJobs = 2
    MaxFaults = 1
    MaxClashes = 0
    MaxEvictions = 1
INVARIANT NeverUnretryable
CHECK_DEADLOCK FALSE
